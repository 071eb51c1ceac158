---------------------------- MODULE SpillStorage ----------------------------
(***************************************************************************)
(* The spill file of a pager (vmmemory/internal/zirconvm/spillstorage.go): *)
(* a budget of page-sized allocations of one file.  A caller reserves an   *)
(* allocation as a reference, stores a page in it and frees it; or it      *)
(* publishes the reference as the version of a key, which the storage then *)
(* owns and may drop whenever it needs room.  Every method takes the mutex *)
(* for its bookkeeping and lets it go around the file's reads and writes.  *)
(* A key stands for the bytes kept under it.                               *)
(***************************************************************************)
EXTENDS Integers, Sequences, FiniteSets, FiniteSetsExt

CONSTANTS Keys,          \* the keys of the versions
          Budget,        \* how many pages the file may hold
          MaxVersions,   \* how many of them may be versions
          MaxPublished   \* bound: how many versions the model publishes

VARIABLES books,     \* what the mutex guards: free, next, alloc, versions, queue
          published, \* the number of the last version
          file,      \* the bytes of each page of the file
          refs,      \* the references callers hold, and what they stored
          reader,    \* one ReadVersion in progress
          writer     \* one WriteVersion in progress

spillVars == <<books, published, file, refs, reader, writer>>

Ids == 0 .. Budget - 1
Junk == "junk"
NoVersion == [id |-> -1, number |-> 0]
Blank == [written |-> FALSE, sum |-> Junk, read |-> FALSE]
Idle == [pc |-> "idle", key |-> Junk, id |-> -1, number |-> 0, bytes |-> Junk]
NoRef == [st |-> "none", bytes |-> Junk]

Indexed(b) == {k \in Keys : b.versions[k] # NoVersion}

SpillInit ==
  /\ books = [free |-> <<>>, next |-> 0, alloc |-> [i \in Ids |-> Blank],
              versions |-> [k \in Keys |-> NoVersion], queue |-> <<>>]
  /\ published = 0
  /\ file = [i \in Ids |-> Junk]
  /\ refs = [i \in Ids |-> NoRef]
  /\ reader = Idle
  /\ writer = Idle

\* dropOldestLocked: an entry of the queue whose version is gone is skipped,
\* one read since it was queued gets a second chance at the end, and the first
\* other is dropped.  The id is -1 when there is no version.
DropOldest(b) ==
  LET q == b.queue
      Live(e) == b.versions[e.key].number = e.number
      unread == {i \in DOMAIN q : Live(q[i]) /\ ~b.alloc[q[i].id].read}
      cut == IF unread = {} THEN Len(q) + 1 ELSE Min(unread)
      passed == SelectSeq(SubSeq(q, 1, cut - 1), Live)
      order == SubSeq(q, cut, Len(q)) \o passed
      given == {passed[i].id : i \in DOMAIN passed}
  IN IF Indexed(b) = {} THEN [books |-> b, id |-> -1]
     ELSE [books |-> [b EXCEPT
             !.queue = Tail(order),
             !.versions[Head(order).key] = NoVersion,
             !.alloc = [i \in Ids |->
                IF i = Head(order).id THEN Blank
                ELSE [@[i] EXCEPT !.read = @ /\ i \notin given]]],
           id |-> Head(order).id]

\* freeLocked.

FreeLocked(b, id) ==
  [b EXCEPT !.alloc[id] = Blank, !.free = Append(@, id)]

\* The order Reserve takes a page in: a freed one, a new one, a version's.
TakePage(b) ==
  IF b.free # <<>>
  THEN [books |-> [b EXCEPT !.free = SubSeq(@, 1, Len(@) - 1)],
        id |-> b.free[Len(b.free)]]
  ELSE IF b.next < Budget
  THEN [books |-> [b EXCEPT !.next = @ + 1], id |-> b.next]
  ELSE DropOldest(b)

Reserve ==
  LET t == TakePage(books) IN
  /\ t.id # -1
  /\ books' = t.books
  /\ refs' = [refs EXCEPT ![t.id] = [st |-> "held", bytes |-> Junk]]
  /\ UNCHANGED <<published, file, reader, writer>>

\* StoreReserved before its write: the allocation is marked written, with the
\* checksum of the bytes to come.  The caller's lock keeps the reference its.
StoreBegin(id, k) ==
  /\ refs[id].st = "held"
  /\ books' = [books EXCEPT !.alloc[id] =
                 [written |-> TRUE, sum |-> k, read |-> FALSE]]
  /\ refs' = [refs EXCEPT ![id] = [st |-> "storing", bytes |-> k]]
  /\ UNCHANGED <<published, file, reader, writer>>

StoreEnd(id) ==
  /\ refs[id].st = "storing"
  /\ file' = [file EXCEPT ![id] = refs[id].bytes]
  /\ refs' = [refs EXCEPT ![id].st = "held"]
  /\ UNCHANGED <<books, published, reader, writer>>

\* A write that fails leaves any bytes; Store frees the reference it reserved,
\* a caller of StoreReserved keeps its own.
StoreFails(id) ==
  /\ refs[id].st = "storing"
  /\ file' = [file EXCEPT ![id] = Junk]
  /\ \/ /\ books' = FreeLocked(books, id)
        /\ refs' = [refs EXCEPT ![id] = NoRef]
     \/ /\ books' = books
        /\ refs' = [refs EXCEPT ![id].st = "held"]
  /\ UNCHANGED <<published, reader, writer>>

Unstore(id) ==
  /\ refs[id].st = "held" /\ books.alloc[id].written
  /\ books' = [books EXCEPT !.alloc[id] = Blank]
  /\ refs' = [refs EXCEPT ![id].bytes = Junk]
  /\ UNCHANGED <<published, file, reader, writer>>

Free(id) ==
  /\ refs[id].st = "held"
  /\ books' = FreeLocked(books, id)
  /\ refs' = [refs EXCEPT ![id] = NoRef]
  /\ UNCHANGED <<published, file, reader, writer>>

\* A version of k, at id, enters the index and the queue.
Enter(b, id, k, n) ==
  [b EXCEPT !.versions[k] = [id |-> id, number |-> n],
            !.queue = Append(@, [key |-> k, id |-> id, number |-> n]),
            !.alloc[id].read = FALSE]

\* A caller that publishes frees its reference where Publish does not: the
\* index already has the key, or the allocation holds nothing.
Publish(id, k) ==
  /\ refs[id].st = "held" /\ refs[id].bytes \in {k, Junk}
  /\ published < MaxPublished
  /\ IF ~books.alloc[id].written \/ k \in Indexed(books) \/ MaxVersions = 0
     THEN /\ books' = FreeLocked(books, id)
          /\ published' = published
     ELSE LET d == DropOldest(books)
              room == IF Cardinality(Indexed(books)) = MaxVersions
                      THEN [d.books EXCEPT !.free = Append(@, d.id)]
                      ELSE books
          IN /\ books' = Enter(room, id, k, published + 1)
             /\ published' = published + 1
  /\ refs' = [refs EXCEPT ![id] = NoRef]
  /\ UNCHANGED <<file, reader, writer>>

\* ReadVersion: the index is read under the mutex, the file without it, and
\* the version checked under it again.
ReadVersion(k) ==
  /\ reader.pc = "idle" /\ k \in Indexed(books)
  /\ LET v == books.versions[k] IN
     /\ reader' = [pc |-> "read", key |-> k, id |-> v.id, number |-> v.number,
                   bytes |-> Junk]
     /\ books' = [books EXCEPT !.alloc[v.id].read = TRUE]
  /\ UNCHANGED <<published, file, refs, writer>>

ReadFile ==
  /\ reader.pc = "read"
  /\ reader' = [reader EXCEPT !.pc = "check", !.bytes = file[reader.id]]
  /\ UNCHANGED <<books, published, file, refs, writer>>

\* The checksum refuses the file's bytes when they are not the key's; a page
\* that fails it is dropped, and its queue entry left behind.

ReadChecked ==
  /\ reader.pc = "check"
  /\ LET current == books.versions[reader.key].number = reader.number IN
     /\ reader' = Idle
     /\ books' = IF current /\ reader.bytes # reader.key
                 THEN FreeLocked([books EXCEPT !.versions[reader.key] =
                                    NoVersion], reader.id)
                 ELSE books
  /\ UNCHANGED <<published, file, refs, writer>>

\* ReadVersion where the device failed the read: a miss or an error.
ReadFails ==
  /\ reader.pc = "check" /\ reader' = Idle
  /\ UNCHANGED <<books, published, file, refs, writer>>

\* WriteVersion: a page of its own, a version's where the index is full.
WriteVersion(k) ==
  LET t == IF Cardinality(Indexed(books)) >= MaxVersions
           THEN DropOldest(books) ELSE TakePage(books)
  IN /\ writer.pc = "idle" /\ k \notin Indexed(books) /\ MaxVersions # 0
     /\ published < MaxPublished
     /\ books' = t.books
     /\ writer' = IF t.id = -1 THEN Idle
                  ELSE [Idle EXCEPT !.pc = "write", !.key = k, !.id = t.id]
     /\ UNCHANGED <<published, file, refs, reader>>

WriteFile ==
  /\ writer.pc = "write"
  /\ \/ /\ file' = [file EXCEPT ![writer.id] = writer.key]
        /\ writer' = [writer EXCEPT !.pc = "enter"]
        /\ books' = books
     \/ /\ file' = [file EXCEPT ![writer.id] = Junk]
        /\ books' = FreeLocked(books, writer.id)
        /\ writer' = Idle
  /\ UNCHANGED <<published, refs, reader>>

\* Mutant: a version entered since the index was read is written over.
WriteEnterUnchecked ==
  /\ writer.pc = "enter"
  /\ published' = published + 1
  /\ books' = Enter([books EXCEPT !.alloc[writer.id] =
                        [written |-> TRUE, sum |-> writer.key, read |-> FALSE]],
                     writer.id, writer.key, published + 1)
  /\ writer' = Idle
  /\ UNCHANGED <<file, refs, reader>>

WriteEnter ==
  /\ writer.pc = "enter"
  /\ IF writer.key \in Indexed(books)
     THEN /\ books' = FreeLocked(books, writer.id)
          /\ published' = published
     ELSE /\ published' = published + 1
          /\ books' = Enter([books EXCEPT !.alloc[writer.id] =
                        [written |-> TRUE, sum |-> writer.key,
                         read |-> FALSE]],
                        writer.id, writer.key, published + 1)
  /\ writer' = Idle
  /\ UNCHANGED <<file, refs, reader>>

\* Release, once nothing will be stored again: no store is under way.
Release ==
  /\ writer = Idle /\ \A i \in Ids : refs[i].st # "storing"
  /\ books.next > 0
  /\ file' = [i \in Ids |-> Junk]
  /\ LET owned == {books.versions[k].id : k \in Indexed(books)} IN
     \E order \in {s \in [1 .. Cardinality(owned) -> owned] :
                     {s[i] : i \in DOMAIN s} = owned} :
       books' = [books EXCEPT
         !.alloc = [i \in Ids |-> IF i \in owned THEN Blank
                                  ELSE [@[i] EXCEPT !.written = FALSE]],
         !.versions = [k \in Keys |-> NoVersion],
         !.free = @ \o order,
         !.queue = <<>>]
  /\ refs' = [i \in Ids |-> [refs[i] EXCEPT !.bytes = Junk]]
  /\ UNCHANGED <<published, reader, writer>>

\* The device loses the bytes of a page: the file is scratch.
Lose(id) ==
  /\ file[id] # Junk
  /\ file' = [file EXCEPT ![id] = Junk]
  /\ UNCHANGED <<books, published, refs, reader, writer>>

SpillNext ==
  \/ Reserve
  \/ \E id \in Ids :
       \/ \E k \in Keys : StoreBegin(id, k) \/ Publish(id, k)
       \/ StoreEnd(id) \/ StoreFails(id) \/ Unstore(id) \/ Free(id) \/ Lose(id)
  \/ \E k \in Keys : ReadVersion(k) \/ WriteVersion(k)
  \/ ReadFile \/ ReadChecked \/ ReadFails
  \/ WriteFile \/ WriteEnter
  \/ Release

-----------------------------------------------------------------------------
Occurrences(s, x) == Cardinality({i \in DOMAIN s : s[i] = x})

\* Every page taken from the file is in exactly one hand: free, a caller's
\* reference, one key's version or the WriteVersion under way.  So no two
\* pages share an allocation, none leaks, and, as the storage's comment says,
\* a full budget of reservations is never refused for versions.
EveryPageInOneHand ==
  \A i \in Ids :
    Occurrences(books.free, i)
      + (IF refs[i] # NoRef THEN 1 ELSE 0)
      + Cardinality({k \in Indexed(books) : books.versions[k].id = i})
      + (IF writer # Idle /\ writer.id = i THEN 1 ELSE 0)
    = IF i < books.next THEN 1 ELSE 0

\* What a reference reads back is what its caller stored last, or an error:
\* CompressedData refuses an allocation not written and bytes that fail the
\* checksum.
ReadsBackOrFails ==
  \A i \in Ids :
    refs[i].st = "held" /\ books.alloc[i].written
      => file[i] \in {refs[i].bytes, Junk} /\ books.alloc[i].sum = refs[i].bytes

\* A version holds the bytes of its key or bytes the checksum refuses, and
\* every version has one live entry in the queue, so dropOldestLocked, which
\* indexes the queue while there are versions, always finds one to drop.
VersionsAreTheirs ==
  \A k \in Indexed(books) :
       LET v == books.versions[k] IN
       /\ books.alloc[v.id].written /\ books.alloc[v.id].sum = k
       /\ file[v.id] \in {k, Junk}
       /\ Cardinality({i \in DOMAIN books.queue :
                         books.queue[i].number = v.number}) = 1

=============================================================================
