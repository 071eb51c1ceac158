--------------------------- MODULE ContextLocks ---------------------------
(***************************************************************************)
(* The locks a context can end a wait for (internal/ctxsync): RWMutex,     *)
(* whose waiting writers hold new readers back, with its Writer, which     *)
(* takes the lock when it chooses; and LazyMutex, a lock with no readers   *)
(* whose waiters an Unlock wakes all at once.  A waiter sleeps on the      *)
(* channel it saw, so it is woken by the change after it looked.           *)
(***************************************************************************)
EXTENDS Integers, FiniteSets

CONSTANTS Threads,
          RolesOf,  \* the assignments of roles to threads to check
          MaxCalls  \* bound on the calls of a thread that does not only read

Roles == {"reader", "tryReader", "locker", "tryLocker", "handle", "lazy", "waitFree"}
ASSUME ThreadsAssumption == IsFiniteSet(Threads) /\ RolesOf \subseteq [Threads -> Roles]

VARIABLES role, readers, writer, waiting, \* RWMutex; LazyMutex is its writer alone
          thread,  \* what each thread does: idle, try, asleep, woken, has the lock, or is a Writer choosing
          registered, ended, calls

vars == <<role, readers, writer, waiting, thread, registered, ended, calls>>

Reading == {"reader", "tryReader"}
Lazy(t) == role[t] \in {"lazy", "waitFree"}
ReadsPastWriters == ~writer
MayRead == ~writer /\ waiting = 0
MayWrite == ~writer /\ readers = 0

----------------------------------------------------------------------------
\* signal, Unlock: everyone asleep is woken.
Woken(new) == [t \in Threads |-> IF new[t] = "asleep" THEN "woken" ELSE new[t]]

\* A call: its context is looked at first, and again only while it sleeps.
Calls(t) ==
    /\ thread[t] = "idle" /\ (role[t] \in Reading \/ calls[t] < MaxCalls)
    /\ calls' = [calls EXCEPT ![t] = IF role[t] \in Reading THEN @ ELSE @ + 1]
    /\ ended' = [ended EXCEPT ![t] = FALSE]
    /\ thread' = [thread EXCEPT ![t] = "try"]
    /\ IF role[t] = "handle" THEN registered' = registered \cup {t} /\ waiting' = waiting + 1 ELSE UNCHANGED <<registered, waiting>>
    /\ UNCHANGED <<role, readers, writer>>
Looks(t) == thread[t] \in {"try", "woken"}

\* RLock; WaitReadable and TryRLock, which takes nothing when it wakes.
Reads(t) ==
    /\ Looks(t) /\ role[t] \in Reading
    /\ \/ MayRead /\ readers' = readers + 1 /\ thread' = [thread EXCEPT ![t] = "has"]
       \/ ~MayRead /\ role[t] = "tryReader" /\ thread[t] = "woken" /\ thread' = [thread EXCEPT ![t] = "idle"] /\ UNCHANGED readers
       \/ ~MayRead /\ ~(role[t] = "tryReader" /\ thread[t] = "woken") /\ thread' = [thread EXCEPT ![t] = "asleep"] /\ UNCHANGED readers
    /\ UNCHANGED <<role, writer, waiting, registered, ended, calls>>

\* Lock: counted as waiting from its first sleep until it has the lock.
LeavesWait(t) == IF t \in registered THEN waiting - 1 ELSE waiting
Locks(t) ==
    /\ Looks(t) /\ role[t] \in {"locker", "lazy"}
    /\ \/ /\ MayWrite /\ writer' = TRUE /\ waiting' = LeavesWait(t) /\ registered' = registered \ {t}
          /\ thread' = [thread EXCEPT ![t] = "has"]
       \/ /\ ~MayWrite /\ thread' = [thread EXCEPT ![t] = "asleep"] /\ UNCHANGED writer
          /\ IF Lazy(t) \/ t \in registered THEN UNCHANGED <<waiting, registered>>
             ELSE waiting' = waiting + 1 /\ registered' = registered \cup {t}
    /\ UNCHANGED <<role, readers, ended, calls>>
\* TryLock, WaitFree: at once, or not.
Tries(t) ==
    /\ Looks(t) /\ role[t] \in {"tryLocker", "waitFree"}
    /\ \/ MayWrite /\ writer' = TRUE /\ thread' = [thread EXCEPT ![t] = "has"]
       \/ ~MayWrite /\ UNCHANGED writer
          /\ thread' = [thread EXCEPT ![t] = IF role[t] = "waitFree" /\ @ = "try" THEN "asleep" ELSE "idle"]
    /\ UNCHANGED <<role, readers, waiting, registered, ended, calls>>

\* Writer: Wait, then TryLock when it chooses; Leave.
WriterWaits(t) ==
    /\ Looks(t) /\ role[t] = "handle"
    /\ thread' = [thread EXCEPT ![t] = IF MayWrite THEN "chooses" ELSE "asleep"]
    /\ UNCHANGED <<role, readers, writer, waiting, registered, ended, calls>>
WriterTries(t) ==
    /\ thread[t] = "chooses"
    /\ \/ MayWrite /\ writer' = TRUE /\ waiting' = waiting - 1 /\ registered' = registered \ {t} /\ thread' = [thread EXCEPT ![t] = "has"]
       \/ ~MayWrite /\ thread' = [thread EXCEPT ![t] = "try"] /\ UNCHANGED <<writer, waiting, registered>>
    /\ UNCHANGED <<role, readers, ended, calls>>
Leave(t) ==
    /\ role[t] = "handle" /\ thread[t] = "chooses"
    /\ waiting' = waiting - 1 /\ registered' = registered \ {t}
    /\ thread' = Woken([thread EXCEPT ![t] = "idle"])
    /\ UNCHANGED <<role, readers, writer, ended, calls>>

\* The context ends: a sleeper goes, and a writer that waited wakes the
\* readers it held back.
Ends(t) == thread[t] = "asleep" /\ ~ended[t] /\ ended' = [ended EXCEPT ![t] = TRUE] /\ UNCHANGED <<role, readers, writer, waiting, thread, registered, calls>>
GoneQuietly(t) == [thread EXCEPT ![t] = "idle"]
Gone(t) == IF t \in registered THEN Woken([thread EXCEPT ![t] = "idle"]) ELSE [thread EXCEPT ![t] = "idle"]
GivesUp(t) ==
    /\ thread[t] \in {"asleep", "woken"} /\ ended[t]
    /\ waiting' = LeavesWait(t) /\ registered' = registered \ {t} /\ thread' = Gone(t) /\ ended' = [ended EXCEPT ![t] = FALSE]
    /\ UNCHANGED <<role, readers, writer, calls>>

\* RUnlock, Unlock.
Unlocks(t) ==
    /\ thread[t] = "has"
    /\ IF role[t] \in Reading THEN readers' = readers - 1 /\ UNCHANGED writer ELSE writer' = FALSE /\ UNCHANGED readers
    /\ thread' = Woken([thread EXCEPT ![t] = "idle"])
    /\ UNCHANGED <<role, waiting, registered, ended, calls>>

Init == /\ role \in RolesOf /\ readers = 0 /\ writer = FALSE /\ waiting = 0 /\ thread = [t \in Threads |-> "idle"]
        /\ registered = {} /\ ended = [t \in Threads |-> FALSE] /\ calls = [t \in Threads |-> 0]
Steps(t) == Reads(t) \/ Locks(t) \/ Tries(t) \/ WriterWaits(t) \/ WriterTries(t) \/ GivesUp(t) \/ Unlocks(t)
Next == \E t \in Threads : Calls(t) \/ Steps(t) \/ Leave(t) \/ Ends(t)
Spec == Init /\ [][Next]_vars

----------------------------------------------------------------------------
\* Every variable keeps its type, and the waiting writers are counted once
\* each, however their wait ends (Lock, Leave).
TypeOK == readers \in 0..Cardinality(Threads) /\ waiting = Cardinality(registered) /\ registered \subseteq Threads

\* A writer has the lock alone, and the lock knows who has it (RWMutex).
Excludes ==
    LET has == {t \in Threads : thread[t] = "has"}
    IN /\ writer <=> \E t \in has : role[t] \notin Reading
       /\ writer => Cardinality(has) = 1
       /\ readers = Cardinality({t \in has : role[t] \in Reading})

\* Nobody sleeps through the change it waits for: a sleeper still may not take
\* the lock (wait, signal).
NobodySleepsOn == \A t \in Threads : (thread[t] = "asleep" /\ ~ended[t]) => IF role[t] \in Reading THEN ~MayRead ELSE ~MayWrite

\* A writer that waits gets the lock or gives up, however many readers come
\* and go: new readers wait behind it (RLock, Lock).
WritersNotStarved == \A t \in Threads : (role[t] = "locker" /\ thread[t] = "asleep") ~> (thread[t] \in {"has", "idle"})

\* The lock is sound: a writer has it alone, the waiting writers are counted, and
\* nobody sleeps through the change it waits for.
LocksSound == TypeOK /\ Excludes /\ NobodySleepsOn
====
