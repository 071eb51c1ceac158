------------------------ MODULE ContextLocksProofs ------------------------
(***************************************************************************)
(* LocksSound for any number of threads, in any roles.  The counts of the  *)
(* lock are the sizes of two sets of threads: those that read and those    *)
(* that wait to write, so a step changes a count as it changes its set.    *)
(***************************************************************************)
EXTENDS ContextLocks, FiniteSetTheorems, TLAPS

\* The threads that have the lock for reading.
HasRead == {t \in Threads : thread[t] = "has" /\ role[t] \in Reading}

\* The states of a thread, and those a writer waits in.
States == {"idle", "try", "asleep", "woken", "has", "chooses"}
Waits == {"try", "asleep", "woken", "chooses"}

Types ==
    /\ role \in [Threads -> Roles] /\ thread \in [Threads -> States]
    /\ ended \in [Threads -> BOOLEAN] /\ calls \in [Threads -> Nat]
    /\ writer \in BOOLEAN /\ readers \in Nat /\ waiting \in Nat
    /\ registered \subseteq Threads

Counts == readers = Cardinality(HasRead) /\ waiting = Cardinality(registered)

\* A registered writer waits, and a Writer's handle is registered while it does.
Registers ==
    \A t \in Threads :
        /\ t \in registered => role[t] \in {"locker", "handle"} /\ thread[t] \in Waits
        /\ role[t] = "handle" /\ thread[t] \in Waits => t \in registered
        /\ thread[t] = "chooses" => role[t] = "handle"

\* A writer has the lock alone.
Alone ==
    /\ \A t \in Threads : thread[t] = "has" /\ role[t] \notin Reading => writer
    /\ writer => /\ \E t \in Threads : thread[t] = "has" /\ role[t] \notin Reading
                 /\ \A t, u \in Threads : thread[t] = "has" /\ thread[u] = "has" => t = u

IInv == Types /\ Counts /\ Registers /\ Alone /\ NobodySleepsOn

-----------------------------------------------------------------------------
(* The sizes of the two sets.                                              *)

LEMMA FiniteParts ==
    ASSUME Types
    PROVE  IsFiniteSet(HasRead) /\ IsFiniteSet(registered)
BY ThreadsAssumption, FS_Subset, Zenon DEF Types, HasRead

\* A set of threads that one joins, or leaves, changes in size by one.
LEMMA Joins ==
    ASSUME NEW S, IsFiniteSet(S), NEW t, t \notin S
    PROVE  Cardinality(S \cup {t}) = Cardinality(S) + 1
BY FS_AddElement, Zenon

LEMMA Parts ==
    ASSUME NEW S, IsFiniteSet(S), NEW t \in S
    PROVE  Cardinality(S \ {t}) = Cardinality(S) - 1 /\ Cardinality(S) \in Nat \ {0}
<1>1. Cardinality(S) \in Nat
  BY FS_CardinalityType, Zenon
<1>2. Cardinality(S) # 0
  BY FS_EmptySet, Zenon
<1> QED  BY <1>1, <1>2, FS_RemoveElement, Zenon

\* No thread reads when the count says so.
LEMMA NoReaders ==
    ASSUME Types, Counts
    PROVE  readers = 0 <=> HasRead = {}
BY FiniteParts, FS_EmptySet, Zenon DEF Counts

LEMMA NoneWaiting ==
    ASSUME Types, Counts
    PROVE  waiting = 0 <=> registered = {}
BY FiniteParts, FS_EmptySet, Zenon DEF Counts

-----------------------------------------------------------------------------
(* One lemma an action.                                                    *)

\* A call: a Writer's handle is registered from its first step.
LEMMA CallsKeeps ==
    ASSUME IInv, NEW t \in Threads, Calls(t)
    PROVE  IInv'
<1> USE DEF IInv, Calls
<1>0. t \notin registered
  BY Zenon DEF Types, Registers, Waits
<1>1. waiting' \in Nat /\ waiting' = Cardinality(registered')
  BY <1>0, Joins, FiniteParts DEF Types, Counts
<1>2. Types'
  BY <1>1 DEF Types, States
<1>3. HasRead' = HasRead
  BY Zenon DEF Types, HasRead
<1>4. Counts'
  BY <1>1, <1>3, Zenon DEF Counts
<1>5. Registers'
  BY Zenon DEF Types, Registers, Waits
<1>6. Alone'
  BY Zenon DEF Types, Alone
<1>7. NobodySleepsOn'
  BY <1>1, <1>2 DEF Types, NobodySleepsOn, MayRead, MayWrite
<1> QED  BY <1>2, <1>4, <1>5, <1>6, <1>7, Zenon

\* RLock, TryRLock: a reader joins only while nobody writes or waits to.
LEMMA ReadsKeeps ==
    ASSUME IInv, NEW t \in Threads, Reads(t)
    PROVE  IInv'
<1> USE DEF IInv, Reads, Looks
<1>1. CASE MayRead /\ readers' = readers + 1 /\ thread' = [thread EXCEPT ![t] = "has"]
  <2>1. Types'
    BY <1>1 DEF Types, States
  <2>2. t \notin HasRead /\ HasRead' = HasRead \cup {t}
    BY <1>1, Zenon DEF Types, HasRead
  <2>3. Counts'
    BY <1>1, <2>2, Joins, FiniteParts, Zenon DEF Counts
  <2>4. Registers'
    BY <1>1, Zenon DEF Types, Registers, Waits, Reading
  <2>5. Alone'
    BY <1>1, Zenon DEF Types, Alone, MayRead
  <2>6. NobodySleepsOn'
    BY <1>1, <2>1 DEF Types, NobodySleepsOn, MayRead, MayWrite
  <2> QED  BY <2>1, <2>3, <2>4, <2>5, <2>6, Zenon
<1>2. CASE ~MayRead /\ readers' = readers /\ \E s \in {"idle", "asleep"} : thread' = [thread EXCEPT ![t] = s]
  <2>1. Types'
    BY <1>2, Zenon DEF Types, States
  <2>2. HasRead' = HasRead
    BY <1>2, Zenon DEF Types, HasRead
  <2>3. Counts'
    BY <1>2, <2>2, Zenon DEF Counts
  <2>4. Registers'
    BY <1>2, Zenon DEF Types, Registers, Waits, Reading
  <2>5. Alone'
    BY <1>2 DEF Types, Alone
  <2>6. NobodySleepsOn'
    BY <1>2, <2>1, Zenon DEF Types, NobodySleepsOn, MayRead, MayWrite
  <2> QED  BY <2>1, <2>3, <2>4, <2>5, <2>6, Zenon
<1> QED  BY <1>1, <1>2, Zenon

\* Lock: alone once nobody reads or writes, else registered before it sleeps.
LEMMA LocksKeeps ==
    ASSUME IInv, NEW t \in Threads, Locks(t)
    PROVE  IInv'
<1> USE DEF IInv, Locks, Looks
<1>0. t \notin HasRead /\ role[t] \notin Reading
  BY Zenon DEF Types, HasRead, Reading
<1>1. CASE MayWrite /\ writer' = TRUE /\ waiting' = LeavesWait(t) /\ registered' = registered \ {t} /\ thread' = [thread EXCEPT ![t] = "has"]
  <2>1. waiting' \in Nat /\ waiting' = Cardinality(registered')
    <3>1. CASE t \in registered
      BY <1>1, <3>1, Parts, FiniteParts DEF Types, Counts, LeavesWait
    <3>2. CASE t \notin registered
      <4>1. registered \ {t} = registered
        BY <3>2, Zenon
      <4> QED  BY <1>1, <3>2, <4>1, Zenon DEF Types, Counts, LeavesWait
    <3> QED  BY <3>1, <3>2, Zenon
  <2>2. Types'
    BY <1>1, <2>1, Zenon DEF Types, States
  <2>3. HasRead' = HasRead
    BY <1>0, <1>1, Zenon DEF Types, HasRead
  <2>4. Counts'
    BY <2>1, <2>3, Zenon DEF Counts
  <2>5. Registers'
    BY <1>0, <1>1, Zenon DEF Types, Registers, Waits
  <2>6. \A u \in Threads : thread[u] # "has"
    BY <1>1, NoReaders, Zenon DEF MayWrite, Alone, HasRead
  <2>7. Alone'
    BY <1>0, <1>1, <2>6, Zenon DEF Types, Alone
  <2>8. NobodySleepsOn'
    BY <1>1, Zenon DEF Types, NobodySleepsOn, MayRead, MayWrite
  <2> QED  BY <2>2, <2>4, <2>5, <2>7, <2>8, Zenon
<1>2. CASE /\ ~MayWrite /\ thread' = [thread EXCEPT ![t] = "asleep"] /\ UNCHANGED writer
           /\ IF Lazy(t) \/ t \in registered THEN UNCHANGED <<waiting, registered>>
              ELSE waiting' = waiting + 1 /\ registered' = registered \cup {t}
  <2>1. waiting' \in Nat /\ waiting' >= waiting /\ waiting' = Cardinality(registered')
    BY <1>2, Joins, FiniteParts DEF Types, Counts
  <2>2. Types'
    BY <1>2, <2>1, Zenon DEF Types, States
  <2>3. HasRead' = HasRead
    BY <1>0, <1>2, Zenon DEF Types, HasRead
  <2>4. Counts'
    BY <2>1, <2>3, Zenon DEF Counts
  <2>5. Registers'
    BY <1>2, ZenonT(30) DEF Types, Registers, Waits, Lazy
  <2>6. Alone'
    BY <1>2, Zenon DEF Types, Alone
  <2>7. NobodySleepsOn'
    BY <1>0, <1>2, <2>1 DEF Types, NobodySleepsOn, MayRead, MayWrite
  <2> QED  BY <2>2, <2>4, <2>5, <2>6, <2>7, Zenon
<1> QED  BY <1>1, <1>2, Zenon

\* TryLock, WaitFree: nothing is registered.
LEMMA TriesKeeps ==
    ASSUME IInv, NEW t \in Threads, Tries(t)
    PROVE  IInv'
<1> USE DEF IInv, Tries, Looks
<1>0. t \notin HasRead /\ role[t] \notin Reading /\ t \notin registered
  BY Zenon DEF Types, HasRead, Reading, Registers
<1>1. Types'
  BY Zenon DEF Types, States
<1>2. HasRead' = HasRead
  BY <1>0, Zenon DEF Types, HasRead
<1>3. Counts'
  BY <1>2, Zenon DEF Counts
<1>4. Registers'
  BY <1>0, Zenon DEF Types, Registers, Waits
<1>5. MayWrite => \A u \in Threads : thread[u] # "has"
  BY NoReaders, Zenon DEF MayWrite, Alone, HasRead
<1>6. Alone'
  BY <1>0, <1>5 DEF Types, Alone
<1>7. NobodySleepsOn'
  BY <1>0 DEF Types, NobodySleepsOn, MayRead, MayWrite
<1> QED  BY <1>1, <1>3, <1>4, <1>6, <1>7, Zenon

\* Writer.Wait.
LEMMA WriterWaitsKeeps ==
    ASSUME IInv, NEW t \in Threads, WriterWaits(t)
    PROVE  IInv'
<1> USE DEF IInv, WriterWaits, Looks
<1>1. Types'
  BY Zenon DEF Types, States
<1>2. HasRead' = HasRead
  BY Zenon DEF Types, HasRead
<1>3. Counts'
  BY <1>2, Zenon DEF Counts
<1>4. Registers'
  BY Zenon DEF Types, Registers, Waits
<1>5. Alone'
  BY Zenon DEF Types, Alone
<1>6. NobodySleepsOn'
  BY Zenon DEF Types, NobodySleepsOn, MayRead, MayWrite, Reading
<1> QED  BY <1>1, <1>3, <1>4, <1>5, <1>6, Zenon

\* Writer.TryLock: it leaves the count with the lock, or stays counted.
LEMMA WriterTriesKeeps ==
    ASSUME IInv, NEW t \in Threads, WriterTries(t)
    PROVE  IInv'
<1> USE DEF IInv, WriterTries
<1>0. t \in registered /\ t \notin HasRead /\ role[t] \notin Reading
  BY Zenon DEF Types, HasRead, Reading, Registers, Waits
<1>1. waiting' \in Nat /\ waiting' = Cardinality(registered')
  BY <1>0, Parts, FiniteParts DEF Types, Counts
<1>2. Types'
  BY <1>1, Zenon DEF Types, States
<1>3. HasRead' = HasRead
  BY <1>0, Zenon DEF Types, HasRead
<1>4. Counts'
  BY <1>1, <1>3, Zenon DEF Counts
<1>5. Registers'
  BY <1>0, Zenon DEF Types, Registers, Waits
<1>6. MayWrite => \A u \in Threads : thread[u] # "has"
  BY NoReaders, Zenon DEF MayWrite, Alone, HasRead
<1>7. Alone'
  BY <1>0, <1>6 DEF Types, Alone
<1>8. NobodySleepsOn'
  BY Zenon DEF Types, NobodySleepsOn, MayRead, MayWrite
<1> QED  BY <1>2, <1>4, <1>5, <1>7, <1>8, Zenon

\* A thread left idle: every other one is as it was.
LeftIdle(t, new) ==
    /\ new \in [Threads -> States]
    /\ \A u \in Threads : /\ new[u] = "has" <=> u # t /\ thread[u] = "has"
                          /\ new[u] = "chooses" <=> u # t /\ thread[u] = "chooses"
                          /\ new[u] \in Waits <=> u # t /\ thread[u] \in Waits

LEMMA IdleThread ==
    ASSUME Types, NEW t \in Threads
    PROVE  LET idle == [thread EXCEPT ![t] = "idle"]
           IN /\ LeftIdle(t, idle) /\ LeftIdle(t, Woken(idle))
              /\ \A u \in Threads : idle[u] = "asleep" => thread[u] = "asleep" /\ u # t
              /\ \A u \in Threads : Woken(idle)[u] # "asleep"
BY Zenon DEF Types, LeftIdle, Woken, States, Waits

\* Writer.Leave: it is counted no more, and the readers it held back wake.
LEMMA LeaveKeeps ==
    ASSUME IInv, NEW t \in Threads, Leave(t)
    PROVE  IInv'
<1> USE DEF IInv
<1>0. t \in registered
  BY Zenon DEF Leave, Registers, Waits
<1>1. waiting' \in Nat /\ waiting' = Cardinality(registered')
  <2>1. waiting' = waiting - 1 /\ registered' = registered \ {t}
    BY Zenon DEF Leave
  <2> QED  BY <2>1, <1>0, Parts, FiniteParts DEF Types, Counts
<1>w. LeftIdle(t, thread') /\ \A u \in Threads : thread'[u] # "asleep"
  BY IdleThread, Zenon DEF Leave
<1>2. Types'
  BY <1>0, <1>1, <1>w, Zenon DEF Leave, Types, LeftIdle
<1>3. HasRead' = HasRead
  BY <1>w, Zenon DEF Leave, HasRead, LeftIdle, Reading
<1>4. Counts'
  BY <1>1, <1>3, Zenon DEF Leave, Counts
<1>5. Registers'
  BY <1>w, Zenon DEF Leave, Registers, LeftIdle
<1>6. Alone'
  BY <1>w, Zenon DEF Leave, Alone, LeftIdle
<1>7. NobodySleepsOn'
  BY <1>w, Zenon DEF NobodySleepsOn
<1> QED  BY <1>2, <1>4, <1>5, <1>6, <1>7, Zenon

\* A context that ends changes nothing but itself.
LEMMA EndsKeeps ==
    ASSUME IInv, NEW t \in Threads, Ends(t)
    PROVE  IInv'
BY Zenon DEF IInv, Ends, Types, Counts, HasRead, Registers, Alone, NobodySleepsOn, MayRead, MayWrite

\* A call whose context ended: a writer that was counted wakes everyone.
LEMMA GivesUpKeeps ==
    ASSUME IInv, NEW t \in Threads, GivesUp(t)
    PROVE  IInv'
<1> USE DEF IInv
<1>w. /\ LeftIdle(t, thread')
      /\ \A u \in Threads : thread'[u] = "asleep" => thread[u] = "asleep" /\ u # t /\ t \notin registered
  BY IdleThread, Zenon DEF GivesUp, Gone
<1>1. waiting' \in Nat /\ waiting' = Cardinality(registered') /\ (t \notin registered => waiting' = waiting)
  <2>1. CASE t \in registered
    BY <2>1, Parts, FiniteParts DEF GivesUp, Types, Counts, LeavesWait
  <2>2. CASE t \notin registered
    <3>1. registered \ {t} = registered
      BY <2>2, Zenon
    <3> QED  BY <2>2, <3>1, Zenon DEF GivesUp, Types, Counts, LeavesWait
  <2> QED  BY <2>1, <2>2, Zenon
<1>2. Types'
  BY <1>1, <1>w, Zenon DEF GivesUp, Types, LeftIdle
<1>3. HasRead' = HasRead
  BY <1>w, Zenon DEF GivesUp, HasRead, LeftIdle
<1>4. Counts'
  BY <1>1, <1>3, Zenon DEF GivesUp, Counts
<1>5. Registers'
  BY <1>w, Zenon DEF GivesUp, Registers, LeftIdle
<1>6. Alone'
  BY <1>w, Zenon DEF GivesUp, Alone, LeftIdle
<1>7. NobodySleepsOn'
  BY <1>1, <1>w, Zenon DEF GivesUp, Types, NobodySleepsOn, MayRead, MayWrite
<1> QED  BY <1>2, <1>4, <1>5, <1>6, <1>7, Zenon

\* RUnlock and Unlock wake everyone.
LEMMA UnlocksKeeps ==
    ASSUME IInv, NEW t \in Threads, Unlocks(t)
    PROVE  IInv'
<1> USE DEF IInv
<1>w. LeftIdle(t, thread') /\ \A u \in Threads : thread'[u] # "asleep"
  BY IdleThread, Zenon DEF Unlocks
<1>1. HasRead' = HasRead \ {t} /\ (t \in HasRead <=> role[t] \in Reading)
  BY <1>w, Zenon DEF Unlocks, HasRead, LeftIdle
<1>2. readers' \in Nat /\ readers' = Cardinality(HasRead')
  <2>1. CASE t \in HasRead
    <3>1. readers' = readers - 1
      BY <2>1, <1>1, Zenon DEF Unlocks
    <3>2. IsFiniteSet(HasRead) /\ readers = Cardinality(HasRead)
      BY FiniteParts, Zenon DEF Counts
    <3>3. Cardinality(HasRead \ {t}) = readers - 1 /\ readers \in Nat \ {0}
      BY <2>1, <3>2, Parts, Zenon
    <3> QED  BY <3>1, <3>3, <1>1
  <2>2. CASE t \notin HasRead
    <3>1. HasRead \ {t} = HasRead
      BY <2>2, Zenon
    <3> QED  BY <2>2, <1>1, <3>1, Zenon DEF Unlocks, Types, Counts
  <2> QED  BY <2>1, <2>2, Zenon
<1>3. Types'
  BY <1>2, <1>w, Zenon DEF Unlocks, Types, LeftIdle
<1>4. Counts'
  BY <1>2, Zenon DEF Unlocks, Counts
<1>5. Registers'
  BY <1>w, Zenon DEF Unlocks, Registers, LeftIdle, Waits
<1>6. Alone'
  BY <1>w, Zenon DEF Unlocks, Alone, LeftIdle
<1>7. NobodySleepsOn'
  BY <1>w, Zenon DEF NobodySleepsOn
<1> QED  BY <1>3, <1>4, <1>5, <1>6, <1>7, Zenon

-----------------------------------------------------------------------------
LEMMA Starts == Init => IInv
<1> SUFFICES ASSUME Init PROVE IInv
  BY Zenon
<1> USE DEF Init
<1>1. Types
  BY ThreadsAssumption, Zenon DEF Types, States
<1>2. HasRead = {} /\ registered = {}
  BY Zenon DEF HasRead
<1>3. Counts
  BY <1>2, FS_EmptySet, Zenon DEF Counts
<1>4. Registers /\ Alone /\ NobodySleepsOn
  BY Zenon DEF Registers, Alone, NobodySleepsOn, Waits
<1> QED  BY <1>1, <1>3, <1>4, Zenon DEF IInv

LEMMA Keeps == IInv /\ [Next]_vars => IInv'
<1> SUFFICES ASSUME IInv, [Next]_vars PROVE IInv'
  BY Zenon
<1>1. CASE UNCHANGED vars
  BY <1>1, Zenon DEF vars, IInv, Types, Counts, HasRead, Registers, Alone, NobodySleepsOn, MayRead, MayWrite
<1>2. CASE Next
  <2>1. PICK t \in Threads : Calls(t) \/ Steps(t) \/ Leave(t) \/ Ends(t)
    BY <1>2, Zenon DEF Next
  <2> QED  BY Zenon, <2>1, CallsKeeps, ReadsKeeps, LocksKeeps, TriesKeeps, WriterWaitsKeeps, WriterTriesKeeps,
              LeaveKeeps, EndsKeeps, GivesUpKeeps, UnlocksKeeps DEF Steps
<1> QED  BY <1>1, <1>2, Zenon

\* What the counts and Alone say of the threads that have the lock.
LEMMA Implies == IInv => LocksSound
<1> SUFFICES ASSUME IInv PROVE LocksSound
  BY Zenon
<1> USE DEF IInv
<1>1. TypeOK
  <2>1. Cardinality(HasRead) <= Cardinality(Threads) /\ Cardinality(Threads) \in Nat
    BY ThreadsAssumption, FS_Subset, FS_CardinalityType, Zenon DEF HasRead
  <2> QED  BY <2>1 DEF TypeOK, Types, Counts
<1> DEFINE has == {t \in Threads : thread[t] = "has"}
<1>2. writer <=> \E t \in has : role[t] \notin Reading
  BY Zenon DEF Alone, Types
<1>3. ASSUME writer PROVE Cardinality(has) = 1
  <2>1. PICK t \in has : has = {t}
    BY <1>3 DEF Alone
  <2> QED  BY <2>1, FS_Singleton, Zenon
<1>4. {t \in has : role[t] \in Reading} = HasRead
  BY Zenon DEF HasRead
<1>5. Excludes
  BY <1>2, <1>3, <1>4, Zenon DEF Excludes, Counts
<1> QED  BY <1>1, <1>5, Zenon DEF LocksSound

\* The locks of internal/ctxsync for any number of threads in any roles: a
\* writer has the lock alone, the readers and the waiting writers are counted
\* once each however a wait ends, and no unlock, leave or ended wait leaves a
\* thread asleep that could have the lock.
THEOREM LocksStaySound == Spec => []LocksSound
BY Starts, Keeps, Implies, PTL DEF Spec
===========================================================================
