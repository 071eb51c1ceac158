--------------------------- MODULE ClusterProofs ----------------------------
(***************************************************************************)
(* However the controllers' passes, the hosts and the failures interleave, *)
(* and for any number of each, no controller asks for a change the store   *)
(* refuses, and the membership takes only the steps the store admits.      *)
(*                                                                         *)
(* First, whatever a controller wants, and however old that is, the change *)
(* Next makes of a valid membership is one the store admits.  Then the     *)
(* cluster: its invariant follows what a change is made of from the host   *)
(* that reports itself, through the survey a controller keeps, to the want *)
(* of a pass and the object it read.                                       *)
(***************************************************************************)
EXTENDS Cluster, FiniteSetTheorems, TLAPS

\* What every want is: hosts that reported an address, shards that are not
\* journal disks, journal disks that are.
WantOK(w) ==
    /\ w.hosts \subseteq Hosts /\ \A h \in w.hosts : w.report[h].address \in Nat
    /\ w.shards \subseteq Disks \ Journals /\ w.journals \subseteq Journals
    /\ w.pool \subseteq Machines

\* What Store.Update writes over now.
Admits(now, next) == next \in Memberships /\ Valid(next) /\ Step(now, next)

-----------------------------------------------------------------------------
(* The shape of a membership.                                              *)

\* The fields of a membership and of its disks have their types.
LEMMA Fields ==
    ASSUME NEW now \in Memberships
    PROVE  /\ now.generation \in Nat
           /\ now.member \in [Hosts -> MemberStates] /\ now.address \in [Hosts -> Nat]
           /\ now.disk \in [Disks -> Disk]
           /\ \A d \in Disks :
                /\ now.disk[d] \in Disk /\ now.disk[d].state \in DiskStates
                /\ now.disk[d].member \in Hosts \cup {NoHost} /\ now.disk[d].assigned \in Nat
                /\ now.disk[d].machine \in Machines \cup {NoMachine} /\ now.disk[d].empty \in BOOLEAN
  BY Zenon DEF Memberships, Disk

\* Fields given values of their types leave a membership.
LEMMA Updated ==
    ASSUME NEW now \in Memberships
    PROVE  \A g \in Nat, D \in [Disks -> Disk] :
                [now EXCEPT !.generation = g, !.disk = D] \in Memberships
  BY Zenon DEF Memberships

\* A disk that a change leaves alone takes a step the store admits.
LEMMA SameDisk ==
    ASSUME NEW now \in Memberships, NEW next, NEW d \in Listed(now)
    PROVE  StepDisk(next, now.disk[d], now.disk[d])
  <1>1. now.disk[d].state \in DiskStates \ {"unlisted"}
    BY Fields, Zenon DEF Listed
  <1>2. Order(now.disk[d].state) >= Order(now.disk[d].state)
    BY DEF Order
  <1>3. StepJournal(now.disk[d], now.disk[d])
    BY <1>1, Zenon DEF StepJournal
  <1> QED
    BY <1>1, <1>2, <1>3, Zenon DEF StepDisk, DiskStates, HeldStates

\* A change of the next generation is admitted when each disk it lists is as it
\* was, with a member that stays, or is changed as the store admits, and those
\* it removes, disks or members, may be removed.
LEMMA ChangeAdmits ==
    ASSUME NEW now \in Memberships, Valid(now), NEW next \in Memberships,
           next.generation = now.generation + 1,
           \A d \in Listed(next) :
              \/ /\ d \in Listed(now) /\ next.disk[d] = now.disk[d]
                 /\ now.disk[d].state \in HeldStates => now.disk[d].member \in Members(next)
              \/ ValidDisk(next, d) /\ StepDisk(next, now.disk[d], next.disk[d]),
           \A d \in Listed(now) \ Listed(next) :
              /\ now.disk[d].state \in {"released", "deleting"}
              /\ d \in Journals => now.disk[d].state = "deleting",
           \A h \in Members(now) \ Members(next) : now.member[h] = "draining"
    PROVE  Admits(now, next)
  <1>1. ASSUME NEW d \in Listed(next) PROVE ValidDisk(next, d) /\ StepDisk(next, now.disk[d], next.disk[d])
    <2>1. CASE /\ d \in Listed(now) /\ next.disk[d] = now.disk[d]
               /\ now.disk[d].state \in HeldStates => now.disk[d].member \in Members(next)
      <3>1. ValidDisk(now, d) /\ d \in Disks
        BY <2>1, Zenon DEF Valid, Listed
      <3>2. ValidDisk(next, d)
        BY <2>1, <3>1, Fields DEF ValidDisk
      <3> QED
        BY <2>1, <3>2, SameDisk, Zenon
    <2>2. CASE ValidDisk(next, d) /\ StepDisk(next, now.disk[d], next.disk[d])
      BY <2>2, Zenon
    <2> QED
      BY <1>1, <2>1, <2>2, Zenon
  <1> QED
    BY <1>1, Zenon DEF Admits, Valid, Step

\* What a membership that puts a disk is.
LEMMA PutFields ==
    ASSUME NEW now \in Memberships, NEW d \in Disks, NEW disk \in Disk
    PROVE  /\ Put(now, d, disk) \in Memberships
           /\ Put(now, d, disk).generation = now.generation + 1
           /\ Put(now, d, disk).member = now.member
           /\ Put(now, d, disk).disk[d] = disk
           /\ \A x \in Disks \ {d} : Put(now, d, disk).disk[x] = now.disk[x]
           /\ Members(Put(now, d, disk)) = Members(now)
  <1>1. /\ Put(now, d, disk).generation = now.generation + 1
        /\ Put(now, d, disk).member = now.member
        /\ Put(now, d, disk).disk = [now.disk EXCEPT ![d] = disk]
    BY Zenon DEF Put, Memberships
  <1>2. [now.disk EXCEPT ![d] = disk] \in [Disks -> Disk] /\ now.generation + 1 \in Nat
    BY Fields
  <1>3. Put(now, d, disk) \in Memberships
    BY <1>2, Updated, Zenon DEF Put
  <1> QED
    BY <1>1, <1>3, Fields, Zenon DEF Members

\* A change that puts one disk is admitted when that disk's is.
LEMMA PutAdmits ==
    ASSUME NEW now \in Memberships, Valid(now), NEW d \in Disks, NEW disk \in Disk,
           disk.state # "unlisted",
           ValidDisk(Put(now, d, disk), d), StepDisk(Put(now, d, disk), now.disk[d], disk)
    PROVE  Admits(now, Put(now, d, disk))
  <1> DEFINE next == Put(now, d, disk)
  <1>1. /\ next \in Memberships /\ next.generation = now.generation + 1 /\ next.disk[d] = disk
        /\ \A x \in Disks \ {d} : next.disk[x] = now.disk[x]
        /\ Members(next) = Members(now) /\ ValidDisk(next, d) /\ StepDisk(next, now.disk[d], disk)
    BY PutFields
  <1> HIDE DEF next
  <1>2. Listed(next) = Listed(now) \cup {d}
    BY <1>1, Zenon DEF Listed
  <1>3. \A x \in Listed(next) \ {d} :
            /\ x \in Listed(now) /\ next.disk[x] = now.disk[x]
            /\ now.disk[x].state \in HeldStates => now.disk[x].member \in Members(next)
    BY <1>1, <1>2, Zenon DEF Listed, Valid, ValidDisk
  <1> QED
    BY <1>1, <1>2, <1>3, ChangeAdmits, Zenon DEF next

-----------------------------------------------------------------------------
(* The changes of one disk.                                                *)

\* A disk is let go from releasing (Let).
LEMMA LetAdmits ==
    ASSUME NEW now \in Memberships, Valid(now), NEW d \in InState(now, {"releasing"})
    PROVE  Admits(now, Let(now, d))
  <1> DEFINE disk == [now.disk[d] EXCEPT !.state = "released", !.member = NoHost, !.assigned = 0]
  <1>1. d \in Disks /\ now.disk[d].state = "releasing" /\ ValidDisk(now, d)
    BY Zenon DEF InState, Valid, Listed
  <1>2. /\ disk \in Disk /\ disk.state = "released" /\ disk.member = NoHost /\ disk.assigned = 0
        /\ disk.machine = now.disk[d].machine /\ disk.empty = now.disk[d].empty
    BY <1>1, Fields, ZenonT(30) DEF Disk, DiskStates, HeldStates
  <1> HIDE DEF disk
  <1>3. ValidDisk(Put(now, d, disk), d)
    BY <1>1, <1>2, PutFields DEF ValidDisk, HeldStates
  <1>4. StepDisk(Put(now, d, disk), now.disk[d], disk)
    BY <1>1, <1>2, PutFields, Zenon DEF StepDisk, StepJournal
  <1> QED
    BY <1>1, <1>2, <1>3, <1>4, PutAdmits, Zenon DEF Let, disk

\* A disk is added released, a journal disk empty (Add).
LEMMA AddAdmits ==
    ASSUME NEW now \in Memberships, Valid(now), NEW d \in Disks \ Listed(now)
    PROVE  Admits(now, Add(now, d))
  <1> DEFINE disk == [Unlisted EXCEPT !.state = "released", !.empty = d \in Journals]
  <1>1. d \in Disks /\ now.disk[d].state = "unlisted"
    BY Fields, Zenon DEF Listed
  <1>2. /\ disk \in Disk
        /\ disk.state = "released" /\ disk.member = NoHost /\ disk.assigned = 0
        /\ disk.machine = NoMachine /\ disk.empty = (d \in Journals)
    <2>1. disk \in Disk
      <3>1. \A b \in BOOLEAN : [Unlisted EXCEPT !.state = "released", !.empty = b] \in Disk
        BY Zenon DEF Disk, DiskStates, HeldStates, Unlisted
      <3>2. (d \in Journals) \in BOOLEAN
        OBVIOUS
      <3> QED
        BY <3>1, <3>2, Zenon
    <2>2. disk.state = "released" /\ disk.member = NoHost /\ disk.assigned = 0
        /\ disk.machine = NoMachine /\ disk.empty = (d \in Journals)
      BY <1>1, Fields, Zenon DEF Disk, Unlisted
    <2> QED
      BY <2>1, <2>2, Zenon
  <1> HIDE DEF disk
  <1>3. ValidDisk(Put(now, d, disk), d)
    BY <1>1, <1>2, PutFields, Fields DEF ValidDisk, HeldStates
  <1>4. StepDisk(Put(now, d, disk), now.disk[d], disk)
    BY <1>1, <1>2, PutFields, Fields, Zenon DEF StepDisk, StepJournal, Order
  <1> QED
    BY <1>1, <1>2, <1>3, <1>4, PutAdmits, Zenon DEF Add, disk

\* A disk that is served is released (Release).
LEMMA ReleaseAdmits ==
    ASSUME NEW now \in Memberships, Valid(now), NEW d \in InState(now, {"serving"})
    PROVE  Admits(now, Release(now, d))
  <1> DEFINE disk == [now.disk[d] EXCEPT !.state = "releasing"]
  <1>1. d \in Disks /\ now.disk[d].state = "serving" /\ ValidDisk(now, d)
    BY Fields, Zenon DEF InState, Valid, Listed
  <1>2. /\ disk \in Disk
        /\ disk.state = "releasing" /\ disk.member = now.disk[d].member /\ disk.assigned = now.disk[d].assigned
        /\ disk.machine = now.disk[d].machine /\ disk.empty = now.disk[d].empty
    <2>1. disk \in Disk
      BY <1>1, Fields, DisksAssumption DEF Disk, DiskStates, HeldStates, Unlisted
    <2>2. disk.state = "releasing" /\ disk.member = now.disk[d].member /\ disk.assigned = now.disk[d].assigned
        /\ disk.machine = now.disk[d].machine /\ disk.empty = now.disk[d].empty
      BY <1>1, Fields, ZenonT(30) DEF Disk, Unlisted
    <2> QED
      BY <2>1, <2>2, Zenon
  <1> HIDE DEF disk
  <1>3. ValidDisk(Put(now, d, disk), d)
    BY <1>1, <1>2, PutFields, Fields DEF ValidDisk, HeldStates
  <1>4. StepDisk(Put(now, d, disk), now.disk[d], disk)
    BY <1>1, <1>2, PutFields, Fields DEF StepDisk, StepJournal, Order
  <1> QED
    BY <1>1, <1>2, <1>3, <1>4, PutAdmits, Zenon DEF Release, disk

\* A released disk is assigned to a member that does not drain (Assign).
LEMMA AssignAdmits ==
    ASSUME NEW now \in Memberships, Valid(now), NEW d \in InState(now, {"released"}),
           NEW h \in Members(now), now.member[h] # "draining"
    PROVE  Admits(now, Assign(now, d, h))
  <1> DEFINE disk == [now.disk[d] EXCEPT !.state = "attaching", !.member = h,
                                             !.assigned = now.generation + 1, !.empty = FALSE]
  <1>1. d \in Disks /\ h \in Hosts /\ h # NoHost /\ now.disk[d].state = "released" /\ ValidDisk(now, d)
    BY HostsAssumption, Fields, Zenon DEF InState, Valid, Listed, Members
  <1>2. /\ disk \in Disk
        /\ disk.state = "attaching" /\ disk.member = h
        /\ disk.assigned = now.generation + 1 /\ disk.machine = now.disk[d].machine /\ ~disk.empty
    <2>1. disk \in Disk
      <3>1. \A g \in Nat, b \in BOOLEAN : [now.disk[d] EXCEPT !.state = "attaching", !.member = h, !.assigned = g,
                                                                !.empty = b] \in Disk
        BY <1>1, Fields, ZenonT(30) DEF Disk, DiskStates, HeldStates
      <3>2. now.generation + 1 \in Nat /\ FALSE \in BOOLEAN
        BY Fields
      <3> QED
        BY <3>1, <3>2, Zenon
    <2>2. disk.state = "attaching" /\ disk.member = h
        /\ disk.assigned = now.generation + 1 /\ disk.machine = now.disk[d].machine /\ ~disk.empty
      BY <1>1, Fields DEF Disk, Unlisted
    <2> QED
      BY <2>1, <2>2, Zenon
  <1> HIDE DEF disk
  <1>3. ValidDisk(Put(now, d, disk), d)
    BY <1>1, <1>2, PutFields, Fields DEF ValidDisk, HeldStates
  <1>4. StepDisk(Put(now, d, disk), now.disk[d], disk)
    BY <1>1, <1>2, PutFields, Fields DEF StepDisk, StepJournal, Order, ValidDisk
  <1> QED
    BY <1>1, <1>2, <1>3, <1>4, PutAdmits, Zenon DEF Assign, disk

\* A released journal disk is reserved for a machine, or for none (Reserve).
LEMMA ReserveAdmits ==
    ASSUME NEW now \in Memberships, Valid(now), NEW d \in Journals \cap InState(now, {"released"}),
           NEW machine \in Machines \cup {NoMachine}
    PROVE  Admits(now, Reserve(now, d, machine))
  <1> DEFINE disk == [now.disk[d] EXCEPT !.machine = machine]
  <1>1. d \in Disks \cap Journals /\ now.disk[d].state = "released" /\ ValidDisk(now, d)
    BY Fields, Zenon DEF InState, Valid, Listed
  <1>2. /\ disk \in Disk
        /\ disk.state = "released" /\ disk.member = now.disk[d].member /\ disk.assigned = now.disk[d].assigned
        /\ disk.machine = machine /\ disk.empty = now.disk[d].empty
    <2>1. disk \in Disk
      BY <1>1, Fields, DisksAssumption DEF Disk, DiskStates, HeldStates, Unlisted
    <2>2. disk.state = "released" /\ disk.member = now.disk[d].member /\ disk.assigned = now.disk[d].assigned
        /\ disk.machine = machine /\ disk.empty = now.disk[d].empty
      BY <1>1, Fields, ZenonT(30) DEF Disk, Unlisted
    <2> QED
      BY <2>1, <2>2, Zenon
  <1> HIDE DEF disk
  <1>3. ValidDisk(Put(now, d, disk), d)
    BY <1>1, <1>2, PutFields, Fields DEF ValidDisk, HeldStates
  <1>4. StepDisk(Put(now, d, disk), now.disk[d], disk)
    BY <1>1, <1>2, PutFields, Fields, Zenon DEF StepDisk, StepJournal, Order
  <1> QED
    BY <1>1, <1>2, <1>3, <1>4, PutAdmits, Zenon DEF Reserve, disk

\* A journal disk that a member serves or gives up is marked (MarkEmpty).
LEMMA MarkAdmits ==
    ASSUME NEW now \in Memberships, Valid(now), NEW d \in Journals \cap InState(now, {"serving", "releasing"}),
           NEW empty \in BOOLEAN
    PROVE  Admits(now, MarkEmpty(now, d, empty))
  <1> DEFINE disk == [now.disk[d] EXCEPT !.empty = empty]
  <1>1. d \in Disks \cap Journals /\ now.disk[d].state \in {"serving", "releasing"} /\ ValidDisk(now, d)
    BY Fields, Zenon DEF InState, Valid, Listed
  <1>2. /\ disk \in Disk
        /\ disk.state = now.disk[d].state /\ disk.member = now.disk[d].member /\ disk.assigned = now.disk[d].assigned
        /\ disk.machine = now.disk[d].machine /\ disk.empty = empty
    <2>1. disk \in Disk
      BY <1>1, Fields, DisksAssumption DEF Disk, DiskStates, HeldStates, Unlisted
    <2>2. disk.state = now.disk[d].state /\ disk.member = now.disk[d].member /\ disk.assigned = now.disk[d].assigned
        /\ disk.machine = now.disk[d].machine /\ disk.empty = empty
      BY <1>1, Fields, ZenonT(30) DEF Disk, Unlisted
    <2> QED
      BY <2>1, <2>2, Zenon
  <1> HIDE DEF disk
  <1>3. ValidDisk(Put(now, d, disk), d)
    BY <1>1, <1>2, PutFields, Fields DEF ValidDisk, HeldStates
  <1>4. StepDisk(Put(now, d, disk), now.disk[d], disk)
    BY <1>1, <1>2, PutFields, Fields DEF StepDisk, StepJournal, Order
  <1> QED
    BY <1>1, <1>2, <1>3, <1>4, PutAdmits, Zenon DEF MarkEmpty, disk

\* A released journal disk that is empty is deleted (Delete).
LEMMA DeleteAdmits ==
    ASSUME NEW now \in Memberships, Valid(now), NEW d \in Journals \cap InState(now, {"released"}), now.disk[d].empty
    PROVE  Admits(now, Delete(now, d))
  <1> DEFINE disk == [now.disk[d] EXCEPT !.state = "deleting"]
  <1>1. d \in Disks \cap Journals /\ now.disk[d].state = "released" /\ ValidDisk(now, d)
    BY Fields, Zenon DEF InState, Valid, Listed
  <1>2. /\ disk \in Disk
        /\ disk.state = "deleting" /\ disk.member = now.disk[d].member /\ disk.assigned = now.disk[d].assigned
        /\ disk.machine = now.disk[d].machine /\ disk.empty = now.disk[d].empty
    <2>1. disk \in Disk
      BY <1>1, Fields, DisksAssumption DEF Disk, DiskStates, HeldStates, Unlisted
    <2>2. disk.state = "deleting" /\ disk.member = now.disk[d].member /\ disk.assigned = now.disk[d].assigned
        /\ disk.machine = now.disk[d].machine /\ disk.empty = now.disk[d].empty
      BY <1>1, Fields, ZenonT(30) DEF Disk, Unlisted
    <2> QED
      BY <2>1, <2>2, Zenon
  <1> HIDE DEF disk
  <1>3. ValidDisk(Put(now, d, disk), d)
    BY <1>1, <1>2, PutFields, Fields DEF ValidDisk, HeldStates
  <1>4. StepDisk(Put(now, d, disk), now.disk[d], disk)
    BY <1>1, <1>2, PutFields, Fields, Zenon DEF StepDisk, StepJournal, Order
  <1> QED
    BY <1>1, <1>2, <1>3, <1>4, PutAdmits, Zenon DEF Delete, disk

\* A cache disk that is released, or a journal disk being deleted, is removed
\* (Remove).
LEMMA RemoveAdmits ==
    ASSUME NEW now \in Memberships, Valid(now), NEW d \in Disks,
           \/ d \notin Journals /\ now.disk[d].state = "released"
           \/ d \in Journals /\ now.disk[d].state = "deleting"
    PROVE  Admits(now, Remove(now, d))
  <1> DEFINE next == Put(now, d, Unlisted)
  <1>1. Unlisted \in Disk /\ Unlisted.state = "unlisted"
    BY Zenon DEF Unlisted, Disk, DiskStates
  <1>2. /\ next \in Memberships /\ next.generation = now.generation + 1
        /\ next.disk[d] = Unlisted /\ \A x \in Disks \ {d} : next.disk[x] = now.disk[x]
        /\ Members(next) = Members(now)
    BY <1>1, PutFields
  <1> HIDE DEF next
  <1>3. Listed(next) = Listed(now) \ {d}
    BY <1>1, <1>2, Zenon DEF Listed
  <1>4. \A x \in Listed(next) :
            /\ x \in Listed(now) /\ next.disk[x] = now.disk[x]
            /\ now.disk[x].state \in HeldStates => now.disk[x].member \in Members(next)
    BY <1>2, <1>3, Zenon DEF Listed, Valid, ValidDisk
  <1>5. Admits(now, next)
    BY <1>2, <1>3, <1>4, ChangeAdmits, Zenon
  <1> QED
    BY <1>5, Zenon DEF Remove, next

-----------------------------------------------------------------------------
(* The changes of a member and its disks.                                  *)

\* A member's address changes (Move).
LEMMA MoveAdmits ==
    ASSUME NEW now \in Memberships, Valid(now), NEW h \in Members(now), NEW address \in Nat
    PROVE  Admits(now, Move(now, h, address))
  <1> DEFINE next == Move(now, h, address)
  <1>1. /\ next.generation = now.generation + 1 /\ next.member = now.member /\ next.disk = now.disk
        /\ Members(next) = Members(now) /\ Listed(next) = Listed(now)
    BY Zenon DEF Move, Memberships, Members, Listed
  <1>2. next \in Memberships
    <2>1. \A g \in Nat, A \in [Hosts -> Nat] : [now EXCEPT !.generation = g, !.address = A] \in Memberships
      BY Zenon DEF Memberships
    <2>2. now.generation + 1 \in Nat /\ [now.address EXCEPT ![h] = address] \in [Hosts -> Nat]
      BY Fields DEF Members
    <2> QED
      BY <2>1, <2>2, Zenon DEF Move
  <1> HIDE DEF next
  <1>3. \A x \in Listed(next) : now.disk[x].state \in HeldStates => now.disk[x].member \in Members(next)
    BY <1>1, Zenon DEF Valid, ValidDisk
  <1> QED
    BY <1>1, <1>2, <1>3, ChangeAdmits, Zenon DEF next

\* A draining member with no disk leaves (Leave).
LEMMA LeaveAdmits ==
    ASSUME NEW now \in Memberships, Valid(now), NEW h \in Members(now),
           now.member[h] = "draining", AssignedTo(now, h) = {}
    PROVE  Admits(now, Leave(now, h))
  <1> DEFINE next == Leave(now, h)
  <1>1. /\ next.generation = now.generation + 1 /\ next.disk = now.disk
        /\ next.member = [now.member EXCEPT ![h] = "unlisted"]
    BY Zenon DEF Leave, Memberships
  <1>2. next \in Memberships
    <2>1. \A g \in Nat, M \in [Hosts -> MemberStates], A \in [Hosts -> Nat] :
            [now EXCEPT !.generation = g, !.member = M, !.address = A] \in Memberships
      BY Zenon DEF Memberships
    <2>2. /\ now.generation + 1 \in Nat /\ [now.address EXCEPT ![h] = 0] \in [Hosts -> Nat]
          /\ [now.member EXCEPT ![h] = "unlisted"] \in [Hosts -> MemberStates]
      BY Fields DEF Members, MemberStates
    <2> QED
      BY <2>1, <2>2, Zenon DEF Leave
  <1> HIDE DEF next
  <1>3. Members(next) = Members(now) \ {h} /\ Listed(next) = Listed(now)
    BY <1>1, Fields, Zenon DEF Members, Listed
  <1>4. \A x \in Listed(next) : now.disk[x].state \in HeldStates => now.disk[x].member \in Members(next)
    BY <1>3, Zenon DEF Valid, ValidDisk, AssignedTo
  <1> QED
    BY <1>1, <1>2, <1>3, <1>4, ChangeAdmits, Zenon DEF next

\* A member and its disks given values of their types leave a membership.
LEMMA UpdatedMember ==
    ASSUME NEW now \in Memberships
    PROVE  \A g \in Nat, M \in [Hosts -> MemberStates], D \in [Disks -> Disk] :
                [now EXCEPT !.generation = g, !.member = M, !.disk = D] \in Memberships
  BY Zenon DEF Memberships

\* A member drains, and gives up every disk it takes or serves (Drain).
LEMMA DrainAdmits ==
    ASSUME NEW now \in Memberships, Valid(now), NEW h \in Members(now)
    PROVE  Admits(now, Drain(now, h))
  <1> DEFINE next == Drain(now, h)
             given(d) == now.disk[d].member = h /\ now.disk[d].state \in {"attaching", "serving"}
             disks == [d \in Disks |-> IF given(d) THEN [now.disk[d] EXCEPT !.state = "releasing"]
                                       ELSE now.disk[d]]
  <1>1. /\ next.generation = now.generation + 1 /\ next.disk = disks
        /\ next.member = [now.member EXCEPT ![h] = "draining"]
    BY Zenon DEF Drain, Memberships
  <1>2. \A d \in Disks : [now.disk[d] EXCEPT !.state = "releasing"] \in Disk
    BY Fields, ZenonT(30) DEF Disk, DiskStates, HeldStates
  <1>3. next \in Memberships
    <2>1. /\ now.generation + 1 \in Nat /\ disks \in [Disks -> Disk]
          /\ [now.member EXCEPT ![h] = "draining"] \in [Hosts -> MemberStates]
      BY <1>2, Fields DEF Members, MemberStates
    <2> QED
      BY <2>1, UpdatedMember, Zenon DEF Drain
  <1>4. \A d \in Disks : ~given(d) => next.disk[d] = now.disk[d]
    BY <1>1, Zenon
  <1>5. \A d \in Disks : given(d) =>
            /\ next.disk[d].state = "releasing" /\ next.disk[d].member = now.disk[d].member
            /\ next.disk[d].assigned = now.disk[d].assigned
            /\ next.disk[d].machine = now.disk[d].machine /\ next.disk[d].empty = now.disk[d].empty
    BY <1>1, Fields DEF Disk
  <1> HIDE DEF next, disks
  <1>6. Members(next) = Members(now)
    BY <1>1, Fields, Zenon DEF Members
  <1>7. Listed(next) = Listed(now)
    BY <1>4, <1>5, Zenon DEF Listed
  <1>8. ASSUME NEW d \in Listed(next), given(d)
        PROVE  ValidDisk(next, d) /\ StepDisk(next, now.disk[d], next.disk[d])
    <2>1. d \in Disks /\ ValidDisk(now, d)
      BY <1>7, Zenon DEF Listed, Valid
    <2>2. ValidDisk(next, d)
      BY <2>1, <1>1, <1>5, <1>6, <1>8, Fields, SMTT(30) DEF ValidDisk, HeldStates
    <2>3. StepDisk(next, now.disk[d], next.disk[d])
      BY <2>1, <1>5, <1>8 DEF StepDisk, StepJournal, Order
    <2> QED
      BY <2>2, <2>3, Zenon
  <1>9. \A d \in Listed(next) : ~given(d) =>
            /\ d \in Listed(now) /\ next.disk[d] = now.disk[d]
            /\ now.disk[d].state \in HeldStates => now.disk[d].member \in Members(next)
    BY <1>4, <1>6, <1>7, Zenon DEF Listed, Valid, ValidDisk
  <1> QED
    BY <1>1, <1>3, <1>6, <1>7, <1>8, <1>9, ChangeAdmits, Zenon DEF next

\* A disk that its member has open is served (Serve).
LEMMA ServeAdmits ==
    ASSUME NEW now \in Memberships, Valid(now), NEW d \in InState(now, {"attaching"})
    PROVE  Admits(now, Serve(now, d))
  <1> DEFINE next == Serve(now, d)
             h == now.disk[d].member
             disk == [now.disk[d] EXCEPT !.state = "serving"]
             members == [now.member EXCEPT ![h] = IF now.member[h] = "joining" THEN "active" ELSE now.member[h]]
             disks == [now.disk EXCEPT ![d] = disk]
  <1>1. d \in Disks /\ now.disk[d].state = "attaching" /\ ValidDisk(now, d) /\ h \in Members(now)
    BY Zenon DEF InState, Valid, Listed, ValidDisk, HeldStates
  <1>2. /\ disk \in Disk /\ disk.state = "serving" /\ disk.member = h
        /\ disk.assigned = now.disk[d].assigned /\ disk.machine = now.disk[d].machine
        /\ disk.empty = now.disk[d].empty
    BY <1>1, Fields, ZenonT(30) DEF Disk, DiskStates, HeldStates
  <1>3. next = [now EXCEPT !.generation = now.generation + 1, !.member = members, !.disk = disks]
    BY Zenon DEF Serve
  <1> HIDE DEF disk
  <1>4. members \in [Hosts -> MemberStates] /\ disks \in [Disks -> Disk] /\ now.generation + 1 \in Nat
    BY <1>1, <1>2, Fields DEF Members, MemberStates
  <1>5. \A x \in Hosts : (members[x] = "unlisted") = (now.member[x] = "unlisted")
    BY <1>1, Fields, Zenon DEF Members
  <1>6. disks[d] = disk /\ \A x \in Disks \ {d} : disks[x] = now.disk[x]
    BY <1>1, Fields, Zenon
  <1> HIDE DEF next, members, disks
  <1>7. next \in Memberships
    BY <1>3, <1>4, UpdatedMember, Zenon
  <1>8. next.generation = now.generation + 1 /\ next.member = members /\ next.disk = disks
    BY <1>3, Zenon DEF Memberships
  <1>9. Members(next) = Members(now) /\ Listed(next) = Listed(now)
    BY <1>1, <1>2, <1>5, <1>6, <1>8 DEF Members, Listed
  <1>10. ValidDisk(next, d) /\ StepDisk(next, now.disk[d], next.disk[d])
    <2>1. ValidDisk(next, d)
      BY <1>1, <1>2, <1>6, <1>8, <1>9, Fields DEF ValidDisk, HeldStates
    <2>2. StepDisk(next, now.disk[d], next.disk[d])
      BY <1>1, <1>2, <1>6, <1>8 DEF StepDisk, StepJournal, Order
    <2> QED
      BY <2>1, <2>2, Zenon
  <1>11. \A x \in Listed(next) \ {d} :
            /\ x \in Listed(now) /\ next.disk[x] = now.disk[x]
            /\ now.disk[x].state \in HeldStates => now.disk[x].member \in Members(next)
    BY <1>6, <1>8, <1>9, Zenon DEF Listed, Valid, ValidDisk
  <1> QED
    BY <1>7, <1>8, <1>9, <1>10, <1>11, ChangeAdmits, Zenon DEF next

\* A host joins with the disks of its own that no member has (Join).
LEMMA JoinAdmits ==
    ASSUME NEW now \in Memberships, Valid(now), NEW h \in Hosts \ Members(now), NEW address \in Nat,
           NEW own, own \cap Journals = {},
           \A d \in own \cap Disks : now.disk[d].state \in {"unlisted", "released"}
    PROVE  Admits(now, Join(now, h, address, own))
  <1> DEFINE next == Join(now, h, address, own)
             disk == [Unlisted EXCEPT !.state = "attaching", !.member = h, !.assigned = now.generation + 1]
             members == [now.member EXCEPT ![h] = "joining"]
             addresses == [now.address EXCEPT ![h] = address]
             disks == [d \in Disks |-> IF d \in own THEN disk ELSE now.disk[d]]
  <1>1. /\ disk \in Disk /\ disk.state = "attaching" /\ disk.member = h
        /\ disk.assigned = now.generation + 1 /\ disk.machine = NoMachine /\ ~disk.empty
    <2>1. \A g \in Nat : [Unlisted EXCEPT !.state = "attaching", !.member = h, !.assigned = g] \in Disk
      BY Zenon DEF Disk, DiskStates, HeldStates, Unlisted
    <2>2. now.generation + 1 \in Nat
      BY Fields
    <2>3. disk \in Disk
      BY <2>1, <2>2, Zenon
    <2>4. /\ disk.state = "attaching" /\ disk.member = h
          /\ disk.assigned = now.generation + 1 /\ disk.machine = NoMachine /\ ~disk.empty
      BY Zenon DEF Unlisted
    <2> QED
      BY <2>3, <2>4, Zenon
  <1>2. next = [generation |-> now.generation + 1, member |-> members, address |-> addresses, disk |-> disks]
    BY Zenon DEF Join
  <1> HIDE DEF disk
  <1>3. /\ members \in [Hosts -> MemberStates] /\ addresses \in [Hosts -> Nat]
        /\ disks \in [Disks -> Disk] /\ now.generation + 1 \in Nat
    BY <1>1, Fields DEF MemberStates
  <1>4. members[h] = "joining" /\ \A x \in Hosts \ {h} : members[x] = now.member[x]
    BY Fields, Zenon
  <1>5. \A x \in Disks : disks[x] = IF x \in own THEN disk ELSE now.disk[x]
    BY Zenon
  <1> HIDE DEF next, members, addresses, disks
  <1>6. next \in Memberships
    BY <1>2, <1>3, Zenon DEF Memberships
  <1>7. next.generation = now.generation + 1 /\ next.member = members /\ next.disk = disks
    BY <1>2, Zenon
  <1>8. Members(next) = Members(now) \cup {h}
    BY <1>4, <1>7, Zenon DEF Members
  <1>9. Listed(next) = Listed(now) \cup (own \cap Disks)
    BY <1>1, <1>5, <1>7, Zenon DEF Listed
  <1>10. ASSUME NEW d \in own \cap Disks PROVE ValidDisk(next, d) /\ StepDisk(next, now.disk[d], next.disk[d])
    <2>1. ValidDisk(next, d)
      BY <1>1, <1>5, <1>7, <1>8, Fields DEF ValidDisk, HeldStates
    <2>2. h # NoHost /\ (now.disk[d].state = "released" => now.disk[d].member = NoHost)
      BY HostsAssumption, Zenon DEF Valid, ValidDisk, Listed
    <2>3. StepDisk(next, now.disk[d], next.disk[d])
      BY <2>2, <1>1, <1>4, <1>5, <1>7, Zenon DEF StepDisk, StepJournal
    <2> QED
      BY <2>1, <2>3, Zenon
  <1>11. \A x \in Listed(next) \ own :
            /\ x \in Listed(now) /\ next.disk[x] = now.disk[x]
            /\ now.disk[x].state \in HeldStates => now.disk[x].member \in Members(next)
    BY <1>5, <1>7, <1>8, <1>9, Zenon DEF Listed, Valid, ValidDisk
  <1>12. \A d \in Listed(next) :
              \/ /\ d \in Listed(now) /\ next.disk[d] = now.disk[d]
                 /\ now.disk[d].state \in HeldStates => now.disk[d].member \in Members(next)
              \/ ValidDisk(next, d) /\ StepDisk(next, now.disk[d], next.disk[d])
    BY <1>9, <1>10, <1>11, Zenon DEF Listed
  <1>13. /\ \A d \in Listed(now) \ Listed(next) : FALSE
         /\ \A x \in Members(now) \ Members(next) : FALSE
    BY <1>8, <1>9, Zenon
  <1>14. Admits(now, next)
    BY <1>6, <1>7, <1>12, <1>13, ChangeAdmits, Zenon
  <1> QED
    BY <1>14, Zenon DEF next

-----------------------------------------------------------------------------
(* Every change Next makes.                                                *)

\* The least of a set is in it.
LEMMA LeastIn == ASSUME NEW S, NEW x \in Least(S) PROVE x \in S
  BY Zenon DEF Least

\* The member with the fewest is one of those given.
LEMMA FewestIn ==
    ASSUME NEW now, NEW members, NEW disks, NEW h \in Fewest(now, members, disks)
    PROVE  h \in members
  BY LeastIn, Zenon DEF Fewest

\* Over any valid membership, whatever the want and however old, the change
\* Next makes is one Store.Update writes: none of the steps of Next and of
\* nextJournalStep asks for what Step or New would refuse.
THEOREM NextAdmitted ==
    ASSUME NEW now \in Memberships, Valid(now), NEW w, WantOK(w), NEW next \in Next(now, w)
    PROVE  Admits(now, next)
  <1>1. \/ next \in Drains(now, w) \/ next \in Lets(now, w) \/ next \in Removes(now, w)
        \/ next \in Adds(now, w) \/ next \in Leaves(now, w) \/ next \in Joins(now, w)
        \/ next \in Moves(now, w) \/ next \in Serves(now, w) \/ next \in JournalAdds(now, w)
        \/ next \in JournalRemoves(now, w) \/ next \in JournalDeletes(now, w) \/ next \in Marks(now, w)
        \/ next \in ReadOut(now, w) \/ next \in Unreserves(now, w) \/ next \in Reserves(now, w)
        \/ next \in Owns(now, w) \/ next \in Reads(now, w) \/ next \in ShardAssigns(now, w)
        \/ next \in Spreads(now, w)
    BY DEF Next, Least
  <1>2. CASE next \in Drains(now, w)
    BY <1>2, DrainAdmits, LeastIn, Zenon DEF Drains
  <1>3. CASE next \in Lets(now, w)
    BY <1>3, LetAdmits, LeastIn, Zenon DEF Lets
  <1>4. CASE next \in Removes(now, w)
    BY <1>4, RemoveAdmits, LeastIn, Zenon DEF Removes, InState
  <1>5. CASE next \in Adds(now, w)
    BY <1>5, AddAdmits, LeastIn, Zenon DEF Adds, WantOK
  <1>6. CASE next \in Leaves(now, w)
    BY <1>6, LeaveAdmits, LeastIn, Zenon DEF Leaves
  <1>7. CASE next \in Joins(now, w)
    <2> DEFINE own(h) == {d \in DOMAIN w.report[h].disks \ Journals :
                            /\ ~IsShard(w, d) /\ Reporter(w, d) = {h}
                            /\ now.disk[d].state \in {"unlisted", "released"}}
    <2>1. PICK h \in Least((w.hosts \ w.leaving) \ Members(now)) :
                next = Join(now, h, w.report[h].address, own(h))
      BY <1>7, Zenon DEF Joins
    <2>2. h \in Hosts \ Members(now) /\ w.report[h].address \in Nat
      BY LeastIn, Zenon DEF WantOK
    <2> QED
      BY <2>1, <2>2, JoinAdmits, Zenon
  <1>8. CASE next \in Moves(now, w)
    <2>1. PICK h \in Least({x \in Members(now) \cap w.hosts :
                now.address[x] # w.report[x].address /\ now.member[x] # "draining"}) :
                next = Move(now, h, w.report[h].address)
      BY <1>8, Zenon DEF Moves
    <2>2. h \in Members(now) /\ w.report[h].address \in Nat
      BY <2>1, LeastIn, Zenon DEF WantOK
    <2> QED
      BY <2>1, <2>2, MoveAdmits, Zenon
  <1>9. CASE next \in Serves(now, w)
    <2>1. PICK d \in Least({x \in InState(now, {"attaching"}) : Reporter(w, x) = {now.disk[x].member}}) :
                next = Serve(now, d)
      BY <1>9, Zenon DEF Serves
    <2>2. d \in InState(now, {"attaching"})
      BY <2>1, LeastIn, Zenon
    <2> QED
      BY <2>1, <2>2, ServeAdmits, Zenon
  <1>10. CASE next \in JournalAdds(now, w)
    BY <1>10, AddAdmits, DisksAssumption, Zenon DEF JournalAdds, WantOK
  <1>11. CASE next \in JournalRemoves(now, w)
    BY <1>11, RemoveAdmits, LeastIn, Zenon DEF JournalRemoves, JournalDisks, Listed
  <1>12. CASE next \in JournalDeletes(now, w)
    BY <1>12, DeleteAdmits, LeastIn, ZenonT(30) DEF JournalDeletes, JournalDisks, Listed, Free, InState
  <1>13. CASE next \in Marks(now, w)
    <2>1. PICK d \in Least({x \in JournalDisks(now) : Misreported(now, w, x)}) :
                next = MarkEmpty(now, d, ~now.disk[d].empty)
      BY <1>13, Zenon DEF Marks
    <2>2. d \in Journals \cap InState(now, {"serving", "releasing"}) /\ (~now.disk[d].empty) \in BOOLEAN
      BY <2>1, LeastIn, Zenon DEF JournalDisks, Listed, Misreported, InState
    <2> QED
      BY <2>1, <2>2, MarkAdmits, Zenon
  <1>14. CASE next \in ReadOut(now, w)
    BY <1>14, ReleaseAdmits, LeastIn, ZenonT(30) DEF ReadOut, JournalDisks, Listed, Reading, InState
  <1>15. CASE next \in Unreserves(now, w)
    <2>1. PICK d \in Least({x \in JournalDisks(now) :
                now.disk[x].state = "released" /\ now.disk[x].machine \notin w.pool \cup {NoMachine}}) :
                next = Reserve(now, d, NoMachine)
      BY <1>15, Zenon DEF Unreserves
    <2>2. d \in Journals \cap InState(now, {"released"})
      BY <2>1, LeastIn, Zenon DEF JournalDisks, Listed, InState
    <2> QED
      BY <2>1, <2>2, ReserveAdmits, Zenon
  <1>16. CASE next \in Reserves(now, w)
    <2>1. PICK machine \in Least(Lacking(now, w)),
               d \in Least({x \in JournalDisks(now) : Free(now.disk[x]) /\ now.disk[x].empty}) :
                next = Reserve(now, d, machine)
      BY <1>16 DEF Reserves
    <2>2. machine \in Machines /\ d \in Journals \cap InState(now, {"released"})
      BY <2>1, LeastIn, Zenon DEF Lacking, WantOK, JournalDisks, Listed, Free, InState
    <2> QED
      BY <2>1, <2>2, ReserveAdmits, Zenon
  <1>17. CASE next \in Owns(now, w)
    <2> DEFINE reserved(h) == {d \in JournalDisks(now) :
                    now.disk[d].state = "released" /\ now.disk[d].machine = w.report[h].machine}
    <2>1. PICK h \in Least({x \in Takers(now, w) :
                ~HoldsOwn(now, x, w.report[x].machine) /\ reserved(x) # {}}) :
                next \in {Assign(now, d, h) : d \in Least(reserved(h))}
      BY <1>17, Zenon DEF Owns
    <2>2. PICK d \in Least(reserved(h)) : next = Assign(now, d, h)
      BY <2>1, Zenon
    <2>3. h \in Takers(now, w) /\ d \in reserved(h)
      BY <2>1, <2>2, LeastIn, Zenon
    <2>4. d \in InState(now, {"released"}) /\ h \in Members(now) /\ now.member[h] # "draining"
      BY <2>3, Zenon DEF Takers, JournalDisks, Listed, InState
    <2> QED
      BY <2>2, <2>4, AssignAdmits, Zenon
  <1>18. CASE next \in Reads(now, w)
    <2>1. PICK d \in Least({x \in JournalDisks(now) : Free(now.disk[x]) /\ ~now.disk[x].empty}),
               h \in Fewest(now, Takers(now, w), Journals) : next = Assign(now, d, h)
      BY <1>18 DEF Reads
    <2>2. d \in InState(now, {"released"})
      BY <2>1, LeastIn, Zenon DEF JournalDisks, Listed, Free, InState
    <2> QED
      BY <2>1, <2>2, FewestIn, AssignAdmits, Zenon DEF Takers
  <1>19. CASE next \in ShardAssigns(now, w)
    <2>1. PICK d \in Least(w.shards \cap InState(now, {"released"})),
               h \in Fewest(now, Takers(now, w), w.shards) : next = Assign(now, d, h)
      BY <1>19 DEF ShardAssigns
    <2>2. d \in InState(now, {"released"})
      BY <2>1, LeastIn, Zenon
    <2> QED
      BY <2>1, <2>2, FewestIn, AssignAdmits, Zenon DEF Takers
  <1>20. CASE next \in Spreads(now, w)
    <2>1. PICK h : \E d \in Least(AssignedTo(now, h) \cap w.shards \cap InState(now, {"serving"})) :
                next = Release(now, d)
      BY <1>20, Zenon DEF Spreads
    <2>2. PICK d \in InState(now, {"serving"}) : next = Release(now, d)
      BY <2>1, LeastIn, Zenon
    <2> QED
      BY <2>2, ReleaseAdmits, Zenon
  <1> QED
    BY Zenon, <1>1, <1>2, <1>3, <1>4, <1>5, <1>6, <1>7, <1>8, <1>9, <1>10, <1>11, <1>12, <1>13, <1>14,
       <1>15, <1>16, <1>17, <1>18, <1>19, <1>20

-----------------------------------------------------------------------------
(* The cluster.                                                            *)

\* A host process and a controller are records of these fields.
IsNode(n) ==
    n \in [up: {n.up}, id: {n.id}, address: {n.address}, view: {n.view}, open: {n.open},
           vm: {n.vm}, sampled: {n.sampled}]

IsController(c) ==
    c \in [pc: {c.pc}, report: {c.report}, leaving: {c.leaving}, pool: {c.pool}, free: {c.free},
           want: {c.want}, read: {c.read}, deletes: {c.deletes}, create: {c.create},
           detaches: {c.detaches}, attaches: {c.attaches}]

\* A process that runs is some host, at an address.
NodeOK(n) == IsNode(n) /\ n.address \in Nat /\ (n.up => n.id \in Hosts)

\* A survey is of such hosts; a pass wants what they reported, and the object it
\* read, and would write over, is a membership.
ControllerOK(c) ==
    /\ IsController(c)
    /\ c.pool \subseteq Machines
    /\ \A k \in DOMAIN c.report : c.report[k].id \in Hosts /\ c.report[k].address \in Nat
    /\ c.pc \in {"updating", "writing", "unsettled"} => WantOK(c.want)
    /\ c.pc = "writing" => c.read \in Memberships /\ Valid(c.read)

\* The inductive invariant.
ObjectOK == m \in Memberships /\ Valid(m)
NodesOK == node = [k \in Machines |-> node[k]] /\ \A k \in Machines : NodeOK(node[k])
ControllersOK == ctl = [c \in Controllers |-> ctl[c]] /\ \A c \in Controllers : ControllerOK(ctl[c])
BoundOK == bound \in Bounds /\ left \in [EventNames -> Nat]

WantsInv == ObjectOK /\ NodesOK /\ ControllersOK /\ BoundOK

-----------------------------------------------------------------------------
(* Initially.                                                              *)

\* A rank in a finite set is counted from one to its size.
LEMMA RankIn ==
    ASSUME NEW S, IsFiniteSet(S), S \subseteq Nat, NEW x \in S
    PROVE  Rank(S, x) \in 1 .. Cardinality(S) /\ Cardinality(S) \in Nat
  <1> DEFINE T == {y \in S : y <= x}
  <1>1. IsFiniteSet(T) /\ Cardinality(T) <= Cardinality(S) /\ Cardinality(T) \in Nat /\ Cardinality(S) \in Nat
    BY FS_Subset, FS_CardinalityType, Zenon
  <1>2. T # {}
    OBVIOUS
  <1>3. Cardinality(T) # 0
    BY <1>1, <1>2, FS_EmptySet, ZenonT(30)
  <1> QED
    BY <1>1, <1>3 DEF Rank

\* The first membership is a valid one.
LEMMA RunningOK == ASSUME bound \in Bounds PROVE Running \in Memberships /\ Valid(Running)
  <1> DEFINE ran == bound.running
  <1>1. /\ ran \subseteq Machines /\ ran \subseteq Hosts /\ IsFiniteSet(ran) /\ ran \subseteq Nat
        /\ Cardinality(ran) \in Nat /\ \A k \in ran : Rank(ran, k) \in 1 .. Cardinality(ran)
    <2>1. ran \subseteq Machines /\ ran \subseteq Hosts /\ IsFiniteSet(ran) /\ ran \subseteq Nat
      BY BoundsAssumption, HostsAssumption, Zenon
    <2> HIDE DEF ran
    <2> QED
      BY <2>1, RankIn, FS_CardinalityType, Zenon
  <1>2. Running.generation \in Nat
    BY <1>1 DEF Running, PerHost
  <1>3. \A k \in ran : /\ AssignedAt(k) \in 1 .. Running.generation
                       /\ JoinedAt(k) \in 1 .. Running.generation
    BY <1>1 DEF AssignedAt, JoinedAt, PerHost, Running
  <1> DEFINE held(d) ==
        /\ RunningDisk(d).state = "serving" /\ RunningDisk(d).member \in ran
        /\ RunningDisk(d).assigned \in 1 .. Running.generation /\ ~RunningDisk(d).empty
        /\ d \notin Journals => RunningDisk(d).machine = NoMachine
  <1>4. ASSUME NEW d \in Disks
        PROVE  RunningDisk(d) \in Disk /\ (RunningDisk(d) = Unlisted \/ held(d))
    <2>1. CASE \E k \in ran : d = JournalOf(k)
      <3>5. ~ \E k \in ran : d = OwnDisk[k]
        BY <2>1, <1>1, BoundsAssumption, Zenon
      <3>1. PICK k \in ran : d = JournalOf(k) /\ RunningDisk(d) = Held(AssignedAt(k), k, k)
        BY <2>1, <3>5, Zenon DEF RunningDisk
      <3>2. d \in Journals /\ k \in Machines /\ k \in Hosts /\ AssignedAt(k) \in Nat
        BY <3>1, <1>1, <1>3, BoundsAssumption
      <3>3. RunningDisk(d) \in Disk
        BY <3>1, <3>2 DEF Held, Disk, DiskStates, HeldStates
      <3>4. held(d)
        BY <3>1, <3>2, <1>3 DEF Held
      <3> QED
        BY <3>3, <3>4, Zenon
    <2>2. CASE ~(\E k \in ran : d = JournalOf(k)) /\ bound.own /\ \E k \in ran : d = OwnDisk[k]
      <3>1. PICK k \in ran : d = OwnDisk[k] /\ RunningDisk(d) = Held(JoinedAt(k), k, NoMachine)
        BY <2>2, Zenon DEF RunningDisk
      <3>2. k \in Machines /\ k \in Hosts /\ JoinedAt(k) \in Nat
        BY <3>1, <1>1, <1>3
      <3>3. RunningDisk(d) \in Disk
        BY <3>1, <3>2 DEF Held, Disk, DiskStates, HeldStates
      <3>4. held(d)
        BY <3>1, <3>2, <1>3 DEF Held
      <3> QED
        BY <3>3, <3>4, Zenon
    <2>3. CASE ~(\E k \in ran : d = JournalOf(k)) /\ ~(bound.own /\ \E k \in ran : d = OwnDisk[k])
      <3>1. RunningDisk(d) = Unlisted
        BY <2>3, Zenon DEF RunningDisk
      <3>2. Unlisted \in Disk
        BY Zenon DEF Unlisted, Disk, DiskStates
      <3> QED
        BY <3>1, <3>2, Zenon
    <2> QED
      BY <2>1, <2>2, <2>3, ZenonT(30)
  <1>5. /\ Running.member = [h \in Hosts |-> IF h \in ran THEN "active" ELSE "unlisted"]
        /\ Running.disk = [d \in Disks |-> RunningDisk(d)]
        /\ Running.member \in [Hosts -> MemberStates] /\ Running.disk \in [Disks -> Disk]
        /\ Running.address \in [Hosts -> Nat]
    BY <1>4, Zenon DEF Running, MemberStates
  <1>6. Running \in Memberships
    BY <1>2, <1>5, Zenon DEF Running, Memberships
  <1>7. ran \subseteq Members(Running)
    BY <1>1, <1>5, Zenon DEF Members
  <1>8. ASSUME NEW d \in Listed(Running) PROVE ValidDisk(Running, d)
    <2>1. d \in Disks /\ Running.disk[d] = RunningDisk(d) /\ RunningDisk(d) # Unlisted
      BY <1>5 DEF Listed, Unlisted
    <2>2. held(d)
      BY <2>1, <1>4, Zenon
    <2> QED
      BY <2>1, <2>2, <1>7, Zenon DEF ValidDisk
  <1> QED
    BY <1>6, <1>8, Zenon DEF Valid

\* The invariant holds initially.
LEMMA WantsInit == Init => WantsInv
  <1> SUFFICES ASSUME Init PROVE WantsInv
    BY Zenon
  <1>1. ObjectOK
    BY RunningOK, Zenon DEF Init, ObjectOK
  <1>2. ASSUME NEW k \in Machines PROVE NodeOK(IF k \in bound.running THEN RunningNode(k) ELSE Stopped)
    <2>1. NodeOK(Stopped)
      BY Zenon DEF NodeOK, IsNode, Stopped
    <2>2. ASSUME k \in bound.running PROVE NodeOK(RunningNode(k))
      <3>1. k \in Hosts
        BY <2>2, BoundsAssumption, Zenon DEF Init
      <3> QED
        BY <3>1, Zenon DEF NodeOK, IsNode, RunningNode, Stopped
    <2> QED
      BY <2>1, <2>2, Zenon
  <1>3. NodesOK
    BY <1>2, Zenon DEF Init, NodesOK
  <1>4. ControllerOK(IdleController)
    BY Zenon DEF ControllerOK, IsController, IdleController, None
  <1>5. ControllersOK
    BY <1>4, Zenon DEF Init, ControllersOK
  <1>6. BoundOK
    BY BoundsAssumption, Zenon DEF Init, BoundOK
  <1> QED
    BY <1>1, <1>3, <1>5, <1>6, Zenon DEF WantsInv

-----------------------------------------------------------------------------
(* The hosts' steps.                                                       *)

\* An event that happens is one fewer of those left.
LEMMA SpendOK ==
    ASSUME BoundOK, NEW e \in EventNames, Spend(e), UNCHANGED bound
    PROVE  BoundOK'
  BY DEF BoundOK, Spend

\* Only what a process holds, its copy and its VM change while it runs.
LEMMA NodeUpdated ==
    ASSUME NEW n, NodeOK(n), NEW v
    PROVE  /\ NodeOK([n EXCEPT !.view = v]) /\ NodeOK([n EXCEPT !.open = v])
           /\ NodeOK([n EXCEPT !.vm = v]) /\ NodeOK([n EXCEPT !.sampled = v])
           /\ \A o : NodeOK([n EXCEPT !.view = v, !.open = o])
  BY Zenon DEF NodeOK, IsNode

\* A process that stopped, or that starts as some host.
LEMMA NodeStarted ==
    /\ NodeOK(Stopped)
    /\ \A a \in Nat : NodeOK([Stopped EXCEPT !.address = a])
    /\ \A a \in Nat, h \in Hosts : NodeOK([Stopped EXCEPT !.up = TRUE, !.id = h, !.address = a])
  BY ZenonT(30) DEF NodeOK, IsNode, Stopped

\* One process changes at a time.
LEMMA NodesUpdated ==
    ASSUME NodesOK, NEW k \in Machines, NEW n, NodeOK(n), node' = [node EXCEPT ![k] = n]
    PROVE  NodesOK'
  BY Zenon DEF NodesOK

\* A process starts as a host it may be.
LEMMA RunsOK ==
    ASSUME NodesOK, BoundOK, NEW k \in Machines, NEW a \in Nat, Runs(k, a)
    PROVE  NodesOK'
  <1>1. PICK h \in Identities(k) :
            node' = [node EXCEPT ![k] = [Stopped EXCEPT !.up = TRUE, !.id = h, !.address = a]]
    BY Zenon DEF Runs
  <1>2. h \in Hosts
    BY <1>1, BoundsAssumption, Zenon DEF Identities, BoundOK
  <1> QED
    BY <1>1, <1>2, NodeStarted, NodesUpdated, Zenon

\* What a host does leaves the hosts as they should be, and neither the object
\* nor a controller changes.
LEMMA HostOK ==
    ASSUME WantsInv, NEW k \in Machines, HostSteps(k) \/ Events(k)
    PROVE  NodesOK' /\ BoundOK' /\ UNCHANGED <<m, ctl>>
  <1> USE DEF world, cloud
  <1>a. NodesOK /\ BoundOK /\ NodeOK(node[k]) /\ node[k].address \in Nat /\ left["start"] \in Nat
    BY Zenon DEF WantsInv, NodesOK, NodeOK, BoundOK, EventNames
  <1>b. UNCHANGED <<bound, left>> => BoundOK'
    BY <1>a, Zenon DEF BoundOK
  <1>1. CASE Restart(k)
    BY <1>1, <1>a, <1>b, RunsOK, ZenonT(30) DEF Restart
  <1>2. CASE Ended(k)
    BY <1>2, <1>a, <1>b, NodeStarted, NodesUpdated, ZenonT(30) DEF Ended
  <1>3. CASE Refresh(k)
    <2>1. node' = [node EXCEPT ![k] = [node[k] EXCEPT !.view = m]]
      BY <1>3, Zenon DEF Refresh
    <2> QED
      BY <2>1, <1>3, <1>a, <1>b, NodeUpdated, NodesUpdated, ZenonT(30) DEF Refresh
  <1>4. CASE Register(k)
    <2>1. node' = [node EXCEPT ![k] = [node[k] EXCEPT !.vm = "running"]]
      BY <1>4, Zenon DEF Register
    <2> QED
      BY <2>1, <1>4, <1>a, <1>b, NodeUpdated, NodesUpdated, ZenonT(30) DEF Register
  <1>5. ASSUME NEW d \in Disks, Open(k, d) PROVE NodesOK' /\ BoundOK' /\ UNCHANGED <<m, ctl>>
    <2>1. PICK o : node' = [node EXCEPT ![k] = [node[k] EXCEPT !.view = m, !.open = o]]
      BY <1>5, Zenon DEF Open
    <2> QED
      BY <2>1, <1>5, <1>a, <1>b, NodeUpdated, NodesUpdated, ZenonT(30) DEF Open
  <1>6. ASSUME NEW d \in Disks, CloseLost(k, d) PROVE NodesOK' /\ BoundOK' /\ UNCHANGED <<m, ctl>>
    <2>1. PICK o : node' = [node EXCEPT ![k] = [node[k] EXCEPT !.open = o]]
      BY <1>6, Zenon DEF CloseLost
    <2> QED
      BY <2>1, <1>6, <1>a, <1>b, NodeUpdated, NodesUpdated, ZenonT(30) DEF CloseLost
  <1>7. ASSUME NEW d \in Disks, CloseEmpty(k, d) PROVE NodesOK' /\ BoundOK' /\ UNCHANGED <<m, ctl>>
    <2>1. PICK o : \/ node' = [node EXCEPT ![k] = [node[k] EXCEPT !.open = o]]
                   \/ node' = [node EXCEPT ![k] = [node[k] EXCEPT !.view = m, !.open = o]]
      BY <1>7, Zenon DEF CloseEmpty
    <2>2. NodesOK'
      BY <2>1, <1>a, NodeUpdated, NodesUpdated, Zenon
    <2> QED
      BY <2>2, <1>7, <1>b, Zenon DEF CloseEmpty
  <1>8. ASSUME NEW d \in Disks, Follow(k, d) PROVE NodesOK' /\ BoundOK' /\ UNCHANGED <<m, ctl>>
    <2>1. PICK o : node' = [node EXCEPT ![k] = [node[k] EXCEPT !.open = o]]
      BY <1>8, Zenon DEF Follow
    <2> QED
      BY <2>1, <1>8, <1>a, <1>b, NodeUpdated, NodesUpdated, ZenonT(30) DEF Follow
  <1>9. CASE Start(k)
    BY <1>9, <1>a, RunsOK, SpendOK, Zenon DEF Start, EventNames
  <1>10. CASE Crash(k)
    BY <1>10, <1>a, NodeStarted, NodesUpdated, SpendOK, ZenonT(30) DEF Crash, Happens, EventNames
  <1>11. CASE Terminate(k)
    BY <1>11, <1>a, SpendOK, Zenon DEF Terminate, Happens, EventNames, NodesOK
  <1>12. CASE Lost(k)
    <2>1. BoundOK' /\ UNCHANGED <<m, ctl>>
      BY <1>12, <1>a, SpendOK, Zenon DEF Lost, Happens, EventNames
    <2>2. node' = node \/ node' = [node EXCEPT ![k] = Stopped]
      BY <1>12, Zenon DEF Lost
    <2>3. NodesOK'
      BY <2>2, <1>a, NodeStarted, NodesUpdated, Zenon DEF NodesOK
    <2> QED
      BY <2>1, <2>3, Zenon
  <1>13. CASE Dies(k)
    BY <1>13, <1>a, <1>b, NodeStarted, NodesUpdated, Zenon DEF Dies
  <1>14. CASE Admit(k)
    <2>1. node' = [node EXCEPT ![k] = [node[k] EXCEPT !.vm = "admitting"]]
      BY <1>14, Zenon DEF Admit
    <2> QED
      BY <2>1, <1>14, <1>a, NodeUpdated, NodesUpdated, SpendOK, Zenon DEF Admit, Happens, EventNames
  <1>15. CASE StopVM(k)
    <2>1. node' = [node EXCEPT ![k] = [node[k] EXCEPT !.vm = "none"]]
      BY <1>15, Zenon DEF StopVM
    <2> QED
      BY <2>1, <1>15, <1>a, <1>b, NodeUpdated, NodesUpdated, Zenon DEF StopVM
  <1>16. CASE SampleVMs(k)
    <2>1. node' = [node EXCEPT ![k] = [node[k] EXCEPT !.sampled = "idle"]]
      BY <1>16, Zenon DEF SampleVMs
    <2> QED
      BY <2>1, <1>16, <1>a, <1>b, NodeUpdated, NodesUpdated, Zenon DEF SampleVMs
  <1>17. ASSUME NEW d \in Disks, Flush(k, d) \/ Trim(k, d)
         PROVE  NodesOK' /\ BoundOK' /\ UNCHANGED <<m, ctl>>
    BY <1>17, <1>a, <1>b, Zenon DEF Flush, Trim, NodesOK
  <1> QED
    BY ZenonT(30), <1>1, <1>2, <1>3, <1>4, <1>5, <1>6, <1>7, <1>8, <1>9, <1>10, <1>11, <1>12, <1>13, <1>14,
       <1>15, <1>16, <1>17 DEF HostSteps, Events

-----------------------------------------------------------------------------
(* The controllers' steps.                                                 *)

\* One controller changes at a time.
LEMMA ControllersUpdated ==
    ASSUME ControllersOK, NEW c \in Controllers, NEW r, ControllerOK(r), ctl' = [ctl EXCEPT ![c] = r]
    PROVE  ControllersOK'
  BY Zenon DEF ControllersOK

\* A pass that is over, or only has calls of the cloud to make, keeps the survey.
LEMMA IdleOK ==
    ASSUME NEW c \in Controllers, ControllerOK(ctl[c])
    PROVE  ControllerOK(Idle(c))
  BY Zenon DEF ControllerOK, IsController, Idle

LEMMA CallingOK ==
    ASSUME NEW c \in Controllers, ControllerOK(ctl[c]), NEW next
    PROVE  ControllerOK(Calling(c, next))
  <1>1. ASSUME NEW i, ControllerOK(i), NEW del, NEW new, NEW det, NEW att
        PROVE  ControllerOK([i EXCEPT !.pc = "calling", !.deletes = del, !.create = new,
                                      !.detaches = det, !.attaches = att])
    BY <1>1, Zenon DEF ControllerOK, IsController
  <1> QED
    BY <1>1, IdleOK, Zenon DEF Calling

\* Calls that are made leave the rest of a pass.
LEMMA CalledOK ==
    ASSUME NEW c \in Controllers, ControllerOK(ctl[c]), NEW r,
           \E v : \/ r = [ctl[c] EXCEPT !.deletes = v] \/ r = [ctl[c] EXCEPT !.create = v]
                  \/ r = [ctl[c] EXCEPT !.detaches = v] \/ r = [ctl[c] EXCEPT !.attaches = v]
    PROVE  ControllerOK(Called(c, r))
  <1>1. ControllerOK(r)
    BY ZenonT(30) DEF ControllerOK, IsController
  <1>2. ControllerOK([r EXCEPT !.pc = "idle"])
    BY <1>1, Zenon DEF ControllerOK, IsController
  <1> QED
    BY <1>1, <1>2, Zenon DEF Called

\* A survey takes the reports of hosts that run, and keeps others' from before.
LEMMA SurveyOK ==
    ASSUME WantsInv, NEW c \in Controllers, Survey(c)
    PROVE  NodesOK' /\ BoundOK' /\ ControllersOK' /\ UNCHANGED m
  <1>1. PICK quiet \in SUBSET {k \in ListedPods : node[k].up} :
            /\ quiet # {} => left["quiet"] > 0
            /\ left' = [left EXCEPT !["quiet"] = IF quiet = {} THEN @ ELSE @ - 1]
            /\ LET answered == {k \in ListedPods : node[k].up} \ quiet
                   kept == {k \in DOMAIN ctl[c].report \cap ListedPods :
                                ctl[c].report[k].address = node[k].address}
               IN  /\ ctl' = [ctl EXCEPT
                        ![c].pc = "surveyed",
                        ![c].report = [k \in kept \cup answered |->
                            IF k \in answered THEN ReportOf(k) ELSE ctl[c].report[k]],
                        ![c].leaving = {k \in Machines : pods[k] = "terminating"},
                        ![c].pool = IF bound.journals THEN ListedPods ELSE {}]
                   /\ node' = [k \in Machines |->
                        IF k \in answered THEN [node[k] EXCEPT !.sampled = "no"] ELSE node[k]]
    BY Zenon DEF Survey
  <1> DEFINE answered == {k \in ListedPods : node[k].up} \ quiet
             kept == {k \in DOMAIN ctl[c].report \cap ListedPods :
                        ctl[c].report[k].address = node[k].address}
             report == [k \in kept \cup answered |-> IF k \in answered THEN ReportOf(k) ELSE ctl[c].report[k]]
             leaving == {k \in Machines : pods[k] = "terminating"}
             pool == IF bound.journals THEN ListedPods ELSE {}
  <1>2. BoundOK'
    <2>1. left \in [EventNames -> Nat] /\ "quiet" \in EventNames /\ bound \in Bounds /\ UNCHANGED bound
      BY Zenon DEF WantsInv, BoundOK, EventNames, Survey
    <2>2. /\ quiet # {} => left["quiet"] > 0
          /\ left' = [left EXCEPT !["quiet"] = IF quiet = {} THEN left["quiet"] ELSE left["quiet"] - 1]
      BY <1>1, Zenon
    <2>3. left' \in [EventNames -> Nat]
      BY <2>1, <2>2
    <2> QED
      BY <2>1, <2>3, Zenon DEF BoundOK
  <1>3. NodesOK'
    <2>1. node' = [k \in Machines |-> IF k \in answered THEN [node[k] EXCEPT !.sampled = "no"] ELSE node[k]]
      BY <1>1, Zenon
    <2> HIDE DEF answered
    <2> QED
      BY <2>1, NodeUpdated, Zenon DEF WantsInv, NodesOK
  <1>4. pool \subseteq Machines
    BY Zenon DEF ListedPods
  <1>5. \A k \in DOMAIN report : report[k].id \in Hosts /\ report[k].address \in Nat
    <2>1. \A k \in answered : ReportOf(k).id \in Hosts /\ ReportOf(k).address \in Nat
      BY Zenon DEF ListedPods, ReportOf, WantsInv, NodesOK, NodeOK
    <2>2. \A k \in kept : ctl[c].report[k].id \in Hosts /\ ctl[c].report[k].address \in Nat
      BY Zenon DEF WantsInv, ControllersOK, ControllerOK
    <2> QED
      BY <2>1, <2>2, Zenon
  <1>6. ctl' = [ctl EXCEPT ![c] = [ctl[c] EXCEPT !.pc = "surveyed", !.report = report, !.leaving = leaving,
                                                 !.pool = pool]]
    BY <1>1, Zenon
  <1> HIDE DEF answered, kept, report, leaving, pool
  <1>7. ControllerOK([ctl[c] EXCEPT !.pc = "surveyed", !.report = report, !.leaving = leaving, !.pool = pool])
    BY <1>4, <1>5, ZenonT(30) DEF WantsInv, ControllersOK, ControllerOK, IsController
  <1>8. ControllersOK'
    BY <1>6, <1>7, ControllersUpdated, Zenon DEF WantsInv
  <1> QED
    BY <1>2, <1>3, <1>8, Zenon DEF Survey

\* A pass wants what the survey and the cloud's listing say.
LEMMA DescribeOK ==
    ASSUME WantsInv, NEW c \in Controllers, Describe(c)
    PROVE  NodesOK' /\ BoundOK' /\ ControllersOK' /\ UNCHANGED m
  <1> DEFINE free == {d \in JournalDisks(m) : Free(m.disk[d]) /\ m.disk[d].empty}
             want(expired, known) ==
                [hosts |-> Reported(c),
                 report |-> [h \in Reported(c) |-> ctl[c].report[PodOf(c, h)]],
                 leaving |-> {h \in Reported(c) : PodOf(c, h) \in ctl[c].leaving},
                 pool |-> ctl[c].pool, after |-> m.generation, expired |-> expired,
                 shards |-> IF known THEN Shards ELSE Shards \cap Listed(m),
                 known |-> IF known THEN exists ELSE {}, at |-> at,
                 journals |-> IF known THEN exists \cap Journals ELSE {},
                 journalsKnown |-> known]
  <1>1. PICK expired \in SUBSET (free \cap ctl[c].free), known \in BOOLEAN :
            /\ expired # {} => left["expire"] > 0
            /\ ~known => left["fault"] > 0
            /\ left' = [left EXCEPT !["expire"] = IF expired = {} THEN @ ELSE @ - 1,
                                    !["fault"] = IF known THEN @ ELSE @ - 1]
            /\ ctl' = [ctl EXCEPT ![c].pc = "updating", ![c].free = free, ![c].want = want(expired, known)]
    BY Zenon DEF Describe
  <1>2. BoundOK'
    <2>1. /\ left \in [EventNames -> Nat] /\ "expire" \in EventNames /\ "fault" \in EventNames
          /\ bound \in Bounds /\ UNCHANGED bound
      BY Zenon DEF WantsInv, BoundOK, EventNames, Describe, hosts
    <2>2. left' = [left EXCEPT !["expire"] = IF expired = {} THEN left["expire"] ELSE left["expire"] - 1,
                               !["fault"] = IF known THEN left["fault"] ELSE left["fault"] - 1]
      BY <1>1, Zenon
    <2>3. ASSUME NEW a \in Nat, NEW b \in Nat
          PROVE  [left EXCEPT !["expire"] = a, !["fault"] = b] \in [EventNames -> Nat]
      BY <2>1, Zenon
    <2>7. (expired # {} => left["expire"] > 0) /\ (~known => left["fault"] > 0)
      BY <1>1, Zenon
    <2>8. left["expire"] \in Nat /\ left["fault"] \in Nat
      BY <2>1, Zenon
    <2>4. (IF expired = {} THEN left["expire"] ELSE left["expire"] - 1) \in Nat
      BY <2>7, <2>8
    <2>5. (IF known THEN left["fault"] ELSE left["fault"] - 1) \in Nat
      BY <2>7, <2>8
    <2>6. left' \in [EventNames -> Nat]
      BY <2>2, <2>3, <2>4, <2>5, Zenon
    <2> QED
      BY <2>1, <2>6, Zenon DEF BoundOK
  <1>3. WantOK(want(expired, known))
    <2>1. \A k \in DOMAIN ctl[c].report : ctl[c].report[k].id \in Hosts /\ ctl[c].report[k].address \in Nat
      BY Zenon DEF WantsInv, ControllersOK, ControllerOK
    <2>2. Reported(c) \subseteq Hosts
      BY <2>1, Zenon DEF Reported
    <2>3. \A h \in Reported(c) : PodOf(c, h) \in DOMAIN ctl[c].report
      BY Zenon DEF Reported, PodOf
    <2>4. \A h \in Reported(c) : want(expired, known).report[h].address \in Nat
      BY <2>1, <2>3, Zenon
    <2>5. Shards \subseteq Disks \ Journals
      BY BoundsAssumption, Zenon DEF WantsInv, BoundOK, Shards
    <2>6. ctl[c].pool \subseteq Machines
      BY Zenon DEF WantsInv, ControllersOK, ControllerOK
    <2> QED
      BY <2>2, <2>4, <2>5, <2>6, Zenon DEF WantOK
  <1>4. ctl' = [ctl EXCEPT ![c] = [ctl[c] EXCEPT !.pc = "updating", !.free = free, !.want = want(expired, known)]]
    BY <1>1, Zenon
  <1>5. ASSUME NEW w, WantOK(w), NEW f
        PROVE  ControllerOK([ctl[c] EXCEPT !.pc = "updating", !.free = f, !.want = w])
    BY <1>5, ZenonT(30) DEF WantsInv, ControllersOK, ControllerOK, IsController
  <1> HIDE DEF want, free
  <1>6. ControllersOK'
    BY <1>3, <1>4, <1>5, ControllersUpdated, Zenon DEF WantsInv
  <1>7. NodesOK' /\ UNCHANGED m
    BY Zenon DEF Describe, hosts, WantsInv, NodesOK
  <1> QED
    BY <1>2, <1>6, <1>7, Zenon

\* A change written is one of Next's over the object as it was read.
LEMMA UpdateWritesOK ==
    ASSUME WantsInv, NEW c \in Controllers, UpdateWrites(c)
    PROVE  NodesOK' /\ BoundOK' /\ ControllersOK' /\ Admits(m, m')
  <1>1. /\ m = ctl[c].read /\ WantOK(ctl[c].want) /\ ControllerOK(ctl[c]) /\ m \in Memberships /\ Valid(m)
        /\ ctl[c].pc = "writing"
    BY Zenon DEF UpdateWrites, Writable, WantsInv, ControllersOK, ControllerOK, ObjectOK
  <1>2. PICK next \in Next(ctl[c].read, ctl[c].want) :
            /\ m' = next
            /\ \/ /\ ctl' = [ctl EXCEPT ![c] = Calling(c, next)]
                  /\ UNCHANGED left
               \/ /\ Spend("fault")
                  /\ ctl' = [ctl EXCEPT ![c].pc = "unsettled", ![c].read = next]
    BY Zenon DEF UpdateWrites
  <1>3. Admits(m, m')
    BY <1>1, <1>2, NextAdmitted, Zenon
  <1>4. ControllerOK([ctl[c] EXCEPT !.pc = "unsettled", !.read = next])
    BY <1>1, Zenon DEF ControllerOK, IsController
  <1>5. ControllersOK'
    <2>1. CASE ctl' = [ctl EXCEPT ![c] = Calling(c, next)]
      BY <1>1, <2>1, CallingOK, ControllersUpdated, Zenon DEF WantsInv
    <2>2. CASE ctl' = [ctl EXCEPT ![c].pc = "unsettled", ![c].read = next]
      <3>1. ctl' = [ctl EXCEPT ![c] = [ctl[c] EXCEPT !.pc = "unsettled", !.read = next]]
        BY <2>2, Zenon
      <3> QED
        BY <1>4, <3>1, ControllersUpdated, Zenon DEF WantsInv
    <2> QED
      BY <1>2, <2>1, <2>2, Zenon
  <1>6. UNCHANGED <<node, bound>>
    BY Zenon DEF UpdateWrites, hosts
  <1>7. NodesOK'
    BY <1>6, Zenon DEF WantsInv, NodesOK
  <1>8. BoundOK'
    BY <1>2, <1>6, SpendOK, Zenon DEF WantsInv, BoundOK, EventNames
  <1> QED
    BY <1>3, <1>5, <1>7, <1>8, Zenon

\* A read back, or a change that raced, starts over, or makes the pass's calls.
LEMMA UpdateReadsOK ==
    ASSUME WantsInv, NEW c \in Controllers,
           UpdateReads(c) \/ UpdateReadsBack(c) \/ UpdateRaced(c)
    PROVE  NodesOK' /\ BoundOK' /\ ControllersOK' /\ UNCHANGED m
  <1>1. NodesOK' /\ BoundOK' /\ UNCHANGED m
    BY Zenon DEF UpdateReads, UpdateReadsBack, UpdateRaced, hosts, WantsInv, NodesOK, BoundOK
  <1>2. ControllerOK(ctl[c]) /\ ControllersOK /\ m \in Memberships /\ Valid(m)
    BY Zenon DEF WantsInv, ControllersOK, ObjectOK
  <1>3. ControllerOK(Calling(c, m))
    BY <1>2, CallingOK, Zenon
  <1>4. ctl[c].pc \in {"updating", "writing", "unsettled"} => ControllerOK([ctl[c] EXCEPT !.pc = "writing", !.read = m])
    BY <1>2, Zenon DEF ControllerOK, IsController
  <1>5. ctl[c].pc \in {"updating", "writing", "unsettled"} => ControllerOK([ctl[c] EXCEPT !.pc = "updating", !.read = Empty])
    BY <1>2, Zenon DEF ControllerOK, IsController
  <1>6. PICK r : ctl' = [ctl EXCEPT ![c] = r] /\ ctl[c].pc \in {"updating", "writing", "unsettled"}
                 /\ r \in {Calling(c, m), [ctl[c] EXCEPT !.pc = "writing", !.read = m],
                           [ctl[c] EXCEPT !.pc = "updating", !.read = Empty]}
    <2>1. CASE UpdateReads(c)
      BY <2>1, Zenon DEF UpdateReads
    <2>2. CASE UpdateReadsBack(c)
      BY <2>2, Zenon DEF UpdateReadsBack
    <2>3. CASE UpdateRaced(c)
      <3>1. ctl' = [ctl EXCEPT ![c] = [ctl[c] EXCEPT !.pc = "updating", !.read = Empty]]
        BY <2>3, Zenon DEF UpdateRaced
      <3> QED
        BY <2>3, <3>1, Zenon DEF UpdateRaced
    <2> QED
      BY <2>1, <2>2, <2>3, Zenon
  <1> QED
    BY <1>1, <1>2, <1>3, <1>4, <1>5, <1>6, ControllersUpdated, Zenon

\* A call of the cloud takes itself off the pass's calls.
LEMMA CallsOK ==
    ASSUME WantsInv, NEW c \in Controllers,
           CallDelete(c) \/ CallCreate(c) \/ CallDetach(c) \/ CallAttach(c)
    PROVE  NodesOK' /\ BoundOK' /\ ControllersOK' /\ UNCHANGED m
  <1>1. NodesOK' /\ BoundOK' /\ UNCHANGED m
    BY Zenon DEF CallDelete, CallCreate, CallDetach, CallAttach, hosts, WantsInv, NodesOK, BoundOK
  <1>2. \E r, v : /\ ctl' = [ctl EXCEPT ![c] = Called(c, r)]
                  /\ \/ r = [ctl[c] EXCEPT !.deletes = v] \/ r = [ctl[c] EXCEPT !.create = v]
                     \/ r = [ctl[c] EXCEPT !.detaches = v] \/ r = [ctl[c] EXCEPT !.attaches = v]
    <2>1. CASE CallDelete(c)
      BY <2>1, Zenon DEF CallDelete
    <2>2. CASE CallCreate(c)
      BY <2>2, Zenon DEF CallCreate
    <2>3. CASE CallDetach(c)
      BY <2>3, Zenon DEF CallDetach
    <2>4. CASE CallAttach(c)
      BY <2>4, Zenon DEF CallAttach
    <2> QED
      BY <2>1, <2>2, <2>3, <2>4, Zenon
  <1>3. ControllerOK(ctl[c]) /\ ControllersOK
    BY Zenon DEF WantsInv, ControllersOK
  <1> QED
    BY <1>1, <1>2, <1>3, CalledOK, ControllersUpdated, Zenon

\* A pass that ends, and a controller that starts again, want nothing.
LEMMA EndsOK ==
    ASSUME WantsInv, NEW c \in Controllers, Aborts(c) \/ StartsAgain(c)
    PROVE  NodesOK' /\ BoundOK' /\ ControllersOK' /\ UNCHANGED m
  <1>1. NodesOK' /\ UNCHANGED <<m, bound>>
    BY Zenon DEF Aborts, StartsAgain, hosts, WantsInv, NodesOK
  <1>2. BoundOK'
    BY <1>1, SpendOK, Zenon DEF Aborts, StartsAgain, WantsInv, EventNames
  <1>3. ControllerOK(ctl[c]) /\ ControllersOK
    BY Zenon DEF WantsInv, ControllersOK
  <1>4. ControllerOK(IdleController)
    BY Zenon DEF ControllerOK, IsController, IdleController, None
  <1> QED
    BY <1>1, <1>2, <1>3, <1>4, IdleOK, ControllersUpdated, Zenon DEF Aborts, StartsAgain

-----------------------------------------------------------------------------
(* The results.                                                            *)

\* Every step keeps the invariant, and moves the membership as the store admits.
LEMMA WantsNext ==
    ASSUME WantsInv, [NextState]_vars
    PROVE  WantsInv' /\ (UNCHANGED m \/ Admits(m, m'))
  <1>1. ASSUME NEW k \in Machines, HostSteps(k) \/ Events(k)
        PROVE  WantsInv' /\ UNCHANGED m
    BY <1>1, HostOK, Zenon DEF WantsInv, ObjectOK, ControllersOK
  <1>2. ASSUME NEW c \in bound.controllers, Passes(c) \/ Aborts(c) \/ StartsAgain(c)
        PROVE  WantsInv' /\ (UNCHANGED m \/ Admits(m, m'))
    <2>1. c \in Controllers
      BY BoundsAssumption, Zenon DEF WantsInv, BoundOK
    <2>2. CASE UpdateWrites(c)
      BY <2>1, <2>2, UpdateWritesOK, Zenon DEF WantsInv, ObjectOK, Admits
    <2>3. CASE ~UpdateWrites(c)
      <3>1. NodesOK' /\ BoundOK' /\ ControllersOK' /\ UNCHANGED m
        BY <1>2, <2>1, <2>3, SurveyOK, DescribeOK, UpdateReadsOK, CallsOK, EndsOK, ZenonT(30) DEF Passes
      <3> QED
        BY <3>1, Zenon DEF WantsInv, ObjectOK
    <2> QED
      BY <2>2, <2>3, Zenon
  <1>3. CASE UNCHANGED vars
    BY <1>3, Zenon DEF vars, WantsInv, ObjectOK, NodesOK, ControllersOK, BoundOK
  <1> QED
    BY <1>1, <1>2, <1>3, Zenon DEF NextState

\* No controller asks the store for a change it refuses (shardcontrol.go, Pass:
\* Update with Next): whatever it surveyed, listed and read, and whoever else
\* changed the membership since.
THEOREM NoneRefused == Spec => []NeverRefused
  <1>1. WantsInv => NeverRefused
    <2> SUFFICES ASSUME WantsInv, NEW c \in Controllers, ctl[c].pc = "writing",
                        NEW next \in Next(ctl[c].read, ctl[c].want)
                 PROVE  Valid(next) /\ Step(ctl[c].read, next)
      BY Zenon DEF NeverRefused
    <2>1. ctl[c].read \in Memberships /\ Valid(ctl[c].read) /\ WantOK(ctl[c].want)
      BY Zenon DEF WantsInv, ControllersOK, ControllerOK
    <2> QED
      BY <2>1, NextAdmitted, Zenon DEF Admits
  <1> QED
    BY <1>1, WantsInit, WantsNext, PTL DEF Spec

\* The store's rules are the same read from here and from the abstract object.
LEMMA SameRules ==
    /\ Steps!Memberships = Memberships
    /\ \A now : Steps!Valid(now) <=> Valid(now)
    /\ \A now, next : Steps!Step(now, next) <=> Step(now, next)
  <1>1. Steps!Memberships = Memberships
    BY Zenon DEF Steps!Memberships, Memberships, Steps!MemberStates, MemberStates, Steps!Disk, Disk,
           Steps!DiskStates, DiskStates, Steps!HeldStates, HeldStates, Steps!NoHost, NoHost,
           Steps!NoMachine, NoMachine
  <1>2. \A now : Steps!Listed(now) = Listed(now) /\ Steps!Members(now) = Members(now)
    BY Zenon DEF Steps!Listed, Listed, Steps!Members, Members
  <1>3. \A now, d : Steps!ValidDisk(now, d) <=> ValidDisk(now, d)
    BY <1>2, Zenon DEF Steps!ValidDisk, ValidDisk, Steps!HeldStates, HeldStates, Steps!NoHost, NoHost,
           Steps!NoMachine, NoMachine
  <1>4. \A now : Steps!Valid(now) <=> Valid(now)
    BY <1>2, <1>3, Zenon DEF Steps!Valid, Valid
  <1>5. \A was, disk : Steps!StepJournal(was, disk) <=> StepJournal(was, disk)
    BY Zenon DEF Steps!StepJournal, StepJournal
  <1>6. \A state : Steps!Order(state) = Order(state)
    BY Zenon DEF Steps!Order, Order
  <1>7. \A next, was, disk : Steps!StepDisk(next, was, disk) <=> StepDisk(next, was, disk)
    BY <1>5, <1>6 DEF Steps!StepDisk, StepDisk
  <1>8. \A now, next : Steps!Step(now, next) <=> Step(now, next)
    BY <1>2, <1>7, Zenon DEF Steps!Step, Step
  <1> QED
    BY <1>1, <1>4, <1>8, Zenon

\* The membership object takes only steps the store admits, of valid memberships,
\* whoever writes it (store.go, Update).
THEOREM TakesStepsOnly == Spec => StepsOnly
  <1>1. WantsInv => Steps!Starts
    BY SameRules, Zenon DEF WantsInv, ObjectOK, Steps!Starts
  <1>2. WantsInv /\ [NextState]_vars => [Steps!Changes]_m
    BY WantsNext, SameRules, Zenon DEF Admits, Steps!Changes
  <1> QED
    BY <1>1, <1>2, WantsInit, WantsNext, PTL DEF Spec, StepsOnly, Steps!Spec
=============================================================================
