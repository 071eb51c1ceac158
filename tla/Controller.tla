----------------------------- MODULE Controller -----------------------------
(***************************************************************************)
(* What a controller decides: the one change Next makes of a membership    *)
(* towards what the controller wants, and the calls of the cloud that      *)
(* carry a membership out. Where the code walks a list in identity order   *)
(* and takes the first that qualifies, this takes the least.               *)
(*                                                                         *)
(* A want is the hosts that reported themselves and what each reported     *)
(* last, the ones leaving, the pool of machines, the shards and the journal *)
(* disks as the cloud listed them, and where it has each.                  *)
(***************************************************************************)
EXTENDS Membership, Sequences

\* A report's disks are the ones its host holds, each with its state in the
\* host's copy, the assignment it is held under and whether it is empty.
Reports ==
    [id: Hosts, machine: Machines \cup {NoMachine}, address: Nat, generation: Nat,
     disks: UNION {[S -> [state: DiskStates, assigned: Nat, empty: BOOLEAN]] : S \in SUBSET Disks}]

Least(S) == {x \in S : \A y \in S : x <= y}

Holding(w, h, d) == h \in w.hosts /\ d \in DOMAIN w.report[h].disks
Reporter(w, d) == Least({h \in w.hosts : Holding(w, h, d)})
IsShard(w, d) == d \in w.shards \cup w.journals
JournalDisks(m) == Journals \cap Listed(m)

-----------------------------------------------------------------------------
(* Steps 1 to 8 of Next.                                                   *)

Drains(m, w) ==
    {Drain(m, h) : h \in Least({x \in Members(m) :
        (x \notin w.hosts \/ x \in w.leaving) /\ m.member[x] # "draining"})}

\* readRelease: the host's copy is of this assignment, and has it releasing.
ReadRelease(m, w, d) ==
    LET h == m.disk[d].member
    IN  /\ Holding(w, h, d) /\ w.report[h].generation >= m.disk[d].assigned
        /\ w.report[h].disks[d].state = "releasing"

\* Nobody serves the disk: a shard or a journal disk its holder has closed and
\* the cloud has on no machine, or a host's own disk.
Gone(m, w, d) ==
    IF IsShard(w, d)
    THEN ~Holding(w, m.disk[d].member, d) /\ d \in w.known /\ w.at[d] = NoMachine
    ELSE m.disk[d].member \notin w.hosts \/ ReadRelease(m, w, d)

Lets(m, w) == {Let(m, d) : d \in Least({x \in InState(m, {"releasing"}) : Gone(m, w, x)})}

Removes(m, w) ==
    {Remove(m, d) : d \in Least({x \in InState(m, {"released"}) \ Journals :
        ~IsShard(w, x) /\ Reporter(w, x) = {}})}

Adds(m, w) == {Add(m, d) : d \in Least(w.shards \ Listed(m))}

Leaves(m, w) ==
    {Leave(m, h) : h \in Least({x \in Members(m) : m.member[x] = "draining" /\ AssignedTo(m, x) = {}})}

Joins(m, w) ==
    {Join(m, h, w.report[h].address,
          {d \in DOMAIN w.report[h].disks \ Journals :
            /\ ~IsShard(w, d) /\ Reporter(w, d) = {h}
            /\ m.disk[d].state \in {"unlisted", "released"}}) :
        h \in Least((w.hosts \ w.leaving) \ Members(m))}

Moves(m, w) ==
    {Move(m, h, w.report[h].address) : h \in Least({x \in Members(m) \cap w.hosts :
        m.address[x] # w.report[x].address /\ m.member[x] # "draining"})}

Serves(m, w) ==
    {Serve(m, d) : d \in Least({x \in InState(m, {"attaching"}) : Reporter(w, x) = {m.disk[x].member}})}

-----------------------------------------------------------------------------
(* nextJournalStep.                                                        *)

JournalAdds(m, w) ==
    {Add(m, d) : d \in {x \in w.journals \ Listed(m) : m.generation <= w.after}}

JournalRemoves(m, w) ==
    {Remove(m, d) : d \in Least({x \in JournalDisks(m) :
        m.disk[x].state = "deleting" /\ w.journalsKnown /\ x \notin w.journals})}

JournalDeletes(m, w) ==
    {Delete(m, d) : d \in Least({x \in JournalDisks(m) :
        Free(m.disk[x]) /\ m.disk[x].empty /\ x \in w.expired})}

\* A member serves the disk on a machine it is not reserved for.
Reading(m, w, d) ==
    m.disk[d].state = "serving" /\ m.disk[d].machine # w.report[m.disk[d].member].machine

\* The mark differs from what the holder reports of this assignment.
Misreported(m, w, d) ==
    LET disk == m.disk[d]
        held == w.report[disk.member].disks[d]
    IN  /\ disk.state \in {"serving", "releasing"} /\ Holding(w, disk.member, d)
        /\ held.assigned = disk.assigned
        /\ \/ (Reading(m, w, d) \/ disk.state = "releasing") /\ held.empty /\ ~disk.empty
           \/ ~held.empty /\ disk.empty

Marks(m, w) ==
    {MarkEmpty(m, d, ~m.disk[d].empty) : d \in Least({x \in JournalDisks(m) : Misreported(m, w, x)})}

ReadOut(m, w) ==
    {Release(m, d) : d \in Least({x \in JournalDisks(m) :
        m.disk[x].member \in w.hosts /\ Reading(m, w, x) /\ m.disk[x].empty})}

\* Mutant: only the empty disks of a machine that is gone are reserved for none.
UnreservesEmpty(m, w) ==
    {Reserve(m, d, NoMachine) : d \in Least({x \in JournalDisks(m) :
        /\ m.disk[x].state = "released" /\ m.disk[x].empty
        /\ m.disk[x].machine \notin w.pool \cup {NoMachine}})}

Unreserves(m, w) ==
    {Reserve(m, d, NoMachine) : d \in Least({x \in JournalDisks(m) :
        m.disk[x].state = "released" /\ m.disk[x].machine \notin w.pool \cup {NoMachine}})}

Lacking(m, w) == {machine \in w.pool : \A d \in JournalDisks(m) : m.disk[d].machine # machine}

Reserves(m, w) ==
    {Reserve(m, d, machine) : machine \in Least(Lacking(m, w)),
                              d \in Least({x \in JournalDisks(m) : Free(m.disk[x]) /\ m.disk[x].empty})}

\* The members that may be assigned a disk.
Takers(m, w) ==
    {h \in Members(m) : /\ m.member[h] # "draining" /\ h \in w.hosts \ w.leaving
                        /\ w.report[h].machine # NoMachine}

HoldsOwn(m, h, machine) ==
    \E d \in JournalDisks(m) :
        m.disk[d].member = h /\ m.disk[d].machine = machine /\ m.disk[d].state # "released"

Owns(m, w) ==
    LET reserved(h) == {d \in JournalDisks(m) :
            m.disk[d].state = "released" /\ m.disk[d].machine = w.report[h].machine}
    IN  UNION {{Assign(m, d, h) : d \in Least(reserved(h))} :
            h \in Least({x \in Takers(m, w) : ~HoldsOwn(m, x, w.report[x].machine) /\ reserved(x) # {}})}

\* The member of those given with the fewest of some disks.
Fewest(m, members, disks) ==
    LET load(h) == Cardinality(AssignedTo(m, h) \cap disks)
    IN  Least({h \in members : \A x \in members : load(h) <= load(x)})

Reads(m, w) ==
    {Assign(m, d, h) : d \in Least({x \in JournalDisks(m) : Free(m.disk[x]) /\ ~m.disk[x].empty}),
                       h \in Fewest(m, Takers(m, w), Journals)}

-----------------------------------------------------------------------------
(* nextShardMove.                                                          *)

ShardAssigns(m, w) ==
    {Assign(m, d, h) : d \in Least(w.shards \cap InState(m, {"released"})),
                       h \in Fewest(m, Takers(m, w), w.shards)}

\* While no shard moves, the member with two more than another gives one up.
Spreads(m, w) ==
    LET load(h) == Cardinality(AssignedTo(m, h) \cap w.shards)
        most == Least({h \in Takers(m, w) : \A x \in Takers(m, w) : load(h) >= load(x)})
    IN  IF w.shards \cap InState(m, {"attaching", "releasing", "released"}) # {} THEN {}
        ELSE {Release(m, d) : d \in UNION {Least(AssignedTo(m, h) \cap w.shards \cap InState(m, {"serving"})) :
                h \in {x \in most : \E y \in Takers(m, w) : load(x) >= load(y) + 2}}}

\* The first step that has anything to do: a set of one membership, or of none.
Next(m, w) ==
    LET steps == <<Drains(m, w), Lets(m, w), Removes(m, w), Adds(m, w), Leaves(m, w), Joins(m, w),
                   Moves(m, w), Serves(m, w), JournalAdds(m, w), JournalRemoves(m, w),
                   JournalDeletes(m, w), Marks(m, w), ReadOut(m, w), Unreserves(m, w), Reserves(m, w),
                   Owns(m, w), Reads(m, w), ShardAssigns(m, w), Spreads(m, w)>>
        taken == {i \in DOMAIN steps : steps[i] # {}}
    IN  UNION {steps[i] : i \in Least(taken)}

-----------------------------------------------------------------------------
(* What the cloud is asked for a membership left by a pass.                *)

\* The machine a disk belongs on.
Target(m, w, d) ==
    LET disk == m.disk[d]
    IN  CASE disk.state \in {"attaching", "serving"} /\ disk.member \in w.hosts -> w.report[disk.member].machine
          [] disk.state = "released" /\ disk.machine \in w.pool -> disk.machine
          [] OTHER -> NoMachine

\* Whether it stays where it is: its member is not wanted, or still holds it.
Kept(m, w, d) ==
    \/ m.disk[d].state \in {"attaching", "serving"} /\ Target(m, w, d) = NoMachine
    \/ m.disk[d].state = "releasing" /\ Holding(w, m.disk[d].member, d)

Carried(m, w) == {d \in w.known : ~Kept(m, w, d) /\ w.at[d] # Target(m, w, d)}

Detaches(m, w) == {<<d, w.at[d]>> : d \in {x \in Carried(m, w) : w.at[x] # NoMachine}}
Attaches(m, w) == {<<d, Target(m, w, d)>> : d \in {x \in Carried(m, w) : Target(m, w, x) # NoMachine}}

CloudDeletes(m, w) == {d \in w.journals : m.disk[d].state = "deleting"}

\* A machine of the pool lacks a disk, and none is on its way to being free.
NeedsJournal(m, w) ==
    Cardinality(Lacking(m, w)) >
        Cardinality({d \in JournalDisks(m) :
            m.disk[d].state = "released" /\ m.disk[d].machine \notin w.pool /\ m.disk[d].empty})
        + Cardinality(w.journals \ Listed(m))
=============================================================================
