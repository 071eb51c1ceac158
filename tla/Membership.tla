----------------------------- MODULE Membership -----------------------------
(***************************************************************************)
(* The membership object of membership/: which hosts are members, which    *)
(* disk each is assigned and since which generation, the changes that make *)
(* the next generation of it, and the rules by which Store.Update refuses  *)
(* one.                                                                    *)
(*                                                                         *)
(* Identities and machines are numbers, and a disk and its volume one; the *)
(* order of the numbers is the order of the identities and of the names.   *)
(* Windows are not ranked here, so weights and codes, and the changes that *)
(* only set them, are left out.                                            *)
(***************************************************************************)
EXTENDS Naturals, FiniteSets

CONSTANTS
    Hosts,      \* identities of hosts, and of the members they are
    Machines,   \* the machines they run on
    Disks,      \* disks of either kind
    Journals    \* the disks of kind Journal; the others are of kind Cache

NoHost == 0
NoMachine == 0

ASSUME HostsAssumption == Hosts \subseteq Nat \ {NoHost} /\ Machines \subseteq Nat \ {NoMachine}
ASSUME DisksAssumption == Disks \subseteq Nat \ {0} /\ Journals \subseteq Disks

MemberStates == {"unlisted", "joining", "active", "draining"}
HeldStates == {"attaching", "serving", "releasing"}
DiskStates == HeldStates \cup {"unlisted", "released", "deleting"}

\* DiskState is ordered as its constants are.
Order(state) ==
    CASE state = "attaching" -> 1 [] state = "serving" -> 2 [] state = "releasing" -> 3
      [] state = "released" -> 4 [] state = "deleting" -> 5 [] OTHER -> 0

Disk ==
    [state: DiskStates, member: Hosts \cup {NoHost}, assigned: Nat,
     machine: Machines \cup {NoMachine}, empty: BOOLEAN]

Unlisted ==
    [state |-> "unlisted", member |-> NoHost, assigned |-> 0, machine |-> NoMachine, empty |-> FALSE]

Memberships ==
    [generation: Nat, member: [Hosts -> MemberStates], address: [Hosts -> Nat], disk: [Disks -> Disk]]

Empty ==
    [generation |-> 0, member |-> [h \in Hosts |-> "unlisted"], address |-> [h \in Hosts |-> 0],
     disk |-> [d \in Disks |-> Unlisted]]

Members(m) == {h \in Hosts : m.member[h] # "unlisted"}
Listed(m) == {d \in Disks : m.disk[d].state # "unlisted"}
InState(m, states) == {d \in Disks : m.disk[d].state \in states}
AssignedTo(m, h) == {d \in Listed(m) : m.disk[d].member = h}

-----------------------------------------------------------------------------
(* The changes: each the membership at the next generation.                *)

Put(m, d, disk) == [m EXCEPT !.generation = @ + 1, !.disk = [@ EXCEPT ![d] = disk]]

Join(m, h, address, disks) ==
    [generation |-> m.generation + 1,
     member |-> [m.member EXCEPT ![h] = "joining"],
     address |-> [m.address EXCEPT ![h] = address],
     disk |-> [d \in Disks |->
        IF d \in disks
        THEN [Unlisted EXCEPT !.state = "attaching", !.member = h, !.assigned = m.generation + 1]
        ELSE m.disk[d]]]

Move(m, h, address) == [m EXCEPT !.generation = @ + 1, !.address = [@ EXCEPT ![h] = address]]

\* A cache disk is added holding nothing in particular, a journal disk empty.
Add(m, d) == Put(m, d, [Unlisted EXCEPT !.state = "released", !.empty = d \in Journals])

Serve(m, d) ==
    LET h == m.disk[d].member
    IN  [m EXCEPT !.generation = @ + 1,
                  !.member = [@ EXCEPT ![h] = IF m.member[h] = "joining" THEN "active" ELSE m.member[h]],
                  !.disk = [@ EXCEPT ![d] = [m.disk[d] EXCEPT !.state = "serving"]]]

Drain(m, h) ==
    [m EXCEPT !.generation = @ + 1, !.member = [@ EXCEPT ![h] = "draining"],
              !.disk = [d \in Disks |->
                IF m.disk[d].member = h /\ m.disk[d].state \in {"attaching", "serving"}
                THEN [m.disk[d] EXCEPT !.state = "releasing"] ELSE m.disk[d]]]

Release(m, d) == Put(m, d, [m.disk[d] EXCEPT !.state = "releasing"])

Let(m, d) ==
    Put(m, d, [m.disk[d] EXCEPT !.state = "released", !.member = NoHost, !.assigned = 0])

\* Mutant: a disk assigned again keeps the mark its last holder left.
AssignKeepsMark(m, d, h) ==
    Put(m, d, [m.disk[d] EXCEPT !.state = "attaching", !.member = h, !.assigned = m.generation + 1])

Assign(m, d, h) ==
    Put(m, d, [m.disk[d] EXCEPT !.state = "attaching", !.member = h, !.assigned = m.generation + 1,
                                !.empty = FALSE])

Reserve(m, d, machine) == Put(m, d, [m.disk[d] EXCEPT !.machine = machine])

MarkEmpty(m, d, empty) == Put(m, d, [m.disk[d] EXCEPT !.empty = empty])

Delete(m, d) == Put(m, d, [m.disk[d] EXCEPT !.state = "deleting"])

Remove(m, d) == Put(m, d, Unlisted)

Leave(m, h) ==
    [m EXCEPT !.generation = @ + 1, !.member = [@ EXCEPT ![h] = "unlisted"],
              !.address = [@ EXCEPT ![h] = 0]]

-----------------------------------------------------------------------------
(* What Store.Update refuses to write.                                     *)

\* New and checkDisk: a membership every host could route by.
ValidDisk(m, d) ==
    LET disk == m.disk[d]
    IN  /\ d \notin Journals =>
            disk.machine = NoMachine /\ ~disk.empty /\ disk.state # "deleting"
        /\ disk.state \in {"released", "deleting"} => disk.member = NoHost /\ disk.assigned = 0
        /\ disk.state \in HeldStates =>
            disk.member \in Members(m) /\ disk.assigned \in 1 .. m.generation

Valid(m) == \A d \in Listed(m) : ValidDisk(m, d)

\* stepJournal, for a disk that was listed.
StepJournal(was, disk) ==
    /\ disk.state = "deleting" /\ was.state # "deleting" => was.state = "released" /\ was.empty
    /\ ~(disk.state = "attaching" /\ was.state = "released" /\ disk.empty)
    /\ was.state = "deleting" => disk.state = "deleting"
    /\ disk.machine # was.machine => was.state = "released"

\* stepDisk: assigned only from released or as it is added, and otherwise
\* moved only forward under the member and the assignment it has.
StepDisk(next, was, disk) ==
    LET listed == was.state # "unlisted"
        assigning == disk.state = "attaching" /\ (~listed \/ was.member # disk.member)
    IN  /\ listed => StepJournal(was, disk)
        /\ CASE assigning -> /\ listed => was.state = "released"
                             /\ next.member[disk.member] # "draining"
                             /\ disk.assigned = next.generation
             [] ~assigning /\ ~listed -> disk.state = "released"
             [] ~assigning /\ listed /\ disk.state = "released" -> was.state \in {"releasing", "released"}
             [] ~assigning /\ listed /\ disk.state = "deleting" -> TRUE
             [] OTHER -> /\ disk.member = was.member /\ disk.assigned = was.assigned
                         /\ Order(disk.state) >= Order(was.state)

Step(current, next) ==
    /\ next.generation = current.generation + 1
    /\ \A d \in Listed(next) : StepDisk(next, current.disk[d], next.disk[d])
    /\ \A d \in Listed(current) \ Listed(next) :
        /\ current.disk[d].state \in {"released", "deleting"}
        /\ d \in Journals => current.disk[d].state = "deleting"
    /\ \A h \in Members(current) \ Members(next) : current.member[h] = "draining"

-----------------------------------------------------------------------------
(* Journal disks.                                                          *)

\* Released and reserved for no machine.
Free(disk) == disk.state = "released" /\ disk.machine = NoMachine

\* JournalHolder: whether a replay has anything to read on the disk, and
\* whether a member serves it.
Holds(m, d) ==
    LET disk == m.disk[d]
    IN  disk.state # "unlisted" /\ ~(disk.empty /\ disk.state \in {"released", "deleting"})

Served(m, d) == Holds(m, d) /\ m.disk[d].state = "serving"
=============================================================================
