------------------------------ MODULE Cluster -------------------------------
(***************************************************************************)
(* The membership object, the controllers that change it, the hosts that   *)
(* follow it, and the cloud that attaches the disks: membership/store.go,  *)
(* shardcontrol.go, attach.go, journals.go, the orchestrator's passes and  *)
(* host/journaldisks.go and host/shards.go.                                *)
(*                                                                         *)
(* A controller's pass surveys the host pods, reads the membership, lists  *)
(* the disks, makes one change by compare-and-set and then asks the cloud  *)
(* for what the membership calls for, call by call. A host reads the       *)
(* membership when it likes and opens and closes disks by its copy.        *)
(*                                                                         *)
(* A machine has one host pod at a time. A host with a cache disk of its    *)
(* own has the disk's identity, whichever pod it is; one without draws an   *)
(* identity for each process.                                              *)
(***************************************************************************)
EXTENDS Controller

CONSTANTS
    Controllers,
    OwnDisk,    \* [Machines -> Disks], the disk on a machine's own filesystem
    Bounds,     \* the scenarios: which parts the deployment has, and how often
                \* each event that comes from outside may happen
    MaximumGeneration   \* the generations they take

VARIABLES
    bound,      \* the scenario of this behaviour
    left,       \* what is left of its events
    drawn,      \* the identities drawn so far
    m,          \* the membership object
    pods,       \* a machine's pod as Kubernetes lists it
    node,       \* a machine's host process
    at,         \* the machine a disk is attached to
    exists,     \* the disks the cloud has
    made,       \* the disks it ever had
    lease,      \* the assignment in a disk's header
    live,       \* the journal disks that hold an answered flush no checkpoint covers
    ctl         \* a controller

vars == <<bound, left, drawn, m, pods, node, at, exists, made, lease, live, ctl>>
cloud == <<at, exists, made>>
world == <<bound, m, cloud, ctl>>
hosts == <<bound, drawn, pods, node, lease, live>>

EventNames == {"start", "crash", "terminate", "lose", "vm", "quiet", "expire", "fault", "controller"}

Shards == bound.shards
Spend(event) == left[event] > 0 /\ left' = [left EXCEPT ![event] = @ - 1]
Happens(event, k) == k \in bound.eventful /\ Spend(event)

None == [x \in {} |-> x]

IdleController ==
    [pc |-> "idle", report |-> None, leaving |-> {}, pool |-> {}, free |-> {}, want |-> None,
     read |-> Empty, deletes |-> {}, create |-> FALSE, detaches |-> {}, attaches |-> {}]

Stopped ==
    [up |-> FALSE, id |-> NoHost, address |-> 0, view |-> Empty, open |-> None, vm |-> "none", sampled |-> "no"]

\* A deployment that has run for a while: its hosts joined one after the other,
\* each with the journal disk made for it.
Rank(S, x) == Cardinality({y \in S : y <= x})
JournalOf(k) == CHOOSE d \in Journals : Rank(Journals, d) = Rank(Machines, k)
PerHost == IF bound.own THEN 6 ELSE 5
AssignedAt(k) == PerHost * Rank(bound.running, k) - 1
JoinedAt(k) == PerHost * (Rank(bound.running, k) - 1) + 1

ASSUME BoundsAssumption ==
    /\ \A k \in Machines : JournalOf(k) \in Journals /\ OwnDisk[k] \in Disks \ Journals
    /\ \A b \in Bounds :
        /\ b.running \subseteq Machines \cap Hosts /\ IsFiniteSet(b.running) /\ b.ids \subseteq Hosts
        /\ b.own \in BOOLEAN /\ (b.own => Machines \subseteq Hosts)
        /\ b.shards \subseteq Disks \ Journals /\ b.events \in [EventNames -> Nat]
        /\ b.controllers \subseteq Controllers

Held(assigned, k, machine) ==
    [state |-> "serving", member |-> k, assigned |-> assigned, machine |-> machine, empty |-> FALSE]

RunningDisk(d) ==
    CASE \E k \in bound.running : d = JournalOf(k) ->
            LET k == CHOOSE k \in bound.running : d = JournalOf(k) IN Held(AssignedAt(k), k, k)
      [] bound.own /\ \E k \in bound.running : d = OwnDisk[k] ->
            LET k == CHOOSE k \in bound.running : d = OwnDisk[k] IN Held(JoinedAt(k), k, NoMachine)
      [] OTHER -> Unlisted

Running ==
    [generation |-> PerHost * Cardinality(bound.running),
     member |-> [h \in Hosts |-> IF h \in bound.running THEN "active" ELSE "unlisted"],
     address |-> [h \in Hosts |-> 0],
     disk |-> [d \in Disks |-> RunningDisk(d)]]

RunningNode(k) ==
    [Stopped EXCEPT !.up = TRUE, !.id = k, !.view = Running,
                    !.open = [d \in {JournalOf(k)} |->
                        [assigned |-> AssignedAt(k), state |-> "serving", own |-> TRUE]]]

Init ==
    /\ bound \in Bounds
    /\ left = bound.events
    /\ drawn = bound.running
    /\ m = Running
    /\ pods = [k \in Machines |-> IF k \in bound.running THEN "listed" ELSE "none"]
    /\ node = [k \in Machines |-> IF k \in bound.running THEN RunningNode(k) ELSE Stopped]
    /\ at = [d \in Disks |-> IF \E k \in bound.running : d = JournalOf(k) THEN m.disk[d].member ELSE NoMachine]
    /\ made = bound.shards \cup bound.spare \cup {d \in Disks : at[d] # NoMachine}
    /\ exists = made
    /\ lease = [d \in Disks |-> IF d \in Journals THEN m.disk[d].assigned ELSE 0]
    /\ live = {}
    /\ ctl = [c \in Controllers |-> IdleController]

-----------------------------------------------------------------------------
(* Pods and processes.                                                     *)

Identities(k) == IF bound.own THEN {k} ELSE bound.ids \ drawn

\* A process starts: its host holds itself alone until it reads the membership.
Runs(k, address) ==
    \E h \in Identities(k) :
        /\ node' = [node EXCEPT ![k] = [Stopped EXCEPT !.up = TRUE, !.id = h, !.address = address]]
        /\ drawn' = drawn \cup {h}

\* A pod's address is its own.
Start(k) ==
    /\ k \in bound.machines /\ pods[k] = "none" /\ ~node[k].up /\ Spend("start")
    /\ pods' = [pods EXCEPT ![k] = "listed"]
    /\ Runs(k, left["start"])
    /\ UNCHANGED <<world, lease, live>>

\* The process dies under its pod, and is started again.
Crash(k) ==
    /\ node[k].up /\ pods[k] # "none" /\ Happens("crash", k)
    /\ node' = [node EXCEPT ![k] = [Stopped EXCEPT !.address = node[k].address]]
    /\ UNCHANGED <<world, drawn, pods, lease, live>>

Restart(k) ==
    /\ ~node[k].up /\ pods[k] = "listed"
    /\ Runs(k, node[k].address)
    /\ UNCHANGED <<world, left, pods, lease, live>>

\* A pod is deleted: it still answers until its process has stopped.
Terminate(k) ==
    /\ pods[k] = "listed" /\ Happens("terminate", k)
    /\ pods' = [pods EXCEPT ![k] = "terminating"]
    /\ UNCHANGED <<world, drawn, node, lease, live>>

Ended(k) ==
    /\ pods[k] = "terminating"
    /\ pods' = [pods EXCEPT ![k] = "none"]
    /\ node' = [node EXCEPT ![k] = Stopped]
    /\ UNCHANGED <<world, left, drawn, lease, live>>

\* A node is lost: Kubernetes forgets its pod, and the process is gone with it
\* or runs on where nobody lists it.
Lost(k) ==
    /\ pods[k] # "none" /\ Happens("lose", k)
    /\ pods' = [pods EXCEPT ![k] = "none"]
    /\ node' \in {node, [node EXCEPT ![k] = Stopped]}
    /\ UNCHANGED <<world, drawn, lease, live>>

Dies(k) ==
    /\ node[k].up /\ pods[k] = "none"
    /\ node' = [node EXCEPT ![k] = Stopped]
    /\ UNCHANGED <<world, left, drawn, pods, lease, live>>

-----------------------------------------------------------------------------
(* A host and its disks.                                                   *)

\* View.Refresh: a copy moves to a newer generation only.
Refresh(k) ==
    /\ node[k].up /\ m.generation > node[k].view.generation
    /\ node' = [node EXCEPT ![k].view = m]
    /\ UNCHANGED <<world, left, drawn, pods, lease, live>>

\* assigned, of a host's shards and of its journal disks.
Assigned(k, copy) ==
    {d \in AssignedTo(copy, node[k].id) :
        copy.disk[d].state \in (IF d \in Journals THEN HeldStates ELSE {"attaching", "serving"})}

\* A disk's device answers here, and its header's lease is still this one.
Leased(k, d) == at[d] = k /\ lease[d] = node[k].open[d].assigned

\* Mutant: a disk is opened by the copy held, without reading it again.
OpenableUnread(k, d) ==
    /\ d \in Assigned(k, node[k].view) /\ node[k].view.disk[d].state # "releasing"
    /\ at[d] = k

\* openDisk and openShard: the object read again still assigns the disk here
\* under the same generation, the device is attached, and its lease no newer.
Openable(k, d) ==
    LET wanted == node[k].view.disk[d]
    IN  /\ d \in Assigned(k, node[k].view) /\ wanted.state # "releasing"
        /\ d \in Assigned(k, m) /\ m.disk[d].assigned = wanted.assigned
        /\ at[d] = k /\ lease[d] <= wanted.assigned

Opened(k, wanted) ==
    [assigned |-> wanted.assigned, state |-> wanted.state, own |-> wanted.machine = k]

With(open, d, held) == [x \in DOMAIN open \cup {d} |-> IF x = d THEN held ELSE open[x]]
Without(open, d) == [x \in DOMAIN open \ {d} |-> open[x]]

Open(k, d) ==
    /\ node[k].up /\ d \notin DOMAIN node[k].open /\ Openable(k, d)
    /\ node' = [node EXCEPT ![k].view = m,
                            ![k].open = With(@, d, Opened(k, node[k].view.disk[d]))]
    /\ lease' = [lease EXCEPT ![d] = node[k].view.disk[d].assigned]
    /\ UNCHANGED <<world, left, drawn, pods, live>>

\* The pass closes a disk its copy no longer assigns it under the assignment it
\* is held under, or whose device or lease is gone.
CloseLost(k, d) ==
    /\ node[k].up /\ d \in DOMAIN node[k].open
    /\ \/ d \notin Assigned(k, node[k].view)
       \/ node[k].view.disk[d].assigned # node[k].open[d].assigned
       \/ ~Leased(k, d)
    /\ node' = [node EXCEPT ![k].open = Without(@, d)]
    /\ UNCHANGED <<world, left, drawn, pods, lease, live>>

HoldsStill(k, d) ==
    /\ node[k].up /\ d \in DOMAIN node[k].open \cap Journals \cap Assigned(k, node[k].view)
    /\ node[k].view.disk[d].assigned = node[k].open[d].assigned

\* A journal disk released and marked empty is closed, and opened again, where
\* it still can be, when the close finds it is not.
CloseEmpty(k, d) ==
    LET wanted == node[k].view.disk[d]
        closed == [node EXCEPT ![k].open = Without(@, d)]
        again == [node EXCEPT ![k].view = m, ![k].open = With(@, d, Opened(k, wanted))]
        reopens == d \in live /\ Leased(k, d) /\ d \in Assigned(k, m) /\ m.disk[d].assigned = wanted.assigned
    IN  /\ HoldsStill(k, d) /\ wanted.state = "releasing" /\ wanted.empty
        /\ node' \in {closed} \cup (IF reopens THEN {again} ELSE {})
        /\ UNCHANGED <<world, left, drawn, pods, lease, live>>

\* Otherwise the host holds it as its copy now has it.
Follow(k, d) ==
    LET wanted == node[k].view.disk[d]
    IN  /\ HoldsStill(k, d) /\ ~(wanted.state = "releasing" /\ wanted.empty) /\ Leased(k, d)
        /\ node[k].open[d].state # wanted.state
        /\ node' = [node EXCEPT ![k].open[d].state = wanted.state]
        /\ UNCHANGED <<world, left, drawn, pods, lease, live>>

-----------------------------------------------------------------------------
(* VMs and the flushes they are answered.                                  *)

Own(k) == {d \in DOMAIN node[k].open : node[k].open[d].own}

\* releasedLocked.
Released(k) == \E d \in Own(k) : node[k].open[d].state = "releasing"

\* Mutant: a host whose journal is released still lets a VM in.
AdmittedAnyway(k) == node[k].vm = "none"

Admitted(k) == node[k].vm = "none" /\ ~Released(k)

Admit(k) ==
    /\ node[k].up /\ Admitted(k) /\ Happens("vm", k)
    /\ node' = [node EXCEPT ![k].vm = "admitting"]
    /\ UNCHANGED <<world, drawn, pods, lease, live>>

Register(k) ==
    /\ node[k].up /\ node[k].vm = "admitting"
    /\ node' = [node EXCEPT ![k].vm = "running"]
    /\ UNCHANGED <<world, left, drawn, pods, lease, live>>

StopVM(k) ==
    /\ node[k].up /\ node[k].vm = "running"
    /\ node' = [node EXCEPT ![k].vm = "none"]
    /\ UNCHANGED <<world, left, drawn, pods, lease, live>>

\* A flush is answered: an entry is on the host's own journal disk.
Flush(k, d) ==
    /\ node[k].up /\ node[k].vm = "running" /\ d \in Own(k) \ live /\ Leased(k, d)
    /\ live' = live \cup {d}
    /\ UNCHANGED <<world, left, drawn, pods, node, lease>>

\* The disk's holder finds every entry covered by a checkpoint.
Trim(k, d) ==
    /\ node[k].up /\ d \in DOMAIN node[k].open \cap live /\ Leased(k, d)
    /\ live' = live \ {d}
    /\ UNCHANGED <<world, left, drawn, pods, node, lease>>

\* held reads which VMs run before it takes the disks' lock: a report may rest
\* on what was so some steps before.
SampleVMs(k) ==
    /\ "sampled" \in bound.allows /\ node[k].up /\ node[k].sampled = "no" /\ node[k].vm # "running"
    /\ node' = [node EXCEPT ![k].sampled = "idle"]
    /\ UNCHANGED <<world, left, drawn, pods, lease, live>>

\* held: a disk read for another is empty once its entries are; the host's own
\* only once it is released and no VM runs or is let in.
ReportsEmpty(k, d) ==
    LET running == node[k].vm = "running" /\ node[k].sampled # "idle"
    IN  /\ d \in Journals \ live
        /\ node[k].open[d].own =>
            node[k].open[d].state = "releasing" /\ ~running /\ node[k].vm # "admitting"

\* Member and MemberOf. The generation of the copy is read only beside a disk
\* the copy has releasing.
ReportOf(k) ==
    LET own == IF bound.own THEN {OwnDisk[k]} ELSE {}
        held == DOMAIN node[k].open \cup own
        copy == node[k].view
    IN  [id |-> node[k].id, address |-> node[k].address,
         machine |-> IF bound.journals \/ Shards # {} THEN k ELSE NoMachine,
         generation |-> IF \E d \in held : copy.disk[d].state = "releasing" THEN copy.generation ELSE 0,
         disks |-> [d \in held |->
            IF d \in own THEN [state |-> copy.disk[d].state, assigned |-> 0, empty |-> FALSE]
            ELSE [state |-> copy.disk[d].state, assigned |-> node[k].open[d].assigned,
                  empty |-> ReportsEmpty(k, d)]]]

-----------------------------------------------------------------------------
(* A controller's pass.                                                    *)

Idle(c) ==
    [ctl[c] EXCEPT !.pc = "idle", !.want = None, !.read = Empty, !.deletes = {}, !.create = FALSE,
                   !.detaches = {}, !.attaches = {}]

ListedPods == {k \in Machines : pods[k] # "none"}

\* noteMembers: a quiet pod keeps what it reported before, and one that is no
\* longer listed is forgotten. A host that is up may be quiet too.
Survey(c) ==
    /\ ctl[c].pc = "idle"
    /\ \E quiet \in SUBSET {k \in ListedPods : node[k].up} :
        /\ quiet # {} => left["quiet"] > 0
        /\ left' = [left EXCEPT !["quiet"] = IF quiet = {} THEN @ ELSE @ - 1]
        /\ LET answered == {k \in ListedPods : node[k].up} \ quiet
               kept == {k \in DOMAIN ctl[c].report \cap ListedPods :
                            ctl[c].report[k].address = node[k].address}
           IN  /\ ctl' = [ctl EXCEPT
                    ![c].pc = "surveyed",
                    ![c].report = [k \in kept \cup answered |->
                        IF k \in answered THEN ReportOf(k) ELSE ctl[c].report[k]],
                    ![c].leaving = {k \in Machines : pods[k] = "terminating"},
                    ![c].pool = IF bound.journals THEN ListedPods ELSE {}]
               /\ node' = [k \in Machines |->
                    IF k \in answered THEN [node[k] EXCEPT !.sampled = "no"] ELSE node[k]]
    /\ UNCHANGED <<bound, drawn, m, pods, cloud, lease, live>>

\* want: the member each pod reported.
Reported(c) == {ctl[c].report[k].id : k \in DOMAIN ctl[c].report}
PodOf(c, h) == CHOOSE k \in DOMAIN ctl[c].report : ctl[c].report[k].id = h

\* Pass reads the membership, describes the shards and lists the journal disks,
\* or the cloud fails to. The read comes first: the generation kept with a
\* listing may be older than the listing, which only adds less. A disk seen free
\* and empty by two passes, and by those between, may have been so long enough.
Describe(c) ==
    LET free == {d \in JournalDisks(m) : Free(m.disk[d]) /\ m.disk[d].empty}
    IN  /\ ctl[c].pc = "surveyed"
        /\ \E expired \in SUBSET (free \cap ctl[c].free), known \in BOOLEAN :
            /\ expired # {} => left["expire"] > 0
            /\ ~known => left["fault"] > 0
            /\ left' = [left EXCEPT !["expire"] = IF expired = {} THEN @ ELSE @ - 1,
                                    !["fault"] = IF known THEN @ ELSE @ - 1]
            /\ ctl' = [ctl EXCEPT
                ![c].pc = "updating", ![c].free = free,
                ![c].want = [hosts |-> Reported(c),
                             report |-> [h \in Reported(c) |-> ctl[c].report[PodOf(c, h)]],
                             leaving |-> {h \in Reported(c) : PodOf(c, h) \in ctl[c].leaving},
                             pool |-> ctl[c].pool, after |-> m.generation, expired |-> expired,
                             shards |-> IF known THEN Shards ELSE Shards \cap Listed(m),
                             known |-> IF known THEN exists ELSE {}, at |-> at,
                             journals |-> IF known THEN exists \cap Journals ELSE {},
                             journalsKnown |-> known]]
        /\ UNCHANGED <<hosts, m, cloud>>

\* The calls a pass makes of the cloud for the membership it left, or none.
Calling(c, next) ==
    LET w == ctl[c].want
        calls == [Idle(c) EXCEPT
            !.pc = "calling",
            !.deletes = CloudDeletes(next, w),
            !.create = w.journalsKnown /\ NeedsJournal(next, w),
            !.detaches = Detaches(next, w), !.attaches = Attaches(next, w)]
    IN  IF calls.deletes = {} /\ ~calls.create /\ calls.detaches = {} /\ calls.attaches = {}
        THEN Idle(c) ELSE calls

\* Store.Update reads the object, and finds the change made or has one to make.
UpdateReads(c) ==
    /\ ctl[c].pc = "updating"
    /\ ctl' = [ctl EXCEPT ![c] =
        IF Next(m, ctl[c].want) = {} THEN Calling(c, m) ELSE [ctl[c] EXCEPT !.pc = "writing", !.read = m]]
    /\ UNCHANGED <<hosts, left, m, cloud>>

\* Mutant: the write is unconditional.
WritableAnyway(c) == ctl[c].pc = "writing"

Writable(c) == ctl[c].pc = "writing" /\ m = ctl[c].read

\* The conditional write of a change Step admits. Its reply may be lost: read
\* back, it is found by its nonce, or cannot be told from others' changes.
UpdateWrites(c) ==
    /\ Writable(c)
    /\ \E next \in Next(ctl[c].read, ctl[c].want) :
        /\ Valid(next) /\ Step(ctl[c].read, next)
        /\ m' = next
        /\ \/ /\ ctl' = [ctl EXCEPT ![c] = Calling(c, next)]
              /\ UNCHANGED left
           \/ /\ Spend("fault")
              /\ ctl' = [ctl EXCEPT ![c].pc = "unsettled", ![c].read = next]
    /\ UNCHANGED <<hosts, cloud>>

UpdateReadsBack(c) ==
    /\ ctl[c].pc = "unsettled"
    /\ ctl' = [ctl EXCEPT ![c] =
        IF m = ctl[c].read THEN Calling(c, m) ELSE [ctl[c] EXCEPT !.pc = "updating", !.read = Empty]]
    /\ UNCHANGED <<hosts, left, m, cloud>>

\* Another writer's change landed: the same want, over a fresh read.
UpdateRaced(c) ==
    /\ ctl[c].pc = "writing" /\ m # ctl[c].read
    /\ ctl' = [ctl EXCEPT ![c].pc = "updating", ![c].read = Empty]
    /\ UNCHANGED <<hosts, left, m, cloud>>

\* Once its calls are made, a pass is over.
Called(c, rest) ==
    IF rest.deletes = {} /\ ~rest.create /\ rest.detaches = {} /\ rest.attaches = {}
    THEN [rest EXCEPT !.pc = "idle"] ELSE rest

\* A disk the cloud does not have, or has attached, is not deleted.
CallDelete(c) ==
    /\ \E d \in Least(ctl[c].deletes) :
        /\ exists' = IF at[d] = NoMachine THEN exists \ {d} ELSE exists
        /\ ctl' = [ctl EXCEPT ![c] = Called(c, [ctl[c] EXCEPT !.deletes = @ \ {d}])]
    /\ UNCHANGED <<hosts, left, m, at, made>>

\* A disk's name is drawn at random, so it is a new one.
CallCreate(c) ==
    /\ ctl[c].deletes = {} /\ ctl[c].create
    /\ \E d \in Least(Journals \ made) : exists' = exists \cup {d} /\ made' = made \cup {d}
    /\ ctl' = [ctl EXCEPT ![c] = Called(c, [ctl[c] EXCEPT !.create = FALSE])]
    /\ UNCHANGED <<hosts, left, m, at>>

\* Detaching a disk that is not attached there does nothing.
CallDetach(c) ==
    /\ ctl[c].deletes = {} /\ ~ctl[c].create
    /\ \E call \in ctl[c].detaches :
        /\ \A other \in ctl[c].detaches : call[1] <= other[1]
        /\ at' = [at EXCEPT ![call[1]] = IF @ = call[2] THEN NoMachine ELSE @]
        /\ ctl' = [ctl EXCEPT ![c] = Called(c, [ctl[c] EXCEPT !.detaches = @ \ {call}])]
    /\ UNCHANGED <<hosts, left, m, exists, made>>

\* A disk the cloud does not have, or has elsewhere, is not attached.
CallAttach(c) ==
    /\ ctl[c].deletes = {} /\ ~ctl[c].create /\ ctl[c].detaches = {}
    /\ \E call \in ctl[c].attaches :
        /\ \A other \in ctl[c].attaches : call[1] <= other[1]
        /\ at' = [at EXCEPT ![call[1]] = IF @ = NoMachine /\ call[1] \in exists THEN call[2] ELSE @]
        /\ ctl' = [ctl EXCEPT ![c] = Called(c, [ctl[c] EXCEPT !.attaches = @ \ {call}])]
    /\ UNCHANGED <<hosts, left, m, exists, made>>

\* Something of a pass fails, which ends it; or the controller starts again,
\* and has forgotten what it was told.
Aborts(c) ==
    /\ ctl[c].pc # "idle" /\ Spend("fault")
    /\ ctl' = [ctl EXCEPT ![c] = Idle(c)]
    /\ UNCHANGED <<hosts, m, cloud>>

StartsAgain(c) ==
    /\ Spend("controller")
    /\ ctl' = [ctl EXCEPT ![c] = IdleController]
    /\ UNCHANGED <<hosts, m, cloud>>

-----------------------------------------------------------------------------
HostSteps(k) ==
    \/ Restart(k) \/ Ended(k) \/ Refresh(k) \/ Register(k)
    \/ \E d \in Disks : Open(k, d) \/ CloseLost(k, d) \/ CloseEmpty(k, d) \/ Follow(k, d)

Events(k) ==
    \/ Start(k) \/ Crash(k) \/ Terminate(k) \/ Lost(k) \/ Dies(k)
    \/ Admit(k) \/ StopVM(k) \/ SampleVMs(k)
    \/ \E d \in Disks : Flush(k, d) \/ Trim(k, d)

Passes(c) ==
    \/ Survey(c) \/ Describe(c) \/ UpdateReads(c) \/ UpdateWrites(c)
    \/ UpdateReadsBack(c) \/ UpdateRaced(c)
    \/ CallDelete(c) \/ CallCreate(c) \/ CallDetach(c) \/ CallAttach(c)

NextState ==
    \/ \E k \in Machines : HostSteps(k) \/ Events(k)
    \/ \E c \in bound.controllers : Passes(c) \/ Aborts(c) \/ StartsAgain(c)

Spec == Init /\ [][NextState]_vars

\* Pods that crashed are started and terminated ones end; a host's timers read
\* the membership and take its passes. A controller always has a step to
\* take, and its passes go on.
FairSpec ==
    /\ Spec
    /\ \A k \in Machines : WF_vars(HostSteps(k))
    /\ \A c \in Controllers : c \in bound.controllers => []<><<Passes(c)>>_vars

-----------------------------------------------------------------------------
(* What the cluster promises.                                              *)

Steps ==
    INSTANCE MembershipSteps WITH
        Hosts <- Hosts, Machines <- Machines, Disks <- Disks, Journals <- Journals, m <- m

\* Type invariant: a process that runs is some member, and the disks it holds
\* open it holds in a state that has one.
TypeOK ==
    /\ m \in Memberships
    /\ pods \in [Machines -> {"none", "listed", "terminating"}]
    /\ at \in [Disks -> Machines \cup {NoMachine}] /\ exists \subseteq made /\ made \subseteq Disks
    /\ lease \in [Disks -> Nat] /\ live \subseteq Journals /\ drawn \subseteq Hosts
    /\ \A k \in Machines :
        /\ node[k].view \in Memberships /\ (node[k].up => node[k].id \in Hosts)
        /\ node[k].vm \in {"none", "admitting", "running"}
        /\ \A d \in DOMAIN node[k].open :
            d \in Disks /\ node[k].open[d].state \in HeldStates /\ node[k].open[d].assigned \in Nat

\* The object every controller writes over every other's changes still only
\* takes the steps the rules of the store admit, one generation at a time.
StepsOnly == Steps!Spec

\* A replay never passes over a disk that holds an answered flush: whatever
\* reports, marks and lost hosts came between, the membership says the disk
\* holds something to read.
AnsweredIsHeld == \A d \in live : Holds(m, d)

\* A host that can still write a disk, its device attached and its lease not
\* taken, is the member the membership assigns it to, under the assignment the
\* host holds it under.
WriterIsAssigned ==
    \A k \in Machines : \A d \in DOMAIN node[k].open :
        Leased(k, d) => m.disk[d].member = node[k].id /\ m.disk[d].assigned = node[k].open[d].assigned

\* A journal disk the membership lists, and does not delete, is one the cloud
\* has: a controller with an old listing never brings a deleted disk back.
ListedExists == \A d \in JournalDisks(m) : m.disk[d].state # "deleting" => d \in exists

\* A pass's change is never one the store refuses, however old what it wants:
\* a controller is never stuck asking for it again and again.
NeverRefused ==
    \A c \in Controllers : ctl[c].pc = "writing" =>
        \A next \in Next(ctl[c].read, ctl[c].want) : Valid(next) /\ Step(ctl[c].read, next)

\* However the passes interleave, they take so many generations and no more: no
\* two steps of Next, nor two controllers, undo each other for ever.
ComesToRest == m.generation <= MaximumGeneration

\* The host has its machine's journal open, and serves it.
Settled(k) ==
    \E d \in Own(k) : Leased(k, d) /\ m.disk[d].state = "serving" /\ m.disk[d].member = node[k].id

\* Every host that stays comes to have its machine's journal, whatever crashed,
\* fell quiet or was half done before: a machine without one is given one
\* (nextJournalStep, NeedsJournal).
HostsJournal ==
    <>[](bound.journals => \A k \in Machines : pods[k] = "listed" => Settled(k))

\* The answered flushes of a VM that no longer runs come to be served by a host
\* that stays: a disk that no member serves is still moving to one
\* (JournalHolder), and a recovery that waits for it ends.
FlushesServed ==
    LET running(d) == \E k \in Machines : d \in Own(k) /\ node[k].vm = "running"
    IN  <>[](\A d \in live : (\E k \in Machines : pods[k] = "listed") /\ ~running(d) => Served(m, d))

\* The cluster settles: whatever started, crashed, fell quiet or was lost, the
\* membership comes to rest listing only disks that exist, with every host that
\* stays journaling and every flush served.
ClusterSettles == [](TypeOK /\ ListedExists /\ ComesToRest) /\ HostsJournal /\ FlushesServed
=============================================================================
