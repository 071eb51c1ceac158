---------------------------- MODULE VmPlacement ----------------------------
(***************************************************************************)
(* Where one VM runs: the orchestrator's operations that move it           *)
(* (cmd/sproutfs-orchestrator/orchestrator.go), the table they read and    *)
(* write (table.go), the rule that ends a handover (internal/handover) and *)
(* the hosts' halves of a migration, a receive, an open and a stop         *)
(* (host/migrate.go, host/lifecycle_linux.go, host/fence.go).              *)
(*                                                                         *)
(* Nothing locks the VM. Each operation asks every host what it runs,      *)
(* serves and receives, each at its own moment, and acts on the answers;   *)
(* what stands between two of them is the row of the table, the epoch of   *)
(* the control record, and what a host refuses.                            *)
(*                                                                         *)
(* The guest's memory is the number of its last write; a checkpoint's      *)
(* sequence is the write it holds. Which page is where during a post-copy, *)
(* and a checkpoint taken during one, are not modelled.                    *)
(***************************************************************************)
EXTENDS Naturals, FiniteSets, TLC

CONSTANTS
    Hosts,      \* the host pods of the deployment
    Nobody,     \* no host, and no caller waiting
    Callers,    \* requests and reconciles the orchestrator serves at once
    MaxWrites,  \* writes of the guest no checkpoint has when they are made
    Budgets,    \* how many operations are asked, of which kinds, and how many lost
                \* answers, quiet hosts, refusals, losses and restarts there are
    MaxSurveys  \* surveys under way at once

Carry == "carry"        \* the handover the orchestrator drives (orchestrator.drive)
Procs == Callers \cup {Carry}
Versions == 0..MaxWrites
NoHandoff == [ckpt |-> 0, ver |-> 0, of |-> Nobody]

VARIABLES
    rec,     \* the control record: the host that took its epoch last, and the write
             \* its checkpoint holds
    host,    \* each host pod: its process, what it runs, serves and receives
    row,     \* the VM's row of the orchestrator's table
    proc,    \* the orchestrator's operations
    newest,  \* the guest's last write
    cause,   \* why that write may be gone: faults by design, and the ways named below
    left     \* how many operations and faults the run may still have

vars == <<rec, host, row, proc, newest, cause, left>>

\* A host that runs nothing. by is the caller waiting for what it is doing.
Idle == [pod |-> "up", mode |-> "none", sel |-> 0, ver |-> 0, whole |-> FALSE,
         past |-> FALSE, mig |-> FALSE, by |-> Nobody,
         held |-> NoHandoff, over |-> FALSE, owed |-> FALSE,
         recv |-> "no", hand |-> NoHandoff, reply |-> FALSE, asker |-> Nobody]

\* What a survey knows of one host.
Unasked == [at |-> "unasked", running |-> FALSE, serving |-> FALSE, receiving |-> FALSE, torn |-> FALSE]
NoView == [h \in Hosts |-> Unasked]

Resting == [at |-> "idle", kind |-> "none", view |-> NoView, moved |-> FALSE, source |-> Nobody,
            target |-> Nobody, hand |-> NoHandoff, begun |-> FALSE, acted |-> FALSE, outcome |-> "none", past |-> FALSE]

NoRow == [state |-> "absent", host |-> Nobody, to |-> Nobody, fresh |-> FALSE]
Row(state, h, to) == [state |-> state, host |-> h, to |-> to, fresh |-> state \in {"migrating", "opening"}]

Handoffs == [ckpt: Versions, ver: Versions, of: Hosts \cup {Nobody}]
Reports == [at: {"unasked", "half", "answered", "quiet", "unlisted"},
            running: BOOLEAN, serving: BOOLEAN, receiving: BOOLEAN, torn: BOOLEAN]

\* Every variable has the shape the code gives it.
TypeOK ==
    /\ rec \in [writer: Hosts, ver: Versions]
    /\ \A h \in Hosts :
         /\ host[h].pod \in {"up", "dead", "gone"}
         /\ host[h].mode \in {"none", "opening", "running"}
         /\ host[h].held \in Handoffs /\ host[h].hand \in Handoffs
         /\ host[h].recv \in {"no", "begun", "opened", "fetching"}
         /\ host[h].mig => host[h].mode = "running"
         /\ host[h].reply => host[h].recv = "fetching"
    /\ row.state \in {"absent", "running", "stopped", "migrating", "opening"}
    /\ \A p \in Procs : \A h \in Hosts : proc[p].view[h] \in Reports
    /\ proc[Carry].at \in {"idle", "migrate", "receive", "retry", "release", "epoch", "survey", "open"}
    /\ newest \in Versions

Init ==
    /\ \E first \in Hosts :
         /\ rec = [writer |-> first, ver |-> 0]
         /\ host = [h \in Hosts |-> IF h = first
                      THEN [Idle EXCEPT !.mode = "running", !.whole = TRUE] ELSE Idle]
         /\ row = Row("running", first, Nobody)
    /\ proc = [p \in Procs |-> Resting]
    /\ newest = 0 /\ cause = {}
    /\ left \in Budgets

Up(h) == host[h].pod = "up"
Serving(h) == host[h].held # NoHandoff
Fault == left.faults > 0 /\ left' = [left EXCEPT !.faults = @ - 1]
\* A host that runs the VM whole under the record's epoch: the VM's own guest.
Runs(h) == Up(h) /\ host[h].mode = "running" /\ host[h].whole /\ rec.writer = h

----------------------------------------------------------------------------
(* The table (table.go).                                                   *)

\* table.stillInFlight: an operation's row, young enough to believe.
InFlight(r) == r.state \in {"migrating", "opening"} /\ r.fresh

\* surveyed.accounted: a host whose silence about a VM means it does not run it.
Accounted(view, h) == h = Nobody \/ view[h].at \in {"answered", "unlisted"}

Claimants(view) == {h \in Hosts : view[h].running}
Quiet(view) == {h \in Hosts : view[h].at = "quiet"}
Receivers(view) == {h \in Hosts : view[h].receiving}
Holding(view) == {h \in Hosts : view[h].serving}
Answered(view) == {h \in Hosts : view[h].at = "answered"}

\* A row in flight is not believed to have ended where only one of its two
\* hosts answered.
SettledRow(view, r) == /\ ~InFlight(r) /\ r.host # Nobody
                       /\ Accounted(view, r.host) /\ Accounted(view, r.to)

\* table.reconcile of a survey: a VM a host runs is running there, and one
\* whose hosts accounted for themselves without it is stopped.
Observed(view, r) ==
    IF Claimants(view) # {} THEN {Row("running", h, Nobody) : h \in Claimants(view)}
    ELSE IF SettledRow(view, r) THEN {Row("stopped", Nobody, Nobody)} ELSE {r}

\* What Reconcile adds from the bucket's list: a row for a VM that has none.
FromBucket(view, r) ==
    IF r = NoRow /\ Claimants(view) = {} /\ Quiet(view) = {} THEN Row("stopped", Nobody, Nobody) ELSE r

----------------------------------------------------------------------------
(* A survey (orchestrator.fanOut, supervisor.Status).                      *)

\* The pods are listed once, as the survey begins.
Listing == [h \in Hosts |-> IF host[h].pod = "gone" THEN [Unasked EXCEPT !.at = "unlisted"] ELSE Unasked]

\* A receive is watched by surveys of its own (orchestrator.watchSource).
Surveys(p) == \/ proc[p].at \in {"survey", "retry"}
              \/ proc[p].at = "receive" /\ proc[p].outcome = "none"

\* Half of a host's status is read before the other: what it serves and
\* receives first, then what it runs. torn marks a report whose first half no
\* longer held when the second was read: a host that runs the VM and does not
\* say it is still receiving it, or that gave its guest up between the two.
FirstHalf(h) == [Unasked EXCEPT !.at = "half", !.serving = Serving(h), !.receiving = host[h].recv # "no"]
SecondHalf(h, report) == [report EXCEPT !.at = "answered", !.running = host[h].mode = "running",
                             !.torn = \/ host[h].recv = "fetching" /\ ~report.receiving
                                      \/ Serving(h) /\ ~report.serving]

Halves(h, report) == IF report.at = "unasked" THEN FirstHalf(h) ELSE SecondHalf(h, report)

\* A survey under way, from the first answer to what its caller does with it.
UnderWay(p) == Surveys(p) /\ \E h \in Hosts : proc[p].view[h].at \in {"half", "answered", "quiet"}
Room(p) == UnderWay(p) \/ Cardinality({q \in Procs : UnderWay(q)}) < MaxSurveys

Ask(p, h) ==
    /\ Surveys(p) /\ Room(p) /\ proc[p].view[h].at \in {"unasked", "half"} /\ Up(h)
    /\ proc' = [proc EXCEPT ![p].view[h] = Halves(h, @)]
    /\ UNCHANGED <<rec, host, row, newest, cause, left>>

\* A host that does not answer in time. A dead one never does.
Unanswered(p, h) ==
    /\ Surveys(p) /\ Room(p) /\ proc[p].view[h].at \in {"unasked", "half"}
    /\ IF Up(h) THEN Fault ELSE UNCHANGED left
    /\ proc' = [proc EXCEPT ![p].view[h] = [Unasked EXCEPT !.at = "quiet"]]
    /\ UNCHANGED <<rec, host, row, newest, cause>>

Surveyed(p) == Surveys(p) /\ ~proc[p].acted /\ \A h \in Hosts : proc[p].view[h].at \in {"answered", "quiet", "unlisted"}

\* What is done on a torn report is not done on the host's word.
Misread(p) == IF \E h \in Hosts : proc[p].view[h].torn THEN cause \cup {"stale"} ELSE cause

RunningSomewhere(view) == Quiet(view) # {} \/ Claimants(view) # {}

----------------------------------------------------------------------------
(* What a survey does with a VM a host still serves (orchestrator.release). *)

Dropped(s) == [s EXCEPT !.held = NoHandoff, !.owed = FALSE]
\* ReleaseMigrated: refused while the source's own book has a page outstanding.
Released(s) == IF s.owed THEN s ELSE Dropped(s)

\* Nothing is done for a VM whose operation may yet finish, or that a host is
\* still receiving.
LeftAlone(view, r) == InFlight(r) \/ Receivers(view) # {}

\* forsaken: no row names the VM, and no host may run it.
Forsaken(view, r) == ~RunningSomewhere(view) /\ r = NoRow

\* A quiet host may be running the VM, and no answering one says it does.
Unclear(view) == Quiet(view) # {} /\ Claimants(view) = {}

Served(view) == {h \in Hosts : view[h].serving /\ Up(h)}
Destinations(view, from) == {t \in Answered(view) : t # from}

\* The survey has written the table; its caller goes on from here.
Writes(p, r) == row' = IF proc[p].kind = "sweep" THEN FromBucket(proc[p].view, r) ELSE r
Acted(p) == [proc EXCEPT ![p].acted = TRUE]

Leaves(p) ==
    /\ Surveyed(p)
    /\ \E r \in Observed(proc[p].view, row) :
         /\ \/ LeftAlone(proc[p].view, r) \/ Served(proc[p].view) = {}
            \/ ~Forsaken(proc[p].view, r) /\ Unclear(proc[p].view)
         /\ Writes(p, r)
    /\ proc' = Acted(p)
    /\ UNCHANGED <<rec, host, newest, cause, left>>

GivesUp(p) ==
    /\ Surveyed(p) /\ Served(proc[p].view) # {}
    /\ \E r \in Observed(proc[p].view, row) :
         /\ ~LeftAlone(proc[p].view, r) /\ Forsaken(proc[p].view, r)
         /\ Writes(p, r)
    /\ host' = [h \in Hosts |-> IF h \in Served(proc[p].view) THEN Dropped(host[h]) ELSE host[h]]
    /\ cause' = IF \E h \in Served(proc[p].view) : Serving(h) THEN cause \cup {"forsaken"} ELSE cause
    /\ proc' = Acted(p)
    /\ UNCHANGED <<rec, newest, left>>

\* The handover of a VM nothing runs, as a carry that starts at its receive.
Carrying(at, s, t, hand) ==
    [Resting EXCEPT !.at = at, !.kind = at, !.source = s, !.target = t, !.hand = hand, !.view = Listing]

\* resume: the handover is taken up where nothing drives it and a host can take
\* it. The handoff is the one its source holds now (Host.Handed).
TakesUp(p) ==
    /\ Surveyed(p) /\ ~RunningSomewhere(proc[p].view)
    /\ \E r \in Observed(proc[p].view, row), h \in Served(proc[p].view) :
         /\ ~LeftAlone(proc[p].view, r) /\ r # NoRow
         /\ \/ /\ proc[Carry].at # "idle" \/ ~Serving(h) \/ Destinations(proc[p].view, h) = {}
               /\ Writes(p, r) /\ proc' = Acted(p)
            \/ /\ proc[Carry].at = "idle" /\ Serving(h)
               /\ \E t \in Destinations(proc[p].view, h) :
                    /\ row' = Row("migrating", h, t)
                    /\ proc' = [Acted(p) EXCEPT ![Carry] = Carrying("receive", h, t, host[h].held)]
    /\ UNCHANGED <<rec, host, newest, cause, left>>

Releases(p) ==
    /\ Surveyed(p) /\ RunningSomewhere(proc[p].view) /\ ~Unclear(proc[p].view) /\ Served(proc[p].view) # {}
    /\ \E r \in Observed(proc[p].view, row) :
         /\ ~LeftAlone(proc[p].view, r)
         /\ Writes(p, r)
    /\ host' = [h \in Hosts |-> IF h \in Served(proc[p].view) THEN Released(host[h]) ELSE host[h]]
    /\ cause' = Misread(p)
    /\ proc' = Acted(p)
    /\ UNCHANGED <<rec, newest, left>>

----------------------------------------------------------------------------
(* The operations' own decisions.                                          *)

Decides(p, at) == proc[p].at = at /\ proc[p].acted
View(p) == proc[p].view

\* An operation is asked: a migration, a stop or a reopen, or the reconcile's turn.
Begin(p, kind) ==
    /\ proc[p] = Resting /\ kind \in left.kinds
    /\ IF kind = "sweep" THEN UNCHANGED left ELSE left.ops > 0 /\ left' = [left EXCEPT !.ops = @ - 1]
    /\ proc' = [proc EXCEPT ![p] = [Resting EXCEPT !.kind = kind,
          !.at = IF kind \in {"recover", "force", "start"} THEN "epoch" ELSE "survey", !.view = Listing]]
    /\ UNCHANGED <<rec, host, row, newest, cause>>

\* reopen reads the record's epoch before it surveys.
ReadsEpoch(p) ==
    /\ proc[p].at = "epoch"
    /\ proc' = [proc EXCEPT ![p].at = "survey", ![p].moved = FALSE, ![p].view = Listing]
    /\ UNCHANGED <<rec, host, row, newest, cause, left>>

Ends(p) == proc' = [proc EXCEPT ![p] = Resting]
Refuses(p) == Ends(p) /\ UNCHANGED <<rec, host, row, newest, cause, left>>

Sweeps(p) == Decides(p, "survey") /\ proc[p].kind = "sweep" /\ Refuses(p)

\* runner: the one host that says it runs the VM.
Runner(view, h) == Claimants(view) = {h}

\* Migrate: the source is asked to stop the guest, under the drive of a carry.
Migrates(p) ==
    /\ Decides(p, "survey") /\ proc[p].kind = "migrate"
    /\ \/ /\ proc[Carry].at = "idle"
          /\ \E s \in Hosts : Runner(View(p), s) /\ \E t \in Destinations(View(p), s) :
               /\ row' = Row("migrating", s, t)
               /\ proc' = [proc EXCEPT ![p] = Resting,
                                       ![Carry] = [Carrying("migrate", s, t, NoHandoff) EXCEPT !.view = NoView]]
          /\ UNCHANGED <<rec, host, newest, cause, left>>
       \/ /\ \/ Cardinality(Claimants(View(p))) # 1 \/ proc[Carry].at # "idle"
             \/ \A s \in Claimants(View(p)) : Destinations(View(p), s) = {}
          /\ Refuses(p)

\* Stop: the host that runs the VM publishes it and closes it.
Stops(p) ==
    /\ Decides(p, "survey") /\ proc[p].kind = "stop"
    /\ \/ /\ \E s \in Hosts :
               /\ Runner(View(p), s)
               /\ proc' = [proc EXCEPT ![p] = [Resting EXCEPT !.kind = "stop", !.at = "stop", !.target = s]]
          /\ UNCHANGED <<rec, host, row, newest, cause, left>>
       \/ Cardinality(Claimants(View(p))) # 1 /\ Refuses(p)

Waits(p) == Holding(View(p)) # {} \/ Receivers(View(p)) # {}

\* The hosts whose silence may be a guest: every quiet one but the host the
\* guest was handed over from.
MayRun(p) == Quiet(View(p)) \ (IF p = Carry THEN {proc[p].source} ELSE {})

\* A mutant of Answers: a recovery that a quiet host does not refuse.
AnswersAny(p) == TRUE

\* What a reopen needs of the hosts that did not answer: nothing for a forced
\* one, whose operator saw their processes gone, a row that says stopped for a
\* start, and that there are none for a recovery.
Answers(p) ==
    \/ MayRun(p) = {}
    \/ proc[p].kind = "force" /\ \A h \in MayRun(p) : ~Up(h)
    \/ proc[p].kind = "start" /\ row.state = "stopped"

\* A mutant of MayOpen: the open of a VM a source still serves.
MayOpenServed(p) == Claimants(View(p)) = {} /\ Receivers(View(p)) = {} /\ ~InFlight(row) /\ Answers(p)

MayOpen(p) == Claimants(View(p)) = {} /\ ~Waits(p) /\ ~InFlight(row) /\ Answers(p)

Reopens(p) == proc[p].kind \in {"recover", "force", "start"} \/ p = Carry

\* reopen: the VM is opened on a host that answered, or the reopen is refused.
\* The recovery after a lost source waits for the source and for a receive.
Opens(p) ==
    /\ Decides(p, "survey") /\ Reopens(p)
    /\ \/ /\ MayOpen(p)
          /\ \E t \in Answered(View(p)) :
               /\ row' = Row("opening", t, Nobody)
               /\ proc' = [proc EXCEPT ![p] = [@ EXCEPT !.at = "open", !.target = t, !.view = NoView,
                                                        !.acted = FALSE, !.past = MayRun(p) # {}]]
          /\ cause' = Misread(p)
          /\ UNCHANGED <<rec, host, newest, left>>
       \/ (~MayOpen(p) \/ Answered(View(p)) = {}) /\ Refuses(p)
       \/ /\ p = Carry /\ Claimants(View(p)) = {} /\ Waits(p)
          /\ proc' = [proc EXCEPT ![p].at = "epoch", ![p].acted = FALSE, ![p].view = NoView]
          /\ UNCHANGED <<rec, host, row, newest, cause, left>>
----------------------------------------------------------------------------
(* The handover a carry drives (orchestrator.carry, handOver, retry).      *)

\* The source's answer: it handed the VM over, or the row says it runs there still.
Handed ==
    /\ proc[Carry].at = "migrate" /\ proc[Carry].outcome # "none"
    /\ LET c == proc[Carry] IN
       IF c.outcome = "ok"
       THEN proc' = [proc EXCEPT ![Carry] = Carrying("receive", c.source, c.target, c.hand)] /\ UNCHANGED row
       ELSE row' = Row("running", c.source, Nobody) /\ Ends(Carry)
    /\ UNCHANGED <<rec, host, newest, cause, left>>

\* hold.Gone: the pages are no longer there, and silence is no evidence of it.
Gone(view, s) ==
    \/ view[s].at = "unlisted"
    \/ view[s].at = "answered" /\ ~view[s].serving /\ ~view[s].running
    \/ host[s].over

\* Whoever waited for what the hosts do for p no longer does.
Unheard(p) == [h \in Hosts |-> [host[h] EXCEPT
                  !.by = IF @ = p THEN Nobody ELSE @, !.asker = IF @ = p THEN Nobody ELSE @]]

Carried(at) == [proc[Carry] EXCEPT !.at = at, !.view = Listing, !.acted = FALSE, !.begun = FALSE, !.outcome = "none"]

\* The watch of a receive in flight: the row is written again, and a source
\* that no longer has the pages ends the receive and begins the recovery.
Watches ==
    /\ Decides(Carry, "receive") /\ proc[Carry].outcome = "none"
    /\ IF Gone(View(Carry), proc[Carry].source)
       THEN /\ row' = Row("stopped", Nobody, Nobody)
            /\ host' = Unheard(Carry)
            /\ proc' = [proc EXCEPT ![Carry] = Carried("epoch")]
       ELSE /\ row' = Row("migrating", proc[Carry].source, proc[Carry].target)
            /\ proc' = [proc EXCEPT ![Carry].view = Listing, ![Carry].acted = FALSE]
            /\ UNCHANGED host
    /\ UNCHANGED <<rec, newest, cause, left>>

\* The receive's answer: the VM runs there and the source is released, or the
\* handover looks for what became of it. last keeps what the answer was.
Lands(h) == [proc[Carry] EXCEPT !.at = "release", !.target = h, !.view = NoView, !.acted = FALSE, !.begun = FALSE]

Receives ==
    /\ proc[Carry].at = "receive" /\ proc[Carry].outcome # "none"
    /\ IF proc[Carry].outcome = "ok"
       THEN /\ row' = Row("running", proc[Carry].target, Nobody)
            /\ proc' = [proc EXCEPT ![Carry] = Lands(proc[Carry].target)]
       ELSE /\ row' = Row("migrating", proc[Carry].source, proc[Carry].target)
            /\ proc' = [proc EXCEPT ![Carry] = [Carried("retry") EXCEPT !.outcome = proc[Carry].outcome]]
    /\ UNCHANGED <<rec, host, newest, cause, left>>

\* A receive whose answer never came, of a host that is quiet now.
Unsettled(view) == proc[Carry].outcome = "lost" /\ view[proc[Carry].target].at = "quiet"

\* Another receive is sent only past a failed host that answers, and beside none.
Retriable(view) == view[proc[Carry].target].at # "quiet" /\ Receivers(view) = {}

Landed(view, h) == Runner(view, h)
Contested(view) == Cardinality(Claimants(view)) > 1

\* retry: what one look after a failed receive does.
Retries ==
    /\ Decides(Carry, "retry")
    /\ LET c == proc[Carry]
           view == c.view IN
       \/ \E h \in Hosts :
             /\ Landed(view, h)
             /\ row' = Row("running", h, Nobody)
             /\ proc' = [proc EXCEPT ![Carry] = Lands(h)]
             /\ cause' = cause \cup (IF view[h].receiving THEN {"early"} ELSE {})
       \/ /\ \/ Contested(view)
             \/ (\A h \in Hosts : ~Landed(view, h)) /\ Gone(view, c.source) /\ Unsettled(view)
          /\ row' = IF Contested(view) THEN Row("stopped", Nobody, Nobody) ELSE Row("migrating", c.source, c.target)
          /\ Ends(Carry) /\ UNCHANGED cause
       \/ /\ ~Contested(view) /\ \A h \in Hosts : ~Landed(view, h)
          /\ \/ /\ Gone(view, c.source) /\ ~Unsettled(view)
                /\ row' = Row("stopped", Nobody, Nobody)
                /\ proc' = [proc EXCEPT ![Carry] = Carried("epoch")]
             \/ /\ ~Gone(view, c.source) /\ Retriable(view)
                /\ \E t \in Destinations(view, c.source) :
                     /\ row' = Row("migrating", c.source, t)
                     /\ proc' = [proc EXCEPT ![Carry] = Carrying("receive", c.source, t, c.hand)]
             \/ /\ ~Gone(view, c.source)
                /\ ~Retriable(view) \/ Destinations(view, c.source) = {}
                /\ row' = Row("migrating", c.source, c.target)
                /\ proc' = [proc EXCEPT ![Carry].view = Listing, ![Carry].acted = FALSE]
          /\ UNCHANGED cause
    /\ UNCHANGED <<rec, host, newest, left>>

\* The handover landed: its source is told once, and a refusal ends it there.
TellsSource ==
    /\ proc[Carry].at = "release"
    /\ LET s == proc[Carry].source IN
       host' = IF Up(s) THEN [host EXCEPT ![s] = Released(@)] ELSE host
    /\ Ends(Carry)
    /\ UNCHANGED <<rec, row, newest, cause, left>>

\* The open's answer: the row says where the VM runs, or that a host refused it.
\* One whose answer never came keeps its row in flight.
Opened(p) ==
    /\ proc[p].at = "open" /\ proc[p].outcome # "none"
    /\ row' = IF proc[p].outcome = "ok" THEN Row("running", proc[p].target, Nobody)
              ELSE IF proc[p].outcome = "refused" THEN Row("stopped", Nobody, Nobody) ELSE row
    /\ Ends(p)
    /\ UNCHANGED <<rec, host, newest, cause, left>>

Stopped(p) ==
    /\ proc[p].at = "stop" /\ proc[p].outcome # "none"
    /\ row' = IF proc[p].outcome = "ok" THEN Row("stopped", Nobody, Nobody) ELSE row
    /\ Ends(p)
    /\ UNCHANGED <<rec, host, newest, cause, left>>
----------------------------------------------------------------------------
(* The hosts' halves.                                                      *)

Answer(p, outcome) == IF p = Nobody THEN proc ELSE [proc EXCEPT ![p].outcome = outcome]
Empty(h) == host[h].mode = "none" /\ host[h].recv # "opened"
\* An open takes the record's next epoch: whoever held the one before is fenced,
\* and an epoch read before is no longer the record's.
Took(h) == [rec EXCEPT !.writer = h]
Moved(procs) == [p \in Procs |->
    IF Reopens(p) /\ procs[p].at \in {"survey", "open"} THEN [procs[p] EXCEPT !.moved = TRUE] ELSE procs[p]]
NoGuest(s) == [s EXCEPT !.mode = "none", !.sel = 0, !.ver = 0, !.whole = FALSE, !.past = FALSE,
                        !.mig = FALSE, !.by = Nobody]
NoReceive(s) == [s EXCEPT !.recv = "no", !.hand = NoHandoff, !.reply = FALSE, !.asker = Nobody]

\* Host.migrate's guards: the VM runs here, no handover of it is under way, and
\* the record is still this host's (confirmHandoff).
Confirms(h) == host[h].mode = "running" /\ ~host[h].mig /\ rec.writer = h

BeginsMigration(h) ==
    /\ proc[Carry].at = "migrate" /\ proc[Carry].source = h /\ ~proc[Carry].begun /\ Up(h)
    /\ proc[Carry].outcome = "none"
    /\ IF Confirms(h)
       THEN host' = [host EXCEPT ![h].mig = TRUE, ![h].by = Carry] /\ proc' = [proc EXCEPT ![Carry].begun = TRUE]
       ELSE proc' = Answer(Carry, "refused") /\ UNCHANGED host
    /\ UNCHANGED <<rec, row, newest, cause, left>>

\* vmmigrate.Migrate: the guest is stopped, its pages are kept and served, and
\* what the destination must fetch is what no checkpoint of it has.
HandsOver(h) ==
    /\ Up(h) /\ host[h].mig
    /\ LET hand == [ckpt |-> host[h].sel, ver |-> host[h].ver, of |-> h] IN
       /\ host' = [host EXCEPT ![h] = [NoGuest(@) EXCEPT !.held = hand, !.over = FALSE,
                                        !.owed = hand.ver # hand.ckpt]]
       /\ proc' = IF host[h].by = Nobody THEN proc
                  ELSE [proc EXCEPT ![host[h].by].outcome = "ok", ![host[h].by].hand = hand]
       /\ cause' = IF host[h].whole THEN cause ELSE cause \cup {"half"}
    /\ UNCHANGED <<rec, row, newest, left>>

\* A stop that failed before the handoff leaves the VM running here; one that
\* failed after a region gave its volume up gives the VM up.
FailsMigration(h) ==
    /\ Up(h) /\ host[h].mig /\ Fault
    /\ \/ host' = [host EXCEPT ![h].mig = FALSE, ![h].by = Nobody] /\ UNCHANGED cause
       \/ host' = [host EXCEPT ![h] = NoGuest(@)] /\ cause' = cause \cup {"fault"}
    /\ proc' = Answer(host[h].by, "refused")
    /\ UNCHANGED <<rec, row, newest>>

\* Host.receive: one receive of a VM at a time.
BeginsReceive(h) ==
    /\ proc[Carry].at = "receive" /\ proc[Carry].target = h /\ ~proc[Carry].begun /\ Up(h)
    /\ proc[Carry].outcome = "none"
    /\ IF host[h].recv = "no"
       THEN /\ host' = [host EXCEPT ![h].recv = "begun", ![h].hand = proc[Carry].hand, ![h].asker = Carry]
            /\ proc' = [proc EXCEPT ![Carry].begun = TRUE]
       ELSE proc' = Answer(Carry, "refused") /\ UNCHANGED host
    /\ UNCHANGED <<rec, row, newest, cause, left>>

\* A mutant of SameCheckpoint: the record the open found is not compared.
SameAny(h) == TRUE

\* vmmigrate.open: the record selects the checkpoint the handoff was taken at.
SameCheckpoint(h) == rec.ver = host[h].hand.ckpt

Source(h) == host[h].hand.of
Holds(h) == Up(Source(h)) /\ host[Source(h)].held = host[h].hand

\* The receive opens the VM, which takes the epoch, and refuses a record that
\* selects another checkpoint than the handoff names. One of pages its source no
\* longer has is too late: whoever opened the VM meanwhile is fenced by it.
OpensReceived(h) ==
    /\ Up(h) /\ host[h].recv = "begun"
    /\ IF Empty(h)
       THEN /\ rec' = Took(h)
            /\ IF SameCheckpoint(h)
               THEN host' = [host EXCEPT ![h].recv = "opened"] /\ proc' = Moved(proc)
               ELSE host' = [host EXCEPT ![h] = NoReceive(@)] /\ proc' = Moved(Answer(host[h].asker, "refused"))
       ELSE /\ host' = [host EXCEPT ![h] = NoReceive(@)] /\ proc' = Answer(host[h].asker, "refused")
            /\ UNCHANGED rec
    /\ cause' = IF Empty(h) /\ ~Holds(h) THEN cause \cup {"fault"} ELSE cause
    /\ UNCHANGED <<row, newest, left>>

\* The VMM starts from the handoff's state and is registered: the guest runs,
\* short of the pages only its source has.
StartsReceived(h) ==
    /\ Up(h) /\ host[h].recv = "opened"
    /\ host' = [host EXCEPT ![h] = [@ EXCEPT !.recv = "fetching", !.mode = "running", !.sel = host[h].hand.ckpt,
                     !.ver = host[h].hand.ver, !.whole = host[h].hand.ver = host[h].hand.ckpt]]
    /\ UNCHANGED <<rec, row, proc, newest, cause, left>>

\* The source's reply leaves, and its pages are off the source's book.
Replies(h) ==
    /\ Up(h) /\ host[h].recv = "fetching" /\ ~host[h].whole /\ ~host[h].reply /\ host[h].mode = "running"
    /\ Holds(h)
    /\ host' = [host EXCEPT ![Source(h)].owed = FALSE, ![h].reply = TRUE]
    /\ UNCHANGED <<rec, row, proc, newest, cause, left>>

Installs(h) ==
    /\ Up(h) /\ host[h].reply /\ host[h].mode = "running"
    /\ host' = [host EXCEPT ![h].reply = FALSE, ![h].whole = TRUE]
    /\ UNCHANGED <<rec, row, proc, newest, cause, left>>

\* The reply is lost on its way; the destination asks again.
LosesReply(h) ==
    /\ Up(h) /\ host[h].reply /\ Fault
    /\ host' = [host EXCEPT ![h].reply = FALSE]
    /\ UNCHANGED <<rec, row, proc, newest, cause>>

\* Received.Done: every page is here, and the receive answers.
FinishesReceive(h) ==
    /\ Up(h) /\ host[h].recv = "fetching" /\ host[h].whole /\ host[h].mode = "running"
    /\ host' = [host EXCEPT ![h] = NoReceive(@)]
    /\ proc' = Answer(host[h].asker, "ok")
    /\ UNCHANGED <<rec, row, newest, cause, left>>

\* A receive fails: its caller is gone, its guest was given up, its source
\* answers that it serves the VM no more, or anything else goes wrong. The
\* guest is discarded without publishing (discardReceived), with what it stored
\* here.
FailsReceive(h) ==
    /\ Up(h) /\ host[h].recv # "no"
    /\ IF \/ host[h].asker = Nobody
          \/ host[h].recv = "fetching" /\ host[h].mode # "running"
          \/ host[h].recv = "fetching" /\ ~host[h].whole /\ ~host[h].reply /\ Up(Source(h)) /\ ~Holds(h)
       THEN UNCHANGED left ELSE Fault
    /\ host' = [host EXCEPT ![h] = NoReceive(IF @.recv = "begun" THEN @ ELSE NoGuest(@))]
    /\ cause' = IF host[h].mode = "running" /\ host[h].ver # host[h].hand.ver THEN cause \cup {"fault"} ELSE cause
    /\ proc' = Answer(host[h].asker, "refused")
    /\ UNCHANGED <<rec, row, newest>>

\* OpenAfter: the open takes the epoch after the one its caller read.
AtEpoch(p) == ~proc[p].moved

\* Host.Open: the epoch is taken first, and the guest runs once it has booted.
TakesOpen(p, h) ==
    /\ proc[p].at = "open" /\ proc[p].target = h /\ ~proc[p].begun /\ proc[p].outcome = "none" /\ Up(h)
    /\ IF AtEpoch(p) /\ Empty(h)
       THEN /\ rec' = Took(h)
            /\ host' = [host EXCEPT ![h] = [@ EXCEPT !.mode = "opening", !.sel = rec.ver,
                             !.ver = rec.ver, !.past = proc[p].past, !.by = p]]
            /\ proc' = Moved([proc EXCEPT ![p].begun = TRUE])
       ELSE proc' = Answer(p, "refused") /\ UNCHANGED <<rec, host>>
    /\ UNCHANGED <<row, newest, cause, left>>

Boots(h) ==
    /\ Up(h) /\ host[h].mode = "opening"
    /\ host' = [host EXCEPT ![h] = [@ EXCEPT !.mode = "running", !.whole = TRUE, !.by = Nobody, !.past = FALSE]]
    /\ proc' = Answer(host[h].by, "ok")
    /\ UNCHANGED <<rec, row, newest, cause, left>>

FailsOpen(h) ==
    /\ Up(h) /\ host[h].mode = "opening" /\ Fault
    /\ host' = [host EXCEPT ![h] = NoGuest(@)]
    /\ proc' = Answer(host[h].by, "refused")
    /\ UNCHANGED <<rec, row, newest, cause>>

\* Host.Stop: everything the guest holds is published, and the VM is closed.
StopsGuest(p, h) ==
    /\ proc[p].at = "stop" /\ proc[p].target = h /\ proc[p].outcome = "none" /\ Up(h)
    /\ IF host[h].mode = "running" /\ ~host[h].mig /\ rec.writer = h
       THEN /\ host' = [host EXCEPT ![h] = NoGuest(@)]
            /\ rec' = IF host[h].whole THEN [rec EXCEPT !.ver = host[h].ver] ELSE rec
            /\ cause' = IF host[h].whole THEN cause ELSE cause \cup {"half"}
            /\ proc' = Answer(p, "ok")
       ELSE proc' = Answer(p, "refused") /\ UNCHANGED <<rec, host, cause>>
    /\ UNCHANGED <<row, newest, left>>
----------------------------------------------------------------------------
(* The guest, its checkpoints, and what the deployment suffers.            *)

\* The VM's own guest stores. What a fenced guest stores is never the VM's.
Write(h) ==
    /\ Runs(h) /\ newest < MaxWrites
    /\ newest' = newest + 1 /\ cause' = cause \cap {"stale"}
    /\ host' = [host EXCEPT ![h].ver = newest + 1]
    /\ UNCHANGED <<rec, row, proc, left>>

\* The interval checkpoint, which a migration ends before it stops the guest.
Checkpoint(h) ==
    /\ Runs(h) /\ ~host[h].mig /\ host[h].ver # rec.ver
    /\ rec' = [rec EXCEPT !.ver = host[h].ver]
    /\ host' = [host EXCEPT ![h].sel = host[h].ver]
    /\ UNCHANGED <<row, proc, newest, cause, left>>

\* Host.fence: a host that reads another epoch in the record gives the VM up.
Fence(h) ==
    /\ Up(h) /\ host[h].mode = "running" /\ rec.writer # h
    /\ host' = [host EXCEPT ![h] = NoGuest(@)]
    /\ proc' = Answer(host[h].by, "refused")
    /\ UNCHANGED <<rec, row, newest, cause, left>>

\* The source's hold is over, by its own clock and by the clock of whoever
\* counts it; its timer gives the pages up after that (Host.expire).
HoldEnds(h) ==
    /\ Serving(h) /\ ~host[h].over /\ Fault
    /\ host' = [host EXCEPT ![h].over = TRUE]
    /\ cause' = cause \cup {"fault"}
    /\ UNCHANGED <<rec, row, proc, newest>>

Expire(h) ==
    /\ Up(h) /\ Serving(h) /\ host[h].over
    /\ host' = [host EXCEPT ![h] = Dropped(@)]
    /\ UNCHANGED <<rec, row, proc, newest, cause, left>>

\* A host's process dies, or its pod is deleted (orchestrator.Kill), or only
\* the VMM of the guest it runs ends. Its answers never come.
Loss(h) == IF host[h].mode = "running" \/ Serving(h) THEN cause' = cause \cup {"fault"} ELSE UNCHANGED cause
Silent(h) == [p \in Procs |-> [proc[p] EXCEPT
    !.outcome = IF p \in {host[h].by, host[h].asker} THEN "lost" ELSE @,
    !.view[h] = IF @.at = "half" THEN [Unasked EXCEPT !.at = "quiet"] ELSE @]]

Dies(h) ==
    /\ Up(h) /\ Fault /\ Loss(h)
    /\ \E pod \in {"dead", "gone"} : host' = [host EXCEPT ![h] = [Idle EXCEPT !.pod = pod, !.over = host[h].over]]
    /\ proc' = Silent(h)
    /\ UNCHANGED <<rec, row, newest>>

ComesBack(h) ==
    /\ host[h].pod = "dead"
    /\ host' = [host EXCEPT ![h].pod = "up"]
    /\ UNCHANGED <<rec, row, proc, newest, cause, left>>

GuestEnds(h) ==
    /\ Up(h) /\ host[h].mode = "running" /\ ~host[h].mig /\ Fault
    /\ host' = [host EXCEPT ![h] = NoGuest(@)]
    /\ cause' = cause \cup {"fault"}
    /\ UNCHANGED <<rec, row, proc, newest>>

\* A call whose answer never comes. What its host began goes on there.
LosesAnswer(p) ==
    /\ proc[p].at \in {"migrate", "receive", "open", "stop"} /\ proc[p].outcome = "none"
    /\ LET asked == IF proc[p].at = "migrate" THEN proc[p].source ELSE proc[p].target IN
       IF Up(asked) THEN Fault ELSE UNCHANGED left
    /\ proc' = [proc EXCEPT ![p].outcome = "lost"]
    /\ host' = Unheard(p)
    /\ UNCHANGED <<rec, row, newest, cause>>

\* The row of an operation that no longer writes it again is believed no more.
Age ==
    /\ row.fresh /\ proc[Carry].at \notin {"receive", "retry"}
    /\ row' = [row EXCEPT !.fresh = FALSE]
    /\ UNCHANGED <<rec, host, proc, newest, cause, left>>

\* The orchestrator restarts, with its table or, on another node, without.
RestartsOrchestrator ==
    /\ Fault
    /\ proc' = [p \in Procs |-> Resting]
    /\ host' = [h \in Hosts |-> [host[h] EXCEPT !.by = Nobody, !.asker = Nobody]]
    /\ row' \in {row, NoRow}
    /\ UNCHANGED <<rec, newest, cause>>

Kinds == {"migrate", "stop", "recover", "force", "start"}

Orchestrates(p) ==
    \/ \E h \in Hosts : Ask(p, h) \/ Unanswered(p, h)
    \/ Leaves(p) \/ GivesUp(p) \/ TakesUp(p) \/ Releases(p)
    \/ ReadsEpoch(p) \/ Opens(p) \/ Opened(p)
    \/ \E h \in Hosts : TakesOpen(p, h)

Serves(p) == Orchestrates(p) \/ Sweeps(p) \/ Migrates(p) \/ Stops(p) \/ Stopped(p) \/ \E h \in Hosts : StopsGuest(p, h)
Drives == Orchestrates(Carry) \/ Handed \/ Watches \/ Receives \/ Retries \/ TellsSource
Works(h) == \/ BeginsMigration(h) \/ HandsOver(h) \/ BeginsReceive(h) \/ OpensReceived(h) \/ StartsReceived(h)
            \/ Replies(h) \/ Installs(h) \/ FinishesReceive(h) \/ FailsReceive(h) \/ Boots(h) \/ Fence(h) \/ Expire(h)

Next ==
    \/ \E p \in Callers : Serves(p) \/ \E kind \in Kinds \cup {"sweep"} : Begin(p, kind)
    \/ Drives \/ Age \/ RestartsOrchestrator
    \/ \E p \in Procs : LosesAnswer(p)
    \/ \E h \in Hosts :
         \/ Works(h) \/ Write(h) \/ Checkpoint(h) \/ FailsMigration(h) \/ LosesReply(h) \/ FailsOpen(h)
         \/ HoldEnds(h) \/ Dies(h) \/ ComesBack(h) \/ GuestEnds(h)

Spec == Init /\ [][Next]_vars

----------------------------------------------------------------------------
\* The guest's last write is always somewhere: in the checkpoint, with the host
\* that runs the VM, or with the source that serves its pages. Losing it takes
\* a lost host, guest or hold, or one of the ways cause names.
WritesHeld ==
    \/ cause # {} \/ newest = rec.ver
    \/ \E h \in Hosts : \/ (Up(h) /\ Serving(h) /\ host[h].held.ver = newest)
                         \/ (Runs(h) /\ host[h].ver = newest)
                         \/ (host[h].reply /\ host[h].hand.ver = newest)

\* A host that runs the VM whole has its last write: no open and no receive
\* brings the guest back behind what it stored.
RunsNewest == \A h \in Hosts : Runs(h) /\ cause = {} => host[h].ver = newest

\* No open and no receive takes the epoch from under the guest of a host that
\* runs the VM. There are three ways it happens all the same: a start goes past
\* a quiet host on the row's word, a receive is late for pages its source lost,
\* or a report was torn.
NoGuestFenced ==
    [][\A h \in Hosts : rec'.writer = h /\ rec.writer # h =>
         \/ "stale" \in cause \/ \A g \in Hosts : ~Runs(g)
         \/ host'[h].mode = "opening" /\ host'[h].past
         \/ host[h].recv = "begun" /\ ~Holds(h)]_vars

-----------------------------------------------------------------------------
(* For TLC: one operation and a fault, two operations without one, and a   *)
(* stop and a start with a fault.                                          *)

HostSymmetry == Permutations(Hosts)
All == Kinds \cup {"sweep"}
BudgetsOfRuns == {[ops |-> 1, faults |-> 1, kinds |-> All],
                  [ops |-> 2, faults |-> 0, kinds |-> All],
                  [ops |-> 2, faults |-> 1, kinds |-> {"stop", "start", "sweep"}]}
=============================================================================
