---------------------------- MODULE StripeReads ----------------------------
(***************************************************************************)
(* A read of one page from the disks of the cluster (checkpoint/           *)
(* clusterread.go, stripe/stripe.go).  The read of its window takes the    *)
(* stripes this host's own disk holds, then asks k+1 of the window's       *)
(* ranks, one more for each that gives nothing, and the rest after a       *)
(* delay.  Under each code of the membership in turn, and again from the   *)
(* first under a newer generation when a holder says the read is stale.    *)
(* Past a bound its caller reads the store beside it.  A request outlives  *)
(* the read that made it, and its reply's buffer goes back to a pool.      *)
(***************************************************************************)
EXTENDS Integers, Sequences, FiniteSets, SequencesExt

CONSTANTS Peers,      \* the disks of other hosts
          Own,        \* the shard this host serves
          Codes,      \* the codes a window may be stored under, the deployment's first
          Ranks,      \* the ranks of the window: by generation, then the widest code's
          Scenarios,  \* what the disks hold, the generations of their hosts, those marked down, and the shard
          StaleRetries, \* staleRetries
          MaxReads    \* bound on the window reads of one read

Disks == Peers \cup {Own}
Width(c) == Codes[c].k + Codes[c].m
RanksOf(g, c) == SubSeq(Ranks[g], 1, IF Width(c) < Len(Ranks[g]) THEN Width(c) ELSE Len(Ranks[g]))
HolderOf(g, c, i) == RanksOf(g, c)[(i % Len(RanksOf(g, c))) + 1]

VARIABLES holds,   \* what each disk holds
          ahead,   \* the generation each disk's host holds
          down,    \* the disks marked down
          own,     \* this host's shard: its users, and whether it leaves or has left
          caller,  \* the caller of the read
          read,    \* the read of the window: its generation, code, tries and pages
          w,       \* the window read now
          reqs,    \* the requests, by window read and disk
          cancelled,
          sent     \* what repairs and refills were handed to the fills

vars == <<holds, ahead, down, own, caller, read, w, reqs, cancelled, sent>>

NoOut == [code |-> 0, view |-> 0]
Idle == [at |-> "idle", held |-> {}, tried |-> {}, out |-> NoOut, heard |-> {}, asked |-> {}, spares |-> {}, pending |-> {}, waited |-> FALSE]
Earlier == read.code > 1
K == Codes[read.code].k
TheRanks == RanksOf(read.gen, read.code)
Ranked == Range(TheRanks)

----------------------------------------------------------------------------
(* Rebuilding.                                                             *)

\* A stripe in hand: what it is, the disk it came from, and the window read
\* whose reply its bytes lie in, none for this host's own.
InHand(d, s, id) == [disk |-> d, stripe |-> s, id |-> id]
Rights(h) == {x \in h : x.stripe.right}
Indices(h) == {x.stripe.index : x \in h}
RebuildsUnchecked(h) == Cardinality(Indices(h)) >= K
\* stripe.Join, with the check of the envelope: k distinct right indices.
Rebuilds(h) == Cardinality(Indices(Rights(h))) >= K
\* join: under k = 1 the envelope of a peer's stripe lies in its reply, and is copied.
View(h) == 0
\* join: what is in hand is tried once.  Stripes rebuilding finds wrong are let
\* go; those of k = 1 alone are always told apart.
Join(v) ==
    IF v.out # NoOut \/ Cardinality(Indices(v.held)) < K \/ v.held = v.tried THEN {<<v, FALSE>>}
    ELSE LET wrongs == v.held \ Rights(v.held)
         IN IF Rebuilds(v.held)
            THEN {<<[v EXCEPT !.out = [code |-> read.code, view |-> ViewOf], !.held = v.held \ drop], FALSE>> :
                     ViewOf \in {View(v.held)}, drop \in {{}, wrongs}}
            ELSE LET kept == IF K = 1 THEN v.held \ wrongs ELSE v.held
                 IN {<<[v EXCEPT !.held = kept, !.tried = kept], TRUE>>}

\* repair: each index no rank holds, to the ranks that hold fewer than the
\* code puts on them, each offered its own first.
Share(d) == Cardinality({i \in 0..(Width(read.code) - 1) : HolderOf(read.gen, read.code, i) = d})
Answered(v, d) == {x[2] : x \in {y \in v.heard : y[1] = d /\ y[2] >= 0}}
HeardFrom(v) == {x[1] : x \in v.heard}
Preferred(d) == LET all == [i \in 1..Width(read.code) |-> i - 1]
                    Mine(i) == HolderOf(read.gen, read.code, i) = d
                    NotMine(i) == ~Mine(i)
                IN SelectSeq(all, Mine) \o SelectSeq(all, NotMine)
HeldAnywhere(v) == UNION {Answered(v, d) : d \in Ranked}
RepairsOf(v) ==
    LET Rank(acc, d) == FoldLeft(LAMBDA a, i : IF a.lacking <= 0 \/ i \in a.held \/ i \in Answered(v, d) THEN a
                                               ELSE [a EXCEPT !.held = @ \cup {i}, !.lacking = @ - 1, !.sends = @ \cup {<<d, i>>}],
                                 [acc EXCEPT !.lacking = Share(d) - Cardinality(Answered(v, d))], Preferred(d))
    IN FoldLeft(Rank, [held |-> HeldAnywhere(v), lacking |-> 0, sends |-> {}], TheRanks).sends
KnowsRanks(v) == \A d \in Ranked : d \in HeardFrom(v)
Repaired(v) == IF Earlier \/ v.out = NoOut \/ ~KnowsRanks(v) THEN {}
               ELSE {[gen |-> read.gen, disk |-> x[1], index |-> x[2], known |-> UNION {Answered(v, d) : d \in Ranked}] : x \in RepairsOf(v)}

----------------------------------------------------------------------------
(* Requests.                                                               *)

Ask(v, ds) == [v EXCEPT !.pending = @ \cup ds, !.asked = @ \cup ds, !.spares = @ \ ds]
Asked(ds) == reqs \cup {[id |-> read.reads, disk |-> d, at |-> "flight", gen |-> read.gen, code |-> read.code, reply |-> {}, stale |-> FALSE] : d \in ds}
MayAsk(v) == {d \in v.spares : d \notin down}
\* askNext: the next rank not marked down; those marked are passed over.
AskNext(v) == IF MayAsk(v) = {} THEN {<<[v EXCEPT !.spares = {}], {}>>} ELSE {<<Ask(v, {d}), {d}>> : d \in MayAsk(v)}
Finished(id) == id # read.reads \/ w.at = "idle"
\* deliver: the answer is the read's, or its buffer goes back at once.
Delivered(q, kind, reply, stale) == [q EXCEPT !.at = IF Finished(q.id) THEN "released" ELSE kind,
                                        !.reply = IF Finished(q.id) THEN {} ELSE reply, !.stale = stale]
Answer ==
    \E q \in {r \in reqs : r.at = "flight"} :
        /\ \/ reqs' = (reqs \ {q}) \cup {Delivered(q, "error", {}, FALSE)}
           \/ ahead[q.disk] > q.gen /\ reqs' = (reqs \ {q}) \cup {Delivered(q, "error", {}, TRUE)}
           \/ /\ ahead[q.disk] <= q.gen
              /\ reqs' = (reqs \ {q}) \cup {Delivered(q, "event", {s \in holds[q.disk] : s.code = q.code}, FALSE)}
        /\ UNCHANGED <<holds, ahead, down, own, caller, read, w, cancelled, sent>>

\* finish: the shard held, the replies taken and those not yet heard are given
\* back; a late answer is given back as it comes.
Freed(rs) == {IF r.id = read.reads /\ r.at \in {"event", "taken", "error"} THEN [r EXCEPT !.at = "released", !.reply = {}] ELSE r : r \in rs}
OwnGiven == IF own.users > 0 THEN [own EXCEPT !.users = @ - 1] ELSE own
Finish == w' = Idle /\ reqs' = Freed(reqs) /\ own' = OwnGiven

----------------------------------------------------------------------------
(* The read of the window.                                                 *)

\* readWindow, readCodes: a window read begins, this host's shard held for it.
Begins ==
    /\ w.at = "idle" /\ read.at = "codes" /\ read.code <= Len(Codes) /\ read.page = NoOut /\ ~cancelled
    /\ read.reads < MaxReads
    /\ read' = [read EXCEPT !.reads = @ + 1]
    /\ LET local == own.at = "kept"
           mine == IF local THEN {s \in holds[Own] : s.code = read.code} ELSE {}
           v == [Idle EXCEPT !.at = "own", !.held = {InHand(Own, s, 0) : s \in mine},
                             !.heard = IF local /\ Own \in Ranked THEN {<<Own, -1>>} \cup {<<Own, s.index>> : s \in mine} ELSE {}]
       IN /\ \E j \in Join(v) : w' = j[1]
          /\ own' = IF local THEN [own EXCEPT !.users = @ + 1] ELSE own
    /\ UNCHANGED <<holds, ahead, down, caller, reqs, cancelled, sent>>

\* run: k+1 of the ranks not this host's and not marked down, less its own
\* disk where it held stripes.
Asks ==
    /\ w.at = "own" /\ w.out = NoOut
    /\ LET others == Ranked \ (down \cup {Own})
           want == K + 1 - (IF Indices(w.held) # {} /\ Own \in Ranked THEN 1 ELSE 0)
           n == IF want < Cardinality(others) THEN want ELSE Cardinality(others)
       IN \E first \in {s \in SUBSET others : Cardinality(s) = n} :
             /\ w' = [Ask(w, first) EXCEPT !.at = "run", !.spares = others \ first]
             /\ reqs' = Asked(first)
    /\ UNCHANGED <<holds, ahead, down, own, caller, read, cancelled, sent>>

\* take, join, replace: one answer.
Hears ==
    \E q \in {r \in reqs : r.id = read.reads /\ r.at \in {"event", "error"}} :
        /\ w.at = "run" /\ w.out = NoOut /\ ~q.stale
        /\ LET took == {InHand(q.disk, s, q.id) : s \in q.reply}
               v == [w EXCEPT !.pending = @ \ {q.disk}, !.held = @ \cup took,
                              !.heard = IF q.at = "error" THEN @ ELSE @ \cup {<<q.disk, -1>>} \cup {<<q.disk, s.index>> : s \in q.reply}]
               rest == (reqs \ {q}) \cup {[q EXCEPT !.at = IF took = {} THEN "released" ELSE "taken", !.reply = {}]}
           IN \E n1 \in IF took = {} THEN AskNext(v) ELSE {<<v, {}>>} :
              \E j \in Join(n1[1]) :
              \E n2 \in IF j[2] THEN AskNext(j[1]) ELSE {<<j[1], {}>>} :
                 /\ w' = n2[1]
                 /\ reqs' = rest \cup (Asked(n1[2] \cup n2[2]) \ reqs)
        /\ UNCHANGED <<holds, ahead, down, own, caller, read, cancelled, sent>>
\* A holder ahead of the read: it starts again under the newer generation.
HearsStale ==
    \E q \in {r \in reqs : r.id = read.reads /\ r.at = "error" /\ r.stale} :
        /\ w.at = "run" /\ w.out = NoOut
        /\ Finish
        /\ IF read.tries < StaleRetries
           THEN \E g \in {ahead[q.disk], read.gen} :
                   read' = IF g > read.gen THEN [read EXCEPT !.gen = g, !.code = 1, !.tries = @ + 1]
                           ELSE [read EXCEPT !.at = "done"]
           ELSE read' = [read EXCEPT !.at = "done"]
        /\ UNCHANGED <<holds, ahead, down, caller, cancelled, sent>>

\* The delay passes: the rest are asked, if the budget holds a second request.
Delay ==
    /\ w.at = "run" /\ w.out = NoOut /\ ~w.waited /\ w.spares # {}
    /\ \E refused \in BOOLEAN :
          LET ds == IF refused THEN {} ELSE MayAsk(w)
          IN /\ w' = [Ask(w, ds) EXCEPT !.waited = TRUE, !.spares = IF refused THEN @ ELSE {}]
             /\ reqs' = Asked(ds)
    /\ UNCHANGED <<holds, ahead, down, own, caller, read, cancelled, sent>>

\* Nothing is on its way: the next rank is asked, or the code gives nothing.
NextCode == [read EXCEPT !.code = @ + 1, !.at = IF read.code = Len(Codes) THEN "done" ELSE "codes"]
RunsDry ==
    /\ w.at = "run" /\ w.out = NoOut /\ w.pending = {}
    /\ IF MayAsk(w) # {}
       THEN \E n \in AskNext(w) : w' = n[1] /\ reqs' = Asked(n[2]) /\ UNCHANGED <<own, read>>
       ELSE Finish /\ read' = NextCode
    /\ UNCHANGED <<holds, ahead, down, caller, cancelled, sent>>

\* The page is rebuilt.  With every rank asked and some still to answer, they
\* are heard behind the read, for the repair.
MayRepair == w.spares = {} /\ \A d \in Ranked : d \in HeardFrom(w) \cup w.asked
Completes ==
    /\ w.at \in {"own", "run"} /\ w.out # NoOut
    /\ read' = [read EXCEPT !.at = "done", !.page = w.out, !.right = Cardinality(Indices(Rights(w.held))) >= K]
    /\ \/ w.pending # {} /\ ~Earlier /\ MayRepair /\ w' = [w EXCEPT !.at = "rest"] /\ UNCHANGED <<reqs, own, sent>>
       \/ /\ ~(w.pending # {} /\ ~Earlier /\ MayRepair)
          /\ sent' = sent \cup Repaired(w)
          /\ Finish
    /\ UNCHANGED <<holds, ahead, down, caller, cancelled>>

\* hearRest.
HearsRest ==
    /\ w.at = "rest"
    /\ \/ \E q \in {r \in reqs : r.id = read.reads /\ r.at \in {"event", "error"}} :
             /\ w' = [w EXCEPT !.pending = @ \ {q.disk},
                               !.heard = IF q.at = "error" THEN @ ELSE @ \cup {<<q.disk, -1>>} \cup {<<q.disk, s.index>> : s \in q.reply}]
             /\ reqs' = (reqs \ {q}) \cup {[q EXCEPT !.at = "taken", !.reply = {}]}
             /\ UNCHANGED <<own, sent>>
       \/ w.pending = {} /\ sent' = sent \cup Repaired(w) /\ Finish
    /\ UNCHANGED <<holds, ahead, down, caller, read, cancelled>>

\* The caller's context ends, and the read of the window with it.
Cut ==
    /\ cancelled /\ w.at = "run" /\ w.out = NoOut
    /\ Finish /\ read' = [read EXCEPT !.at = "done"]
    /\ UNCHANGED <<holds, ahead, down, caller, cancelled, sent>>
Stops ==
    /\ w.at = "idle" /\ read.at = "codes" /\ (cancelled \/ read.reads = MaxReads)
    /\ read' = [read EXCEPT !.at = "done"]
    /\ UNCHANGED <<holds, ahead, down, own, caller, w, reqs, cancelled, sent>>

----------------------------------------------------------------------------
(* The caller, and the shard's leaving.                                    *)

\* read: the window's result, or the store's once the bound has passed.
Returns ==
    /\ caller.at = "waits" /\ read.at = "done"
    /\ caller' = [caller EXCEPT !.at = "done", !.got = IF read.page # NoOut THEN "cluster" ELSE "miss"]
    /\ UNCHANGED <<holds, ahead, down, own, read, w, reqs, cancelled, sent>>
Bound ==
    /\ caller.at = "waits" /\ caller.hedge = "no" /\ read.at # "done"
    /\ caller' \in {[caller EXCEPT !.hedge = "reads"], [caller EXCEPT !.hedge = "spent"]}
    /\ UNCHANGED <<holds, ahead, down, own, read, w, reqs, cancelled, sent>>
StoreAnswers ==
    /\ caller.hedge = "reads" /\ caller.at = "waits"
    /\ caller' \in {[caller EXCEPT !.hedge = "spent"], [caller EXCEPT !.at = "done", !.got = "store"]}
    /\ UNCHANGED <<holds, ahead, down, own, read, w, reqs, cancelled, sent>>
GivesUp ==
    /\ ~cancelled /\ cancelled' = TRUE
    /\ caller' = IF caller.at = "waits" THEN [caller EXCEPT !.at = "done", !.got = "error"] ELSE caller
    /\ UNCHANGED <<holds, ahead, down, own, read, w, reqs, sent>>

\* cluster.remove: no new request takes the shard, and it is closed once its
\* users are done.
Leaves == own.at = "kept" /\ own' = [own EXCEPT !.at = "leaving"] /\ UNCHANGED <<holds, ahead, down, caller, read, w, reqs, cancelled, sent>>
NoUsers == own.users = 0
Left == /\ own.at = "leaving" /\ NoUsers /\ own' = [own EXCEPT !.at = "left"]
        /\ UNCHANGED <<holds, ahead, down, caller, read, w, reqs, cancelled, sent>>

Init ==
    /\ \E s \in Scenarios : /\ holds = s.holds /\ ahead = s.ahead /\ down = s.down
                           /\ own = [users |-> 0, at |-> s.own]
    /\ caller = [at |-> "waits", hedge |-> "no", got |-> "none"]
    /\ read = [at |-> "codes", gen |-> 1, code |-> 1, tries |-> 0, reads |-> 0, page |-> NoOut, right |-> TRUE]
    /\ w = Idle /\ reqs = {} /\ cancelled = FALSE /\ sent = {}

WindowStep == Begins \/ Asks \/ Hears \/ HearsStale \/ RunsDry \/ Completes \/ HearsRest \/ Cut \/ Stops
Next == WindowStep \/ Delay \/ Answer \/ Returns \/ Bound \/ StoreAnswers \/ GivesUp \/ Leaves \/ Left
Spec == Init /\ [][Next]_vars

----------------------------------------------------------------------------
\* Every variable keeps its type (windowRead in clusterread.go).
TypeOK ==
    /\ w.at \in {"idle", "own", "run", "rest"} /\ w.asked \subseteq Disks /\ w.spares \cap w.asked = {}
    /\ own.users \in 0..1 /\ read.reads \in 0..MaxReads /\ read.code \in 1..(Len(Codes) + 1)
    /\ w.pending = {r.disk : r \in {q \in reqs : w.at # "idle" /\ q.id = read.reads /\ q.at \in {"flight", "event", "error"}}}

\* A page rebuilt is the page: k distinct stripes of it, all under the code
\* they were cut under (join, stripe.Join).
PagesRight == read.right

\* No stripe and no rebuilt page lies in a reply whose buffer went back to the
\* pool (take, finish, sharesReply).
NoUseAfterRelease ==
    /\ \A x \in w.held : x.id # 0 => \E r \in reqs : r.id = x.id /\ r.disk = x.disk /\ r.at = "taken"
    /\ read.page.view # 0 => \E r \in reqs : r.id = read.page.view /\ r.at = "taken"

\* A read that is over holds no reply: each was given back by its taker, by
\* finish, or as it came (deliver).
RepliesGivenBack == \A r \in reqs : Finished(r.id) => r.at \in {"flight", "released"}

\* This host's shard is closed only once no read uses it, and no read keeps it
\* when it is over (hold, finish, remove).
ShardHeldWhileRead ==
    /\ own.users = 1 => own.at # "left"
    /\ w.at = "idle" => own.users = 0

\* A miss of a code is a miss: every rank a request could reach was asked and
\* has answered, and what they sent holds fewer than k of the page's stripes.
MissesAreReal == [][(w.at = "run" /\ w'.at = "idle" /\ read'.code = read.code + 1) =>
    /\ \A d \in Ranked \ down : d # Own => d \in w.asked
    /\ w.pending = {} /\ ~Rebuilds(w.held)]_vars

\* A repair sends a rank only what no rank answered that it holds, each index
\* once, and only a read that heard every rank repairs (repair).
RepairsAreNew ==
    /\ \A x \in sent : x.index \notin x.known
    /\ \A x, y \in sent : x.gen = y.gen /\ x.index = y.index => x = y
RepairsKnowRanks == [][sent' # sent => \A d \in Ranked : d \in HeardFrom(w)]_vars

\* A read never waits with nothing on its way to end it, and neither does the
\* shard it holds once that is to leave (run, read, remove).
NothingStuck ==
    /\ caller.at = "waits" => ENABLED WindowStep \/ ENABLED Answer \/ ENABLED Returns
    /\ own.at = "leaving" => ENABLED WindowStep \/ ENABLED Answer \/ ENABLED Left
====
