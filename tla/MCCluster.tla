----------------------------- MODULE MCCluster ------------------------------
(* The cluster on small instances.                                         *)
EXTENDS Cluster, TLC

NoEvents == [e \in EventNames |-> 0]

\* Hosts that journal draw three identities, and shard hosts two.
Bound(machines, running, controllers, shards, own, journals, spare, allows, events) ==
    [machines |-> machines, eventful |-> {1}, running |-> running, controllers |-> controllers, shards |-> shards, own |-> own,
     ids |-> IF shards = {} THEN Hosts ELSE {1, 2},
     journals |-> journals, spare |-> spare, allows |-> allows, events |-> events @@ NoEvents]

Cached(machines, events) == Bound(machines, {}, {1}, {}, TRUE, FALSE, {}, {}, events)
Sharded(machines, shards, events) == Bound(machines, {}, {1}, shards, FALSE, FALSE, {}, {}, events)
Steady(machines, controllers, spare, events) ==
    Bound(machines, machines, controllers, {}, FALSE, TRUE, spare, {}, events)
SteadyOwn(machines, spare, events) == Bound(machines, machines, {1}, {}, TRUE, TRUE, spare, {}, events)

Owns12 == (1 :> 1) @@ (2 :> 2)

\* A first host, its journal and a VM; a host lost or terminating beside
\* another; two controllers and a disk too many; a pod replaced over its cache
\* disk; two shards, and one, over two hosts; a quiet shard host and a controller
\* that starts again; a process that crashes; a host lost while the cloud fails;
\* a pod replaced on its machine; a quiet host that keeps a cache disk and a
\* journal.
EveryDay ==
    {Bound({1}, {}, {1}, {}, FALSE, TRUE, {}, {"sampled"}, "start" :> 1 @@ "vm" :> 1),
     Steady({1, 2}, {1}, {}, "lose" :> 1 @@ "vm" :> 1),
     Steady({1, 2}, {1}, {}, "terminate" :> 1 @@ "vm" :> 1),
     Steady({1}, {1, 2}, {13}, "expire" :> 1 @@ "fault" :> 1),
     Cached({1}, "start" :> 2 @@ "terminate" :> 1 @@ "quiet" :> 1),
     Sharded({1, 2}, {1, 2}, "start" :> 2),
     Sharded({1, 2}, {1}, "start" :> 2),
     Sharded({1}, {1, 2}, "start" :> 1 @@ "quiet" :> 1 @@ "controller" :> 1),
     Steady({1}, {1}, {}, "crash" :> 1 @@ "vm" :> 1 @@ "fault" :> 1),
     Steady({1}, {1}, {}, "lose" :> 1 @@ "fault" :> 1),
     Steady({1}, {1}, {}, "start" :> 1 @@ "terminate" :> 1 @@ "vm" :> 1),
     SteadyOwn({1}, {}, "quiet" :> 1 @@ "controller" :> 1)}
=============================================================================
