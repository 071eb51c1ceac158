------------------------- MODULE CacheFlightsLoads --------------------------
(***************************************************************************)
(* The invariant behind PinnedNotDisposed, and the steps of loads, of      *)
(* pressure, clears and closes, and of reads that give up what they hold.  *)
(* An entry's readers are counted, a load's waiters before it ends and the *)
(* entry's readers after, so the invariant says whom each count is of:     *)
(* Handed the readers, Joins the waiters on one key of a load, Pairs those *)
(* on any.                                                                 *)
(***************************************************************************)
EXTENDS CacheFlights, FiniteSetTheorems, TLAPS

MaybeLoad == Loads \cup {NoLoad}
Loading == {"run", "fetched"}
CallStates == {"idle", "admit", "blocked", "collect", "leave", "holds"}

Load == [at: {"run", "fetched", "done", "failed"}, keys: SUBSET Keys, pre: BOOLEAN, stale: BOOLEAN,
         cancelled: BOOLEAN, waiters: Nat, on: [Keys -> Nat], ok: BOOLEAN]
Entry == [readers: Nat, retained: BOOLEAN, lease: BOOLEAN, gone: BOOLEAN]
Caller == [at: CallStates, want: SUBSET Keys, got: [Keys -> MaybeLoad], on: [Keys -> MaybeLoad]]

Types ==
    /\ load \in [Loads -> Load] /\ ent \in [Loads -> [Keys -> Entry]]
    /\ flights \in [Keys -> MaybeLoad] /\ entries \in [Keys -> MaybeLoad]
    /\ caller \in [Callers -> Caller] /\ closed \in BOOLEAN

Joins(l, k) == {c \in Callers : caller[c].on[k] = l}
Pairs(l) == {p \in Callers \X Keys : caller[p[1]].on[p[2]] = l}

\* A read that waits for no flight and holds nothing has none; what it waits
\* for it does not hold.
CallsOK == \A c \in Callers :
    /\ caller[c].at \in {"idle", "admit", "blocked"} => \A k \in Keys : caller[c].got[k] = NoLoad
    /\ caller[c].at \in {"idle", "admit", "blocked", "holds"} => \A k \in Keys : caller[c].on[k] = NoLoad
    /\ caller[c].at = "collect" => On(c) # {}
    /\ \A k \in Keys : caller[c].on[k] # NoLoad => caller[c].got[k] = NoLoad

\* A read waits for a load of its key, and holds what a load that ended brought.
HoldsOK == \A c \in Callers : \A k \in Keys :
    /\ caller[c].got[k] # NoLoad => load[caller[c].got[k]].at = "done"
    /\ caller[c].on[k] # NoLoad /\ load[caller[c].on[k]].at \in Loading => k \in load[caller[c].on[k]].keys

\* A key's flight runs, and a key's retained entry is there.
KeysOK == \A k \in Keys :
    /\ flights[k] # NoLoad => load[flights[k]].at \in Loading /\ k \in load[flights[k]].keys
    /\ entries[k] # NoLoad => /\ load[entries[k]].at = "done"
                              /\ ~ent[entries[k]][k].gone /\ ent[entries[k]][k].retained

\* A load that brought nothing has no entries; one that did has those of its keys.
LoadsOK == \A l \in Loads : \A k \in Keys :
    /\ load[l].at \in {"run", "failed"} \/ (load[l].at = "fetched" /\ ~load[l].ok) => ent[l][k].gone
    /\ load[l].at = "fetched" /\ load[l].ok => (ent[l][k].gone <=> k \notin load[l].keys)

\* A load's waiters, before it ends.
WaitersOK == \A l \in Loads : load[l].at \in Loading =>
    /\ load[l].waiters = Cardinality(Pairs(l))
    /\ \A k \in Keys : load[l].on[k] = Cardinality(Joins(l, k))

IInv == Types /\ CallsOK /\ HoldsOK /\ KeysOK /\ LoadsOK /\ WaitersOK /\ ReadersCounted /\ PinnedNotDisposed

-----------------------------------------------------------------------------
(* The counts.                                                             *)

LEMMA FiniteParts ==
    \A l, k : IsFiniteSet(Joins(l, k)) /\ IsFiniteSet(Handed(l, k)) /\ IsFiniteSet(Pairs(l))
<1> SUFFICES ASSUME NEW l, NEW k
             PROVE  IsFiniteSet(Joins(l, k)) /\ IsFiniteSet(Handed(l, k)) /\ IsFiniteSet(Pairs(l))
  BY Zenon
<1>1. IsFiniteSet(Callers \X Keys)
  BY FlightsAssumption, FS_Product, Zenon
<1>2. Joins(l, k) \subseteq Callers /\ Handed(l, k) \subseteq Callers /\ Pairs(l) \subseteq Callers \X Keys
  BY Zenon DEF Joins, Handed, Pairs
<1> QED  BY <1>1, <1>2, FlightsAssumption, FS_Subset, Zenon

\* One more, and one fewer.
LEMMA More ==
    ASSUME NEW S, IsFiniteSet(S), NEW x, x \notin S
    PROVE  Cardinality(S \cup {x}) = Cardinality(S) + 1
BY FS_AddElement, Zenon

LEMMA Fewer ==
    ASSUME NEW S, IsFiniteSet(S), NEW x \in S
    PROVE  Cardinality(S \ {x}) = Cardinality(S) - 1 /\ Cardinality(S) \in Nat \ {0}
<1>1. Cardinality(S) \in Nat
  BY FS_CardinalityType, Zenon
<1>2. Cardinality(S) # 0
  BY FS_EmptySet, Zenon
<1> QED  BY <1>1, <1>2, FS_RemoveElement, Zenon

\* An entry somebody was handed has a reader.
LEMMA HandedHasReader ==
    ASSUME IInv, NEW l \in Loads, NEW k \in Keys, NEW c \in Handed(l, k), load[l].at = "done"
    PROVE  ~ent[l][k].gone /\ ent[l][k].readers \in Nat \ {0} /\ ent[l][k].readers = Cardinality(Handed(l, k))
<1>1. ~ent[l][k].gone
  BY FlightsAssumption, Zenon DEF IInv, PinnedNotDisposed, Handed
<1>2. ent[l][k].readers = Cardinality(Handed(l, k))
  BY <1>1, Zenon DEF IInv, ReadersCounted
<1> QED  BY <1>1, <1>2, FiniteParts, Fewer, ZenonT(30)

-----------------------------------------------------------------------------
(* Steps that leave what is held and waited for as it is.                  *)

SameHeld == \A c \in Callers : \A k \in Keys :
    caller'[c].got[k] = caller[c].got[k] /\ caller'[c].on[k] = caller[c].on[k]
SameLoads == \A l \in Loads :
    /\ load'[l].at = load[l].at /\ load'[l].keys = load[l].keys /\ load'[l].ok = load[l].ok
    /\ load'[l].waiters = load[l].waiters /\ load'[l].on = load[l].on

LEMMA SameSets ==
    ASSUME SameHeld, NEW l \in Loads, NEW k \in Keys
    PROVE  /\ Joins(l, k)' = Joins(l, k) /\ Pairs(l)' = Pairs(l)
           /\ load'[l].at = load[l].at => Handed(l, k)' = Handed(l, k)
<1>1. Joins(l, k)' = Joins(l, k)
  BY Zenon DEF SameHeld, Joins
<1>2. Pairs(l)' = Pairs(l)
  BY Zenon DEF SameHeld, Pairs
<1>3. ASSUME load'[l].at = load[l].at PROVE Handed(l, k)' = Handed(l, k)
  BY <1>3, Zenon DEF SameHeld, Handed
<1> QED  BY <1>1, <1>2, <1>3, Zenon

LEMMA SameWaiters ==
    ASSUME IInv, SameHeld, SameLoads
    PROVE  WaitersOK'
<1> SUFFICES ASSUME NEW l \in Loads, load'[l].at \in Loading
             PROVE  /\ load'[l].waiters = Cardinality(Pairs(l)')
                    /\ \A k \in Keys : load'[l].on[k] = Cardinality(Joins(l, k)')
  BY Zenon DEF WaitersOK
<1>1. load[l].at \in Loading /\ load'[l].waiters = load[l].waiters /\ load'[l].on = load[l].on
  BY Zenon DEF SameLoads
<1>2. \A k \in Keys : Joins(l, k)' = Joins(l, k)
  BY SameSets, Zenon
<1>3. Pairs(l)' = Pairs(l)
  BY ZenonT(30) DEF SameHeld, Pairs
<1> QED  BY <1>1, <1>2, <1>3, Zenon DEF IInv, WaitersOK

LEMMA CallerOnly ==
    ASSUME IInv, caller' \in [Callers -> Caller], SameHeld, CallsOK', UNCHANGED <<load, ent, flights, entries, closed>>
    PROVE  IInv'
<1>1. Types' /\ KeysOK' /\ LoadsOK'
  BY Zenon DEF IInv, Types, KeysOK, LoadsOK
<1>2. WaitersOK'
  BY SameWaiters, Zenon DEF SameLoads
<1>3. HoldsOK'
  BY SMTT(30) DEF IInv, SameHeld, HoldsOK
<1>4. PinnedNotDisposed'
  BY DEF IInv, SameHeld, PinnedNotDisposed
<1>5. ReadersCounted'
  BY SameSets, Zenon DEF IInv, ReadersCounted
<1> QED  BY <1>1, <1>2, <1>3, <1>4, <1>5, Zenon DEF IInv

LEMMA WokenHeld ==
    ASSUME Types, CallsOK, caller' = Woken
    PROVE  caller' \in [Callers -> Caller] /\ SameHeld /\ CallsOK'
<1>1. caller' \in [Callers -> Caller] /\ SameHeld
  BY ZenonT(30) DEF Types, Woken, Caller, CallStates, SameHeld
<1>2. \A c \in Callers : On(c)' = On(c)
  BY <1>1, Zenon DEF SameHeld, On
<1>3. CallsOK'
  BY <1>1, <1>2 DEF Types, Caller, Woken, CallsOK, SameHeld
<1> QED  BY <1>1, <1>3, Zenon

LEMMA QuietKeeps ==
    ASSUME IInv, NEW c \in Callers,
           Refuses(c) \/ Waits(c) \/ GivesUp(c) \/ \E ks \in Batches[c] : Asks(c, ks)
    PROVE  IInv'
<1>1. PICK new \in Caller : /\ caller' = [caller EXCEPT ![c] = new]
                            /\ \A k \in Keys : new.got[k] = caller[c].got[k] /\ new.on[k] = caller[c].on[k]
                            /\ new.at \in {"idle", "admit", "blocked"} => caller[c].at \in {"idle", "admit", "blocked"}
                            /\ new.at \in {"idle", "admit", "blocked", "leave"}
  <2> USE DEF IInv, Types, CallsOK, Caller, CallStates
  <2>1. Idle \in Caller /\ \A ks \in SUBSET Keys : [Idle EXCEPT !.at = "admit", !.want = ks] \in Caller
    BY ZenonT(30) DEF Idle, MaybeLoad
  <2>2. CASE Refuses(c)
    BY <2>1, <2>2, ZenonT(30) DEF Refuses, Idle
  <2>3. CASE Waits(c)
    <3>1. [caller[c] EXCEPT !.at = "blocked"] \in Caller
      BY ZenonT(30)
    <3> QED  BY <2>3, <3>1, ZenonT(30) DEF Waits
  <2>4. CASE GivesUp(c) /\ caller[c].at = "collect"
    <3>1. [caller[c] EXCEPT !.at = "leave"] \in Caller
      BY ZenonT(30)
    <3> QED  BY <2>4, <3>1, ZenonT(30) DEF GivesUp
  <2>5. CASE GivesUp(c) /\ caller[c].at # "collect"
    BY <2>1, <2>5, ZenonT(30) DEF GivesUp, Idle
  <2>6. CASE \E ks \in Batches[c] : Asks(c, ks)
    <3>1. PICK ks \in SUBSET Keys : Asks(c, ks)
      BY <2>6, FlightsAssumption, Zenon
    <3> DEFINE new == [Idle EXCEPT !.at = "admit", !.want = ks]
    <3>2. new \in Caller /\ new.at = "admit" /\ \A k \in Keys : new.got[k] = NoLoad /\ new.on[k] = NoLoad
      BY <2>1, ZenonT(30) DEF Idle
    <3>3. caller' = [caller EXCEPT ![c] = new] /\ caller[c].at = "idle"
      BY <3>1, ZenonT(30) DEF Asks
    <3> HIDE DEF new
    <3>4. \A k \in Keys : caller[c].got[k] = NoLoad /\ caller[c].on[k] = NoLoad
      BY <3>3
    <3>5. /\ \A k \in Keys : new.got[k] = caller[c].got[k] /\ new.on[k] = caller[c].on[k]
          /\ new.at \in {"idle", "admit", "blocked"} => caller[c].at \in {"idle", "admit", "blocked"}
          /\ new.at \in {"idle", "admit", "blocked", "leave"}
      BY <3>2, <3>3, <3>4
    <3> HIDE DEF IInv, Types, CallsOK, Caller, CallStates
    <3> QED  BY <3>2, <3>3, <3>5, Zenon
  <2> QED  BY <2>2, <2>3, <2>4, <2>5, <2>6, Zenon
<1>2. caller' \in [Callers -> Caller] /\ SameHeld
  BY <1>1, Zenon DEF IInv, Types, SameHeld
<1>3. \A d \in Callers : On(d)' = On(d)
  BY <1>2, Zenon DEF SameHeld, On
<1>4. CallsOK'
  BY <1>1, <1>2, <1>3 DEF IInv, Types, CallsOK, SameHeld
<1> QED  BY <1>2, <1>4, CallerOnly, ZenonT(30) DEF Refuses, Waits, GivesUp, Asks

-----------------------------------------------------------------------------
(* Pressure, Clear and Close.                                              *)

LEMMA DetachedEntry ==
    ASSUME NEW e \in Entry
    PROVE  /\ Detach(e) \in Entry /\ Detach(e).readers = e.readers
           /\ Detach(e).gone <=> e.gone \/ e.readers = 0
<1>1. CASE e.readers = 0
  BY <1>1, ZenonT(30) DEF Detach, Dispose, Entry
<1>2. CASE e.readers # 0
  BY <1>2, ZenonT(30) DEF Detach, Dispose, Entry
<1> QED  BY <1>1, <1>2, Zenon

LEMMA StaleLoad ==
    ASSUME NEW x \in Load, NEW b \in BOOLEAN,
           NEW y, y = [x EXCEPT !.stale = TRUE] \/ y = [x EXCEPT !.stale = TRUE, !.cancelled = b] \/ y = x
    PROVE  /\ y \in Load /\ y.at = x.at /\ y.keys = x.keys /\ y.ok = x.ok
           /\ y.waiters = x.waiters /\ y.on = x.on
BY ZenonT(30) DEF Load

\* What is dropped stays until its last reader leaves.
LEMMA DroppedKeeps ==
    ASSUME IInv, NEW ks, Dropped(ks), SameHeld, SameLoads, CallsOK', UNCHANGED flights,
           load' \in [Loads -> Load], caller' \in [Callers -> Caller], closed' \in BOOLEAN
    PROVE  IInv'
<1> USE DEF IInv
<1>1. ASSUME NEW l \in Loads, NEW k \in Keys
      PROVE  /\ ent'[l][k] \in Entry /\ ent'[l][k].readers = ent[l][k].readers
             /\ ent'[l][k].gone <=> ent[l][k].gone \/ (ent[l][k].readers = 0 /\ entries[k] = l /\ k \in ks)
             /\ k \notin ks => ent'[l][k] = ent[l][k]
  <2>1. ent'[l][k] = IF k \in ks /\ entries[k] = l THEN Detach(ent[l][k]) ELSE ent[l][k]
    BY Zenon DEF Dropped
  <2>2. ent[l][k] \in Entry
    BY Zenon DEF Types
  <2> QED  BY <2>1, <2>2, DetachedEntry, Zenon
<1>2. Types'
  <2>1. ent' \in [Loads -> [Keys -> Entry]]
    <3> DEFINE E(l, k) == IF k \in ks /\ entries[k] = l THEN Detach(ent[l][k]) ELSE ent[l][k]
    <3>1. ent' = [l \in Loads |-> [k \in Keys |-> E(l, k)]]
      BY Zenon DEF Dropped
    <3>2. \A l \in Loads : \A k \in Keys : E(l, k) \in Entry
      BY <1>1, <3>1, Zenon
    <3> HIDE DEF E
    <3> QED  BY <3>1, <3>2, Zenon
  <2>2. entries' \in [Keys -> MaybeLoad]
    BY Zenon DEF Types, Dropped, MaybeLoad
  <2> QED  BY <2>1, <2>2, Zenon DEF Types
<1>3. HoldsOK'
  <2> SUFFICES ASSUME NEW c \in Callers, NEW k \in Keys
               PROVE  /\ caller'[c].got[k] # NoLoad => load'[caller'[c].got[k]].at = "done"
                      /\ caller'[c].on[k] # NoLoad /\ load'[caller'[c].on[k]].at \in Loading
                            => k \in load'[caller'[c].on[k]].keys
    BY Zenon DEF HoldsOK
  <2>1. caller'[c].got[k] = caller[c].got[k] /\ caller'[c].on[k] = caller[c].on[k]
    BY Zenon DEF SameHeld
  <2>2. caller[c].got[k] \in MaybeLoad /\ caller[c].on[k] \in MaybeLoad
    BY DEF Types, Caller
  <2> QED  BY <2>1, <2>2, SMTT(30) DEF HoldsOK, SameLoads, MaybeLoad
<1>4. KeysOK'
  <2> SUFFICES ASSUME NEW k \in Keys
               PROVE  /\ flights'[k] # NoLoad => load'[flights'[k]].at \in Loading /\ k \in load'[flights'[k]].keys
                      /\ entries'[k] # NoLoad => /\ load'[entries'[k]].at = "done"
                                                 /\ ~ent'[entries'[k]][k].gone /\ ent'[entries'[k]][k].retained
    BY Zenon DEF KeysOK
  <2>1. flights'[k] = flights[k] /\ flights[k] \in MaybeLoad
    BY Zenon DEF Types
  <2>2. entries'[k] = (IF k \in ks THEN NoLoad ELSE entries[k]) /\ entries[k] \in MaybeLoad
    BY Zenon DEF Types, Dropped
  <2>3. CASE k \in ks
    BY <2>1, <2>2, <2>3, Zenon DEF KeysOK, SameLoads, MaybeLoad
  <2>4. CASE k \notin ks
    <3>1. entries[k] # NoLoad => ent'[entries[k]][k] = ent[entries[k]][k]
      BY <1>1, <2>2, <2>4, Zenon DEF MaybeLoad
    <3> QED  BY <2>1, <2>2, <2>4, <3>1 DEF KeysOK, SameLoads, MaybeLoad
  <2> QED  BY <2>3, <2>4, Zenon
<1>5. LoadsOK'
  <2> SUFFICES ASSUME NEW l \in Loads, NEW k \in Keys
               PROVE  /\ load'[l].at \in {"run", "failed"} \/ (load'[l].at = "fetched" /\ ~load'[l].ok) => ent'[l][k].gone
                      /\ load'[l].at = "fetched" /\ load'[l].ok => (ent'[l][k].gone <=> k \notin load'[l].keys)
    BY Zenon DEF LoadsOK
  <2>1. entries[k] = l => load[l].at = "done"
    BY FlightsAssumption, Zenon DEF KeysOK
  <2> QED  BY <1>1, <2>1 DEF LoadsOK, SameLoads
<1>6. WaitersOK'
  BY SameWaiters, Zenon
<1>7. ASSUME NEW l \in Loads, NEW k \in Keys, NEW c \in Handed(l, k), load[l].at = "done"
      PROVE  ~ent'[l][k].gone
  BY <1>1, <1>7, HandedHasReader, SMTT(30)
<1>8. PinnedNotDisposed'
  <2> SUFFICES ASSUME NEW c \in Callers, NEW k \in Keys
               PROVE  /\ caller'[c].got[k] # NoLoad => ~ent'[caller'[c].got[k]][k].gone
                      /\ caller'[c].on[k] # NoLoad /\ load'[caller'[c].on[k]].at = "done" => ~ent'[caller'[c].on[k]][k].gone
    BY Zenon DEF PinnedNotDisposed
  <2>1. caller[c].got[k] \in MaybeLoad /\ caller[c].on[k] \in MaybeLoad
    BY DEF Types, Caller
  <2>2. ASSUME caller[c].got[k] # NoLoad
        PROVE  caller[c].got[k] \in Loads /\ load[caller[c].got[k]].at = "done" /\ c \in Handed(caller[c].got[k], k)
    BY <2>1, <2>2, Zenon DEF HoldsOK, Handed, MaybeLoad
  <2>3. ASSUME caller[c].on[k] # NoLoad, load[caller[c].on[k]].at = "done"
        PROVE  caller[c].on[k] \in Loads /\ c \in Handed(caller[c].on[k], k)
    BY <2>1, <2>3, Zenon DEF Handed, MaybeLoad
  <2>4. caller'[c].got[k] = caller[c].got[k] /\ caller'[c].on[k] = caller[c].on[k]
    BY Zenon DEF SameHeld
  <2> QED  BY <1>7, <2>1, <2>2, <2>3, <2>4, SMTT(30) DEF SameLoads, MaybeLoad
<1>9. ReadersCounted'
  <2> SUFFICES ASSUME NEW l \in Loads, NEW k \in Keys, load'[l].at = "done", ~ent'[l][k].gone
               PROVE  ent'[l][k].readers = Cardinality(Handed(l, k)')
    BY Zenon DEF ReadersCounted
  <2>1. load[l].at = "done" /\ Handed(l, k)' = Handed(l, k)
    BY SameSets, Zenon DEF SameLoads
  <2> QED  BY <1>1, <2>1 DEF ReadersCounted
<1> QED  BY <1>2, <1>3, <1>4, <1>5, <1>6, <1>8, <1>9, Zenon

LEMMA PressureKeeps ==
    ASSUME IInv, Reclaim \/ Clear \/ Close
    PROVE  IInv'
<1>1. CASE Reclaim
  <2>1. PICK i \in DOMAIN lru : Dropped({lru[i]})
    BY <1>1, Zenon DEF Reclaim
  <2>2. SameHeld /\ SameLoads /\ UNCHANGED <<load, caller, closed, flights>>
    BY <1>1, Zenon DEF Reclaim, SameHeld, SameLoads
  <2>3. CallsOK'
    BY <2>2, Zenon DEF IInv, CallsOK, On
  <2> QED  BY <2>1, <2>2, <2>3, DroppedKeeps, Zenon DEF IInv, Types
<1>2. CASE Clear
  <2>1. SameHeld /\ UNCHANGED <<caller, closed, flights>> /\ Dropped(Keys)
    BY <1>2, Zenon DEF Clear, SameHeld
  <2> DEFINE S(l) == IF load[l].at \in Loading THEN [load[l] EXCEPT !.stale = TRUE] ELSE load[l]
  <2>2. load' = [l \in Loads |-> S(l)]
    BY <1>2, Zenon DEF Clear, Loading
  <2>3. ASSUME NEW l \in Loads
        PROVE  /\ S(l) \in Load /\ S(l).at = load[l].at /\ S(l).keys = load[l].keys /\ S(l).ok = load[l].ok
               /\ S(l).waiters = load[l].waiters /\ S(l).on = load[l].on
    <3>1. load[l] \in Load
      BY Zenon DEF IInv, Types
    <3> QED  BY <3>1, StaleLoad, ZenonT(30)
  <2>4. SameLoads /\ load' \in [Loads -> Load]
    <3> HIDE DEF S
    <3> QED  BY <2>2, <2>3, Zenon DEF SameLoads
  <2>5. CallsOK'
    BY <2>1, Zenon DEF IInv, CallsOK, On
  <2> QED  BY <2>1, <2>4, <2>5, DroppedKeeps, Zenon DEF IInv, Types
<1>3. CASE Close
  <2>1. SameHeld /\ CallsOK' /\ caller' \in [Callers -> Caller]
    BY <1>3, WokenHeld, ZenonT(30) DEF IInv, Close
  <2>2. Dropped(Keys) /\ closed' = TRUE /\ UNCHANGED flights
    BY <1>3, ZenonT(30) DEF Close
  <2> DEFINE C(l) == load[l].cancelled \/ \E k \in Keys : flights[k] = l
             S(l) == IF load[l].at \in Loading
                     THEN [load[l] EXCEPT !.stale = TRUE, !.cancelled = C(l)] ELSE load[l]
  <2>3. load' = [l \in Loads |-> S(l)]
    BY <1>3, ZenonT(30) DEF Close, Loading
  <2>4. ASSUME NEW l \in Loads
        PROVE  /\ S(l) \in Load /\ S(l).at = load[l].at /\ S(l).keys = load[l].keys /\ S(l).ok = load[l].ok
               /\ S(l).waiters = load[l].waiters /\ S(l).on = load[l].on
    <3>1. load[l] \in Load
      BY Zenon DEF IInv, Types
    <3>2. C(l) \in BOOLEAN
      BY Zenon
    <3> HIDE DEF C
    <3> QED  BY <3>1, <3>2, StaleLoad, ZenonT(30)
  <2>5. SameLoads /\ load' \in [Loads -> Load]
    <3> HIDE DEF S
    <3> QED  BY <2>3, <2>4, Zenon DEF SameLoads
  <2> QED  BY <2>1, <2>2, <2>5, DroppedKeeps, Zenon
<1> QED  BY <1>1, <1>2, <1>3, Zenon
-----------------------------------------------------------------------------
(* Loads.                                                                  *)

LEMMA UnusedLoad == Unused \in Load /\ Unused.at = "done" /\ [Unused EXCEPT !.at = "failed"] \in Load
BY ZenonT(30) DEF Unused, Load

LEMMA NoEntryIs ==
    /\ NoEntry \in Entry /\ NoEntry.gone
    /\ \A b \in BOOLEAN : [NoEntry EXCEPT !.lease = b, !.gone = FALSE] \in Entry
                          /\ ~[NoEntry EXCEPT !.lease = b, !.gone = FALSE].gone
BY ZenonT(30) DEF NoEntry, Entry

\* A read holds nothing of a load that has not ended, and no key is retained of it.
LEMMA NotHeld ==
    ASSUME IInv, NEW l \in Loads, load[l].at # "done"
    PROVE  /\ \A k \in Keys : entries[k] # l
           /\ \A c \in Callers : \A k \in Keys : caller[c].got[k] # l
<1>1. l # NoLoad
  BY FlightsAssumption, Zenon
<1> QED  BY <1>1, Zenon DEF IInv, KeysOK, HoldsOK

LEMMA FetchedKeeps ==
    ASSUME IInv, NEW l \in Loads, Fetched(l)
    PROVE  IInv'
<1> USE DEF IInv
<1>1. load[l].at = "run" /\ UNCHANGED <<flights, entries, caller, closed>>
  BY ZenonT(30) DEF Fetched
<1>2. load[l] \in Load /\ ent[l] \in [Keys -> Entry]
  BY Zenon DEF Types
<1>3. PICK b \in BOOLEAN : load' = [load EXCEPT ![l] = [load[l] EXCEPT !.at = "fetched", !.ok = b]]
  <2>1. CASE load' = [load EXCEPT ![l].at = "fetched", ![l].ok = TRUE]
    BY <2>1, <1>2, ZenonT(30) DEF Types, Load
  <2>2. CASE load' = [load EXCEPT ![l].at = "fetched", ![l].ok = FALSE]
    BY <2>2, <1>2, ZenonT(30) DEF Types, Load
  <2> QED  BY <2>1, <2>2, ZenonT(30) DEF Fetched
<1>4. /\ load'[l].at = "fetched" /\ load'[l].ok = b /\ load'[l].keys = load[l].keys
      /\ load'[l].waiters = load[l].waiters /\ load'[l].on = load[l].on /\ load'[l] \in Load
      /\ load' \in [Loads -> Load] /\ \A m \in Loads \ {l} : load'[m] = load[m]
  BY <1>2, <1>3, ZenonT(30) DEF Types, Load
<1>5. PICK e \in [Keys -> Entry] : /\ ent' = [ent EXCEPT ![l] = e]
                                   /\ \A k \in Keys : e[k].gone <=> ~b \/ k \notin load[l].keys
  <2>1. ASSUME NEW leased \in {{}, load[l].keys}, load' = [load EXCEPT ![l].at = "fetched", ![l].ok = TRUE],
               ent' = [ent EXCEPT ![l] = [k \in Keys |-> IF k \in load[l].keys THEN [NoEntry EXCEPT !.lease = k \in leased, !.gone = FALSE]
                                                          ELSE NoEntry]]
        PROVE  \E e \in [Keys -> Entry] : /\ ent' = [ent EXCEPT ![l] = e]
                                          /\ \A k \in Keys : e[k].gone <=> ~b \/ k \notin load[l].keys
    <3> DEFINE f(k) == IF k \in load[l].keys THEN [NoEntry EXCEPT !.lease = k \in leased, !.gone = FALSE] ELSE NoEntry
               e == [k \in Keys |-> f(k)]
    <3>1. b = TRUE
      BY <1>2, <1>4, <2>1, ZenonT(30) DEF Types, Load
    <3>2. ASSUME NEW k \in Keys PROVE f(k) \in Entry /\ (f(k).gone <=> k \notin load[l].keys)
      <4>1. (k \in leased) \in BOOLEAN
        BY SMTT(30)
      <4> QED  BY <4>1, NoEntryIs, ZenonT(30)
    <3>3. ent' = [ent EXCEPT ![l] = e]
      BY <2>1, ZenonT(30)
    <3> HIDE DEF f
    <3>4. e \in [Keys -> Entry] /\ \A k \in Keys : e[k].gone <=> ~b \/ k \notin load[l].keys
      BY <3>1, <3>2, Zenon
    <3> QED  BY <3>3, <3>4, ZenonT(30)
  <2>2. ASSUME load' = [load EXCEPT ![l].at = "fetched", ![l].ok = FALSE], UNCHANGED ent
        PROVE  \E e \in [Keys -> Entry] : /\ ent' = [ent EXCEPT ![l] = e]
                                          /\ \A k \in Keys : e[k].gone <=> ~b \/ k \notin load[l].keys
    <3>1. b = FALSE
      BY <1>2, <1>4, <2>2, ZenonT(30) DEF Types, Load
    <3>2. ent' = [ent EXCEPT ![l] = ent[l]]
      BY <2>2, Zenon DEF Types
    <3>3. \A k \in Keys : ent[l][k].gone
      BY <1>1, Zenon DEF LoadsOK
    <3> QED  BY <1>2, <3>1, <3>2, <3>3, ZenonT(30)
  <2> QED  BY <2>1, <2>2, ZenonT(30) DEF Fetched
<1>6. ent' \in [Loads -> [Keys -> Entry]] /\ ent'[l] = e /\ \A m \in Loads \ {l} : ent'[m] = ent[m]
  BY <1>5, Zenon DEF Types
<1>7. Types'
  BY <1>1, <1>4, <1>6, Zenon DEF Types
<1>8. SameHeld /\ CallsOK'
  BY <1>1, Zenon DEF SameHeld, CallsOK, On
<1>9. \A m \in Loads : (load'[m].at \in Loading <=> load[m].at \in Loading) /\ (load'[m].at = "done" <=> load[m].at = "done")
                       /\ load'[m].keys = load[m].keys /\ load'[m].waiters = load[m].waiters /\ load'[m].on = load[m].on
  BY <1>1, <1>4, Zenon DEF Loading
<1>10. HoldsOK'
  <2> SUFFICES ASSUME NEW c \in Callers, NEW k \in Keys
               PROVE  /\ caller[c].got[k] # NoLoad => load'[caller[c].got[k]].at = "done"
                      /\ caller[c].on[k] # NoLoad /\ load'[caller[c].on[k]].at \in Loading
                            => k \in load'[caller[c].on[k]].keys
    BY <1>1, Zenon DEF HoldsOK
  <2>1. caller[c].got[k] \in MaybeLoad /\ caller[c].on[k] \in MaybeLoad
    BY DEF Types, Caller
  <2> QED  BY <1>9, <2>1, Zenon DEF HoldsOK, MaybeLoad
<1>11. KeysOK'
  <2> SUFFICES ASSUME NEW k \in Keys
               PROVE  /\ flights[k] # NoLoad => load'[flights[k]].at \in Loading /\ k \in load'[flights[k]].keys
                      /\ entries[k] # NoLoad => /\ load'[entries[k]].at = "done"
                                                /\ ~ent'[entries[k]][k].gone /\ ent'[entries[k]][k].retained
    BY <1>1, Zenon DEF KeysOK
  <2>1. flights[k] \in MaybeLoad /\ entries[k] \in MaybeLoad /\ entries[k] # l
    BY <1>1, NotHeld, Zenon DEF Types
  <2> QED  BY <1>6, <1>9, <2>1, Zenon DEF KeysOK, MaybeLoad
<1>12. LoadsOK'
  <2> SUFFICES ASSUME NEW m \in Loads, NEW k \in Keys
               PROVE  /\ load'[m].at \in {"run", "failed"} \/ (load'[m].at = "fetched" /\ ~load'[m].ok) => ent'[m][k].gone
                      /\ load'[m].at = "fetched" /\ load'[m].ok => (ent'[m][k].gone <=> k \notin load'[m].keys)
    BY Zenon DEF LoadsOK
  <2>1. CASE m = l
    BY <1>4, <1>5, <1>6, <2>1, Zenon
  <2>2. CASE m # l
    BY <1>4, <1>6, <2>2, Zenon DEF LoadsOK
  <2> QED  BY <2>1, <2>2, Zenon
<1>13. WaitersOK'
  <2> SUFFICES ASSUME NEW m \in Loads, load'[m].at \in Loading
               PROVE  /\ load'[m].waiters = Cardinality(Pairs(m)')
                      /\ \A k \in Keys : load'[m].on[k] = Cardinality(Joins(m, k)')
    BY Zenon DEF WaitersOK
  <2>1. load[m].at \in Loading /\ load'[m].waiters = load[m].waiters /\ load'[m].on = load[m].on
    BY <1>9, Zenon
  <2>2. Pairs(m)' = Pairs(m) /\ \A k \in Keys : Joins(m, k)' = Joins(m, k)
    BY <1>1, Zenon DEF Pairs, Joins
  <2> QED  BY <2>1, <2>2, Zenon DEF WaitersOK
<1>14. ReadersCounted'
  <2> SUFFICES ASSUME NEW m \in Loads, NEW k \in Keys, load'[m].at = "done", ~ent'[m][k].gone
               PROVE  ent'[m][k].readers = Cardinality(Handed(m, k)')
    BY Zenon DEF ReadersCounted
  <2>1. m # l /\ load[m].at = "done" /\ ent'[m] = ent[m] /\ load'[m].at = load[m].at
    BY <1>4, <1>6, <1>9, Zenon
  <2>2. Handed(m, k)' = Handed(m, k)
    BY <1>8, <2>1, SameSets, Zenon
  <2> QED  BY <2>1, <2>2, Zenon DEF ReadersCounted
<1>15. PinnedNotDisposed'
  <2> SUFFICES ASSUME NEW c \in Callers, NEW k \in Keys
               PROVE  /\ caller[c].got[k] # NoLoad => ~ent'[caller[c].got[k]][k].gone
                      /\ caller[c].on[k] # NoLoad /\ load'[caller[c].on[k]].at = "done" => ~ent'[caller[c].on[k]][k].gone
    BY <1>1, ZenonT(30) DEF PinnedNotDisposed
  <2>1. caller[c].got[k] \in MaybeLoad /\ caller[c].on[k] \in MaybeLoad /\ caller[c].got[k] # l
    BY <1>1, NotHeld, SMTT(30) DEF Types, Caller
  <2> QED  BY <1>1, <1>6, <1>9, <2>1, ZenonT(30) DEF PinnedNotDisposed, MaybeLoad
<1> QED  BY <1>7, <1>8, <1>10, <1>11, <1>12, <1>13, <1>14, <1>15, Zenon

LEMMA FinishedEntry ==
    ASSUME IInv, NEW l \in Loads, NEW k \in Keys
    PROVE  /\ Finished(l, k) \in Entry /\ Finished(l, k).readers = load[l].on[k]
           /\ Finished(l, k).gone <=> ent[l][k].gone \/ load[l].on[k] = 0
           /\ Retains(l, k) => load[l].on[k] > 0 /\ Finished(l, k).retained
<1> DEFINE e == [ent[l][k] EXCEPT !.readers = load[l].on[k], !.retained = Retains(l, k)]
<1>1. ent[l][k] \in Entry /\ load[l].on[k] \in Nat
  BY ZenonT(30) DEF IInv, Types, Load
<1>2. Retains(l, k) \in BOOLEAN
  BY Zenon DEF Retains
<1>3. e \in Entry /\ e.readers = load[l].on[k] /\ e.retained = Retains(l, k) /\ e.gone = ent[l][k].gone
  BY <1>1, <1>2, ZenonT(30) DEF Entry
<1>4. Retains(l, k) => load[l].on[k] > 0
  BY Zenon DEF Retains
<1>5. Finished(l, k) = IF e.readers = 0 THEN Dispose(e) ELSE e
  BY Zenon DEF Finished
<1> HIDE DEF e
<1>6. CASE e.readers = 0
  BY <1>1, <1>3, <1>4, <1>5, <1>6, ZenonT(30) DEF Dispose, Entry
<1>7. CASE e.readers # 0
  BY <1>1, <1>3, <1>4, <1>5, <1>7, Zenon DEF Entry
<1> QED  BY <1>6, <1>7, Zenon

LEMMA FinishesKeeps ==
    ASSUME IInv, NEW l \in Loads, Finishes(l)
    PROVE  IInv'
<1> USE DEF IInv
<1> DEFINE at == IF load[l].ok \/ load[l].waiters = 0 THEN "done" ELSE "failed"
           kept == {k \in load[l].keys : Retains(l, k)}
<1>1. /\ load[l].at = "fetched" /\ load' = [load EXCEPT ![l] = [Unused EXCEPT !.at = at]]
      /\ ent' = IF load[l].ok THEN [ent EXCEPT ![l] = [k \in Keys |-> IF k \in load[l].keys THEN Finished(l, k) ELSE @[k]]] ELSE ent
      /\ flights' = [k \in Keys |-> IF flights[k] = l THEN NoLoad ELSE flights[k]]
      /\ entries' = [k \in Keys |-> IF k \in kept THEN l ELSE entries[k]]
      /\ caller' = Woken /\ UNCHANGED closed
  BY Zenon DEF Finishes
<1>2. load[l] \in Load /\ ent[l] \in [Keys -> Entry] /\ l # NoLoad
  BY FlightsAssumption, Zenon DEF Types
<1>3. caller' \in [Callers -> Caller] /\ SameHeld /\ CallsOK'
  BY <1>1, WokenHeld, Zenon
<1>4. load'[l].at = at /\ load' \in [Loads -> Load] /\ \A m \in Loads \ {l} : load'[m] = load[m]
  <2>1. [Unused EXCEPT !.at = at] \in Load /\ [Unused EXCEPT !.at = at].at = at
    BY UnusedLoad, ZenonT(30) DEF Unused, Load
  <2> QED  BY <1>1, <2>1, Zenon DEF Types
<1>5. /\ ent' \in [Loads -> [Keys -> Entry]] /\ \A m \in Loads \ {l} : ent'[m] = ent[m]
      /\ \A k \in Keys : ent'[l][k] = IF load[l].ok /\ k \in load[l].keys THEN Finished(l, k) ELSE ent[l][k]
  <2>1. CASE load[l].ok
    <3> DEFINE f(k) == IF k \in load[l].keys THEN Finished(l, k) ELSE ent[l][k]
    <3>1. ent' = [ent EXCEPT ![l] = [k \in Keys |-> f(k)]]
      BY <1>1, <2>1, Zenon
    <3>2. \A k \in Keys : f(k) \in Entry
      BY <1>2, FinishedEntry, Zenon
    <3>3. \A k \in Keys : f(k) = IF load[l].ok /\ k \in load[l].keys THEN Finished(l, k) ELSE ent[l][k]
      BY <2>1, Zenon
    <3> HIDE DEF f
    <3> QED  BY <3>1, <3>2, <3>3, Zenon DEF Types
  <2>2. CASE ~load[l].ok
    BY <1>1, <2>2, Zenon DEF Types
  <2> QED  BY <2>1, <2>2, Zenon
<1>6. Types'
  <2>1. flights' \in [Keys -> MaybeLoad] /\ entries' \in [Keys -> MaybeLoad]
    BY <1>1, Zenon DEF Types, MaybeLoad
  <2> QED  BY <1>1, <1>3, <1>4, <1>5, <2>1, Zenon DEF Types
<1>7. /\ \A k \in Keys : entries[k] # l
      /\ \A c \in Callers : \A k \in Keys : caller[c].got[k] # l
  BY <1>1, NotHeld, Zenon
<1>8. at \notin Loading /\ (at = "failed" => ~load[l].ok)
  BY Zenon DEF Loading
<1>9. ASSUME NEW c \in Callers, NEW k \in Keys
      PROVE  /\ caller'[c].got[k] = caller[c].got[k] /\ caller'[c].on[k] = caller[c].on[k]
             /\ caller[c].got[k] \in MaybeLoad /\ caller[c].on[k] \in MaybeLoad
  BY <1>3, Zenon DEF SameHeld, Types, Caller
<1> HIDE DEF at
<1>10. HoldsOK'
  <2> SUFFICES ASSUME NEW c \in Callers, NEW k \in Keys
               PROVE  /\ caller'[c].got[k] # NoLoad => load'[caller'[c].got[k]].at = "done"
                      /\ caller'[c].on[k] # NoLoad /\ load'[caller'[c].on[k]].at \in Loading
                            => k \in load'[caller'[c].on[k]].keys
    BY Zenon DEF HoldsOK
  <2> QED  BY <1>4, <1>7, <1>8, <1>9, SMTT(30) DEF HoldsOK, MaybeLoad
<1>11. KeysOK'
  <2> SUFFICES ASSUME NEW k \in Keys
               PROVE  /\ flights'[k] # NoLoad => load'[flights'[k]].at \in Loading /\ k \in load'[flights'[k]].keys
                      /\ entries'[k] # NoLoad => /\ load'[entries'[k]].at = "done"
                                                 /\ ~ent'[entries'[k]][k].gone /\ ent'[entries'[k]][k].retained
    BY Zenon DEF KeysOK
  <2>1. flights[k] \in MaybeLoad /\ entries[k] \in MaybeLoad /\ entries[k] # l
    BY <1>7, Zenon DEF Types
  <2>2. flights'[k] # NoLoad => flights'[k] = flights[k] /\ flights[k] \in Loads \ {l}
    BY <1>1, <2>1, Zenon DEF MaybeLoad
  <2>3. CASE k \in kept
    <3>1. entries'[k] = l /\ load[l].ok /\ k \in load[l].keys /\ load[l].on[k] > 0 /\ Retains(l, k)
      BY <1>1, <2>3, Zenon DEF Retains
    <3>2. at = "done" /\ ~ent[l][k].gone
      BY <1>1, <3>1, Zenon DEF at, LoadsOK
    <3>3. ent'[l][k] = Finished(l, k) /\ load[l].on[k] # 0
      BY <1>2, <1>5, <3>1 DEF Load
    <3>4. ~ent'[l][k].gone /\ ent'[l][k].retained
      BY <3>1, <3>2, <3>3, FinishedEntry, Zenon
    <3> QED  BY <1>4, <2>2, <3>1, <3>2, <3>4, Zenon DEF KeysOK
  <2>4. CASE k \notin kept
    <3>1. entries'[k] = entries[k]
      BY <1>1, <2>4, Zenon
    <3> QED  BY <1>4, <1>5, <2>1, <2>2, <3>1 DEF KeysOK, MaybeLoad
  <2> QED  BY <2>3, <2>4, Zenon
<1>12. LoadsOK'
  <2> SUFFICES ASSUME NEW m \in Loads, NEW k \in Keys
               PROVE  /\ load'[m].at \in {"run", "failed"} \/ (load'[m].at = "fetched" /\ ~load'[m].ok) => ent'[m][k].gone
                      /\ load'[m].at = "fetched" /\ load'[m].ok => (ent'[m][k].gone <=> k \notin load'[m].keys)
    BY Zenon DEF LoadsOK
  <2>1. CASE m = l
    <3>1. CASE at = "failed"
      <4>1. ~load[l].ok /\ ent[l][k].gone
        BY <1>1, <1>8, <3>1, Zenon DEF LoadsOK
      <4> QED  BY <1>4, <1>5, <2>1, <3>1, <4>1, Zenon
    <3>2. CASE at = "done"
      BY <1>4, <2>1, <3>2, Zenon
    <3> QED  BY <3>1, <3>2, Zenon DEF at
  <2>2. CASE m # l
    BY <1>4, <1>5, <2>2, Zenon DEF LoadsOK
  <2> QED  BY <2>1, <2>2, Zenon
<1>13. WaitersOK'
  <2> SUFFICES ASSUME NEW m \in Loads, load'[m].at \in Loading
               PROVE  /\ load'[m].waiters = Cardinality(Pairs(m)')
                      /\ \A k \in Keys : load'[m].on[k] = Cardinality(Joins(m, k)')
    BY Zenon DEF WaitersOK
  <2>1. m # l /\ load'[m] = load[m]
    BY <1>4, <1>8, Zenon
  <2>2. Pairs(m)' = Pairs(m) /\ \A k \in Keys : Joins(m, k)' = Joins(m, k)
    BY <1>3, Zenon DEF SameHeld, Pairs, Joins
  <2> QED  BY <2>1, <2>2, Zenon DEF WaitersOK
<1>14. ASSUME NEW k \in Keys PROVE Handed(l, k)' \subseteq Joins(l, k) /\ (at = "done" => Handed(l, k)' = Joins(l, k))
  BY <1>4, <1>7, <1>9 DEF Handed, Joins
<1>15. ReadersCounted'
  <2> SUFFICES ASSUME NEW m \in Loads, NEW k \in Keys, load'[m].at = "done", ~ent'[m][k].gone
               PROVE  ent'[m][k].readers = Cardinality(Handed(m, k)')
    BY Zenon DEF ReadersCounted
  <2>1. CASE m = l
    <3>1. at = "done" /\ Handed(l, k)' = Joins(l, k)
      BY <1>4, <1>14, <2>1, Zenon
    <3>2. load[l].ok /\ k \in load[l].keys
      BY <1>1, <1>5, <2>1, Zenon DEF LoadsOK
    <3>3. load[l].on[k] = Cardinality(Joins(l, k))
      BY <1>1, Zenon DEF WaitersOK, Loading
    <3> QED  BY <1>5, <2>1, <3>1, <3>2, <3>3, FinishedEntry, SMTT(30)
  <2>2. CASE m # l
    <3>1. load'[m].at = load[m].at /\ ent'[m] = ent[m]
      BY <1>4, <1>5, <2>2, Zenon
    <3>2. Handed(m, k)' = Handed(m, k)
      BY <1>3, <3>1, SameSets, Zenon
    <3> QED  BY <3>1, <3>2, Zenon DEF ReadersCounted
  <2> QED  BY <2>1, <2>2, Zenon
<1>16. ASSUME NEW c \in Callers, NEW k \in Keys, caller[c].on[k] = l, at = "done"
       PROVE  ~ent'[l][k].gone
  <2>1. load[l].ok
    <3> SUFFICES ASSUME ~load[l].ok PROVE FALSE
      BY Zenon
    <3>1. load[l].waiters = 0 /\ load[l].waiters = Cardinality(Pairs(l))
      BY <1>1, <1>16, Zenon DEF at, WaitersOK, Loading
    <3>2. Pairs(l) = {}
      BY <3>1, FiniteParts, FS_EmptySet, Zenon
    <3>3. <<c, k>> \in Pairs(l)
      BY <1>16, Zenon DEF Pairs
    <3> QED  BY <3>2, <3>3, Zenon
  <2>2. k \in load[l].keys
    BY <1>1, <1>2, <1>16, Zenon DEF HoldsOK, Loading
  <2>3. ~ent[l][k].gone
    BY <1>1, <2>1, <2>2, Zenon DEF LoadsOK
  <2>4. c \in Joins(l, k) /\ load[l].on[k] = Cardinality(Joins(l, k))
    BY <1>1, <1>16, Zenon DEF Joins, WaitersOK, Loading
  <2>5. load[l].on[k] # 0
    BY <2>4, FiniteParts, FS_EmptySet, Zenon
  <2> QED  BY <1>5, <2>1, <2>2, <2>3, <2>5, FinishedEntry, Zenon
<1>17. PinnedNotDisposed'
  <2> SUFFICES ASSUME NEW c \in Callers, NEW k \in Keys
               PROVE  /\ caller'[c].got[k] # NoLoad => ~ent'[caller'[c].got[k]][k].gone
                      /\ caller'[c].on[k] # NoLoad /\ load'[caller'[c].on[k]].at = "done" => ~ent'[caller'[c].on[k]][k].gone
    BY Zenon DEF PinnedNotDisposed
  <2>1. caller[c].got[k] # NoLoad => caller[c].got[k] \in Loads \ {l}
    BY <1>7, <1>9, Zenon DEF MaybeLoad
  <2>2. caller'[c].got[k] # NoLoad => ~ent'[caller'[c].got[k]][k].gone
    <3>1. caller[c].got[k] # NoLoad => ent'[caller[c].got[k]] = ent[caller[c].got[k]]
      BY <1>5, <2>1, Zenon
    <3> QED  BY <1>9, <3>1, Zenon DEF PinnedNotDisposed
  <2>3. CASE caller[c].on[k] = l
    <3>1. load'[l].at = at
      BY <1>4, Zenon
    <3> QED  BY <1>9, <1>16, <2>2, <2>3, <3>1, Zenon
  <2>4. CASE caller[c].on[k] # l /\ caller[c].on[k] # NoLoad
    <3>1. /\ caller[c].on[k] \in Loads
          /\ load'[caller[c].on[k]].at = load[caller[c].on[k]].at /\ ent'[caller[c].on[k]] = ent[caller[c].on[k]]
      BY <1>4, <1>5, <1>9, <2>4, Zenon DEF MaybeLoad
    <3>2. load[caller[c].on[k]].at = "done" => ~ent[caller[c].on[k]][k].gone
      BY <2>4, Zenon DEF PinnedNotDisposed
    <3> QED  BY <1>9, <2>2, <3>1, <3>2, Zenon
  <2> QED  BY <1>9, <2>2, <2>3, <2>4, Zenon
<1> QED  BY <1>3, <1>6, <1>10, <1>11, <1>12, <1>13, <1>15, <1>17, Zenon

\* A free name is of a load that ended, and nothing has it.
LEMMA NewIsFree ==
    ASSUME Free # {}
    PROVE  NewLoad \in Loads /\ load[NewLoad].at = "done" /\ Names(NewLoad)
BY Zenon DEF Free, NewLoad

LEMMA KeepsTableKeeps ==
    ASSUME IInv, NEW k \in Keys, KeepsTable(k)
    PROVE  IInv'
<1> USE DEF IInv
<1> DEFINE l == NewLoad
           kept == [readers |-> 0, retained |-> TRUE, lease |-> TRUE, gone |-> FALSE]
           f(o) == IF o = k THEN kept ELSE NoEntry
<1>1. /\ Free # {} /\ ent' = [ent EXCEPT ![l] = [o \in Keys |-> f(o)]]
      /\ entries' = [entries EXCEPT ![k] = l] /\ UNCHANGED <<load, flights, caller, closed>>
  BY Zenon DEF KeepsTable
<1>2. l \in Loads /\ load[l].at = "done" /\ Names(l)
  BY <1>1, NewIsFree, Zenon
<1>3. kept \in Entry /\ NoEntry \in Entry /\ NoEntry.gone
  BY NoEntryIs, ZenonT(30) DEF Entry
<1> HIDE DEF l
<1>4. /\ ent' \in [Loads -> [Keys -> Entry]] /\ \A m \in Loads \ {l} : ent'[m] = ent[m]
      /\ ent'[l][k] = kept /\ \A o \in Keys : o # k => ent'[l][o].gone
  <2>1. \A o \in Keys : f(o) \in Entry /\ (o # k => f(o).gone)
    BY <1>3, Zenon
  <2>2. f(k) = kept
    BY Zenon
  <2> HIDE DEF f, kept
  <2> QED  BY <1>1, <1>2, <2>1, <2>2, Zenon DEF Types
<1>5. Types'
  <2>1. entries' \in [Keys -> MaybeLoad]
    BY <1>1, <1>2, Zenon DEF Types, MaybeLoad
  <2> QED  BY <1>1, <1>4, <2>1, Zenon DEF Types
<1>6. CallsOK' /\ HoldsOK'
  BY <1>1, ZenonT(30) DEF CallsOK, HoldsOK, On
<1>7. KeysOK'
  <2> SUFFICES ASSUME NEW o \in Keys
               PROVE  /\ flights[o] # NoLoad => load[flights[o]].at \in Loading /\ o \in load[flights[o]].keys
                      /\ entries'[o] # NoLoad => /\ load[entries'[o]].at = "done"
                                                 /\ ~ent'[entries'[o]][o].gone /\ ent'[entries'[o]][o].retained
    BY <1>1, Zenon DEF KeysOK
  <2>1. CASE o = k
    BY <1>1, <1>2, <1>4, <2>1, Zenon DEF KeysOK, Types
  <2>2. CASE o # k
    <3>1. entries'[o] = entries[o] /\ entries[o] \in MaybeLoad /\ entries[o] # l
      BY <1>1, <1>2, <2>2, Zenon DEF Types, Names
    <3> QED  BY <1>4, <3>1, ZenonT(30) DEF KeysOK, MaybeLoad
  <2> QED  BY <2>1, <2>2, Zenon
<1>8. LoadsOK'
  <2> SUFFICES ASSUME NEW m \in Loads, NEW o \in Keys
               PROVE  /\ load[m].at \in {"run", "failed"} \/ (load[m].at = "fetched" /\ ~load[m].ok) => ent'[m][o].gone
                      /\ load[m].at = "fetched" /\ load[m].ok => (ent'[m][o].gone <=> o \notin load[m].keys)
    BY <1>1, Zenon DEF LoadsOK
  <2> QED  BY <1>2, <1>4, Zenon DEF LoadsOK
<1>9. WaitersOK'
  BY <1>1, SameWaiters, Zenon DEF SameHeld, SameLoads
<1>10. ReadersCounted'
  <2> SUFFICES ASSUME NEW m \in Loads, NEW o \in Keys, load[m].at = "done", ~ent'[m][o].gone
               PROVE  ent'[m][o].readers = Cardinality(Handed(m, o))
    BY <1>1, SMTT(30) DEF ReadersCounted, Handed
  <2>1. CASE m = l
    <3>1. Handed(l, o) = {}
      BY <1>2, Zenon DEF Handed, Names
    <3> QED  BY <1>4, <2>1, <3>1, FS_EmptySet, SMTT(30)
  <2>2. CASE m # l
    BY <1>4, <2>2, Zenon DEF ReadersCounted
  <2> QED  BY <2>1, <2>2, Zenon
<1>11. PinnedNotDisposed'
  <2> SUFFICES ASSUME NEW c \in Callers, NEW o \in Keys
               PROVE  /\ caller[c].got[o] # NoLoad => ~ent'[caller[c].got[o]][o].gone
                      /\ caller[c].on[o] # NoLoad /\ load[caller[c].on[o]].at = "done" => ~ent'[caller[c].on[o]][o].gone
    BY <1>1, ZenonT(30) DEF PinnedNotDisposed
  <2>1. /\ caller[c].got[o] \in MaybeLoad /\ caller[c].on[o] \in MaybeLoad
        /\ caller[c].got[o] # l /\ caller[c].on[o] # l
    BY <1>2, ZenonT(30) DEF Types, Caller, Names
  <2> QED  BY <1>4, <2>1, ZenonT(30) DEF PinnedNotDisposed, MaybeLoad
<1> QED  BY <1>5, <1>6, <1>7, <1>8, <1>9, <1>10, <1>11, Zenon
-----------------------------------------------------------------------------
(* Reads that leave: at each key k with rls[k] # NoLoad, c was handed the  *)
(* entry of load rls[k] and gives it up.                                   *)

LEMMA ReleasedEntry ==
    ASSUME NEW e \in Entry, e.readers # 0
    PROVE  /\ Released(e) \in Entry /\ Released(e).readers = e.readers - 1 /\ Released(e).retained = e.retained
           /\ Released(e).gone <=> e.gone \/ (e.readers = 1 /\ ~e.retained)
<1> DEFINE r == [e EXCEPT !.readers = @ - 1]
<1>1. r \in Entry /\ r.readers = e.readers - 1 /\ r.retained = e.retained /\ r.gone = e.gone
  BY DEF Entry
<1>2. Released(e) = IF r.readers = 0 /\ ~r.retained THEN Dispose(r) ELSE r
  BY Zenon DEF Released
<1>3. e.readers \in Nat
  BY Zenon DEF Entry
<1> HIDE DEF r
<1>4. CASE r.readers = 0 /\ ~r.retained
  <2>1. Dispose(r) \in Entry /\ Dispose(r).readers = r.readers /\ Dispose(r).retained = r.retained /\ Dispose(r).gone
    BY <1>1, ZenonT(30) DEF Dispose, Entry
  <2>2. Released(e) = Dispose(r) /\ e.readers = 1 /\ ~e.retained
    BY <1>1, <1>2, <1>3, <1>4
  <2> QED  BY <1>1, <2>1, <2>2, Zenon
<1>5. CASE ~(r.readers = 0 /\ ~r.retained)
  BY <1>1, <1>2, <1>3, <1>5 DEF Entry
<1> QED  BY <1>4, <1>5, Zenon

LEMMA DroppedEntry ==
    ASSUME NEW e \in Entry
    PROVE  Detach([e EXCEPT !.readers = 0]) \in Entry /\ Detach([e EXCEPT !.readers = 0]).gone
<1>1. [e EXCEPT !.readers = 0] \in Entry /\ [e EXCEPT !.readers = 0].readers = 0
  BY Zenon DEF Entry
<1> QED  BY <1>1, DetachedEntry, ZenonT(30)

ReleaseStep(c, rls, new, drops) ==
    /\ \A k \in Keys : rls[k] # NoLoad => c \in Handed(rls[k], k) /\ load[rls[k]].at = "done"
    /\ \A k \in Keys : IF rls[k] # NoLoad THEN new.got[k] = NoLoad /\ new.on[k] = NoLoad
                       ELSE new.got[k] = caller[c].got[k] /\ new.on[k] = caller[c].on[k]
    /\ \A k \in drops : k \in Keys /\ rls[k] # NoLoad /\ MayDrop(ent[rls[k]][k])
    /\ caller' = [caller EXCEPT ![c] = new] /\ CallsOK'
    /\ ent' = [l \in Loads |-> [k \in Keys |-> IF rls[k] # l THEN ent[l][k]
                                                ELSE IF k \in drops THEN Detach([ent[l][k] EXCEPT !.readers = 0])
                                                ELSE Released(ent[l][k])]]
    /\ entries' = [k \in Keys |-> IF k \in drops THEN NoLoad ELSE entries[k]]
    /\ UNCHANGED <<load, flights, closed>>

LEMMA ReleaseKeeps ==
    ASSUME IInv, NEW c \in Callers, NEW rls \in [Keys -> MaybeLoad], NEW new \in Caller, NEW drops,
           ReleaseStep(c, rls, new, drops)
    PROVE  IInv'
<1> USE DEF IInv, ReleaseStep
<1>1. ASSUME NEW l \in Loads, NEW k \in Keys, rls[k] = l
      PROVE  /\ load[l].at = "done" /\ c \in Handed(l, k) /\ ~ent[l][k].gone /\ ent[l][k] \in Entry
             /\ ent[l][k].readers \in Nat \ {0} /\ ent[l][k].readers = Cardinality(Handed(l, k))
             /\ Handed(l, k)' = Handed(l, k) \ {c}
  <2>1. l # NoLoad
    BY FlightsAssumption, Zenon
  <2>2. load[l].at = "done" /\ c \in Handed(l, k) /\ new.got[k] = NoLoad /\ new.on[k] = NoLoad
    BY <1>1, <2>1, Zenon
  <2>3. ent[l][k] \in Entry
    BY Zenon DEF Types
  <2>4. Handed(l, k)' = Handed(l, k) \ {c}
    <3>1. caller'[c] = new /\ \A d \in Callers \ {c} : caller'[d] = caller[d]
      BY Zenon DEF Types
    <3> QED  BY <2>1, <2>2, <3>1 DEF Handed
  <2> QED  BY <2>2, <2>3, <2>4, HandedHasReader, Zenon
<1>2. ASSUME NEW l \in Loads, NEW k \in Keys, rls[k] # l
      PROVE  Handed(l, k)' = Handed(l, k) /\ ent'[l][k] = ent[l][k]
  <2>1. caller'[c] = new /\ \A d \in Callers \ {c} : caller'[d] = caller[d]
    BY Zenon DEF Types
  <2>2. CASE rls[k] = NoLoad
    <3>1. new.got[k] = caller[c].got[k] /\ new.on[k] = caller[c].on[k]
      BY <2>2, Zenon
    <3> QED  BY <1>2, <2>1, <3>1 DEF Handed
  <2>3. CASE rls[k] # NoLoad
    <3>1. c \in Handed(rls[k], k) /\ new.got[k] = NoLoad /\ new.on[k] = NoLoad
      BY <2>3, Zenon
    <3>2. caller[c].got[k] = rls[k] \/ caller[c].on[k] = rls[k]
      BY <3>1, Zenon DEF Handed
    <3>3. caller[c].on[k] # NoLoad => caller[c].got[k] = NoLoad
      BY Zenon DEF CallsOK
    <3>4. l # NoLoad
      BY FlightsAssumption, Zenon
    <3>5. c \notin Handed(l, k)
      BY <1>2, <2>3, <3>2, <3>3, <3>4, Zenon DEF Handed
    <3> QED  BY <1>2, <2>1, <3>1, <3>4, <3>5 DEF Handed
  <2> QED  BY <2>2, <2>3, Zenon
<1>3. ASSUME NEW l \in Loads, NEW k \in Keys, rls[k] = l, k \in drops
      PROVE  ent'[l][k] \in Entry /\ ent'[l][k].gone /\ Handed(l, k)' = {}
  <2>1. ent'[l][k] = Detach([ent[l][k] EXCEPT !.readers = 0])
    BY <1>3, Zenon
  <2>2. Cardinality(Handed(l, k)) = 1
    BY <1>1, <1>3 DEF MayDrop
  <2>3. Cardinality(Handed(l, k) \ {c}) = 0 /\ IsFiniteSet(Handed(l, k) \ {c})
    BY <1>1, <1>3, <2>2, FiniteParts, FS_RemoveElement
  <2> QED  BY <1>1, <1>3, <2>1, <2>3, DroppedEntry, FS_EmptySet, ZenonT(30)
<1>4. ASSUME NEW l \in Loads, NEW k \in Keys, rls[k] = l, k \notin drops
      PROVE  /\ ent'[l][k] \in Entry /\ ent'[l][k].readers = Cardinality(Handed(l, k)')
             /\ ent'[l][k].retained = ent[l][k].retained
             /\ ent'[l][k].gone <=> Handed(l, k)' = {} /\ ~ent[l][k].retained
  <2>1. ent'[l][k] = Released(ent[l][k])
    BY <1>4, Zenon
  <2>2. Cardinality(Handed(l, k) \ {c}) = Cardinality(Handed(l, k)) - 1 /\ IsFiniteSet(Handed(l, k) \ {c})
    BY <1>1, <1>4, FiniteParts, FS_RemoveElement, Zenon
  <2>3. Cardinality(Handed(l, k) \ {c}) = 0 <=> Handed(l, k) \ {c} = {}
    BY <2>2, FS_EmptySet, ZenonT(30)
  <2>4. ent[l][k].readers = 1 <=> Handed(l, k)' = {}
    BY <1>1, <1>4, <2>2, <2>3
  <2>5. /\ ent'[l][k] \in Entry /\ ent'[l][k].readers = ent[l][k].readers - 1 /\ ent'[l][k].retained = ent[l][k].retained
        /\ ent'[l][k].gone <=> (ent[l][k].readers = 1 /\ ~ent[l][k].retained)
    BY <1>1, <1>4, <2>1, ReleasedEntry, Zenon
  <2>6. ~ent[l][k].gone /\ ent[l][k].readers = Cardinality(Handed(l, k)) /\ Handed(l, k)' = Handed(l, k) \ {c}
    BY <1>1, <1>4, Zenon
  <2>7. ent'[l][k].readers = Cardinality(Handed(l, k)')
    BY <2>2, <2>5, <2>6, Zenon
  <2> QED  BY <2>4, <2>5, <2>7, Zenon
<1>5. Types'
  <2>1. ent' \in [Loads -> [Keys -> Entry]]
    <3> DEFINE E(l, k) == IF rls[k] # l THEN ent[l][k]
                          ELSE IF k \in drops THEN Detach([ent[l][k] EXCEPT !.readers = 0])
                          ELSE Released(ent[l][k])
    <3>1. ent' = [l \in Loads |-> [k \in Keys |-> E(l, k)]]
      BY Zenon
    <3>2. ASSUME NEW l \in Loads, NEW k \in Keys PROVE ent'[l][k] \in Entry
      <4>1. ent[l][k] \in Entry
        BY Zenon DEF Types
      <4> QED  BY <1>2, <1>3, <1>4, <4>1, Zenon
    <3>3. ASSUME NEW l \in Loads PROVE ent'[l] \in [Keys -> Entry]
      <4>1. ent'[l] = [k \in Keys |-> E(l, k)]
        BY <3>1, Zenon
      <4>2. \A k \in Keys : E(l, k) = ent'[l][k]
        BY <4>1, Zenon
      <4> HIDE DEF E
      <4> QED  BY <3>2, <4>1, <4>2, ZenonT(30)
    <3> HIDE DEF E
    <3> QED  BY <3>1, <3>3, ZenonT(30)
  <2>2. entries' \in [Keys -> MaybeLoad] /\ caller' \in [Callers -> Caller]
    BY Zenon DEF Types, MaybeLoad
  <2> QED  BY <2>1, <2>2, ZenonT(30) DEF Types
<1>6. ASSUME NEW d \in Callers, NEW k \in Keys
      PROVE  /\ caller[d].got[k] \in MaybeLoad /\ caller[d].on[k] \in MaybeLoad
             /\ caller'[d].got[k] \in {caller[d].got[k], NoLoad} /\ caller'[d].on[k] \in {caller[d].on[k], NoLoad}
  BY DEF Types, Caller
<1>7. HoldsOK'
  <2> SUFFICES ASSUME NEW d \in Callers, NEW k \in Keys
               PROVE  /\ caller'[d].got[k] # NoLoad => load[caller'[d].got[k]].at = "done"
                      /\ caller'[d].on[k] # NoLoad /\ load[caller'[d].on[k]].at \in Loading
                            => k \in load[caller'[d].on[k]].keys
    BY Zenon DEF HoldsOK
  <2> QED  BY <1>6 DEF HoldsOK
<1>8. KeysOK'
  <2> SUFFICES ASSUME NEW k \in Keys
               PROVE  /\ flights[k] # NoLoad => load[flights[k]].at \in Loading /\ k \in load[flights[k]].keys
                      /\ entries'[k] # NoLoad => /\ load[entries'[k]].at = "done"
                                                 /\ ~ent'[entries'[k]][k].gone /\ ent'[entries'[k]][k].retained
    BY ZenonT(30) DEF KeysOK
  <2>1. entries'[k] # NoLoad => k \notin drops /\ entries'[k] = entries[k] /\ entries[k] \in Loads
    BY Zenon DEF Types, MaybeLoad
  <2> QED  BY <1>2, <1>4, <2>1, Zenon DEF KeysOK
<1>9. LoadsOK'
  <2> SUFFICES ASSUME NEW l \in Loads, NEW k \in Keys
               PROVE  /\ load[l].at \in {"run", "failed"} \/ (load[l].at = "fetched" /\ ~load[l].ok) => ent'[l][k].gone
                      /\ load[l].at = "fetched" /\ load[l].ok => (ent'[l][k].gone <=> k \notin load[l].keys)
    BY Zenon DEF LoadsOK
  <2>1. load[l].at # "done" => ent'[l][k] = ent[l][k]
    BY <1>1, <1>2, ZenonT(30)
  <2> QED  BY <2>1, Zenon DEF LoadsOK
<1>10. ASSUME NEW l \in Loads, load[l].at # "done", NEW d \in Callers, NEW k \in Keys
       PROVE  caller'[d].on[k] = l <=> caller[d].on[k] = l
  <2>1. l # NoLoad
    BY FlightsAssumption, Zenon
  <2>2. CASE d # c
    BY <2>2, Zenon DEF Types
  <2>3. CASE d = c
    <3>1. caller'[c] = new
      BY Zenon DEF Types
    <3>2. CASE rls[k] = NoLoad
      BY <2>3, <3>1, <3>2, ZenonT(30)
    <3>3. CASE rls[k] # NoLoad
      <4>1. caller[c].got[k] = rls[k] \/ caller[c].on[k] = rls[k]
        BY <3>3, Zenon DEF Handed
      <4>2. caller[c].on[k] # NoLoad => caller[c].got[k] = NoLoad
        BY Zenon DEF CallsOK
      <4>3. new.on[k] = NoLoad /\ load[rls[k]].at = "done"
        BY <3>3, Zenon
      <4> QED  BY <1>10, <2>1, <2>3, <3>1, <3>3, <4>1, <4>2, <4>3, ZenonT(30)
    <3> QED  BY <3>2, <3>3, Zenon
  <2> QED  BY <2>2, <2>3, Zenon
<1>11. WaitersOK'
  <2> SUFFICES ASSUME NEW l \in Loads, load[l].at \in Loading
               PROVE  /\ load[l].waiters = Cardinality(Pairs(l)')
                      /\ \A k \in Keys : load[l].on[k] = Cardinality(Joins(l, k)')
    BY Zenon DEF WaitersOK
  <2>1. Pairs(l)' = Pairs(l) /\ \A k \in Keys : Joins(l, k)' = Joins(l, k)
    BY <1>10 DEF Pairs, Joins, Loading
  <2> QED  BY <2>1, Zenon DEF WaitersOK
<1>12. ReadersCounted'
  <2> SUFFICES ASSUME NEW l \in Loads, NEW k \in Keys, load[l].at = "done", ~ent'[l][k].gone
               PROVE  ent'[l][k].readers = Cardinality(Handed(l, k)')
    BY ZenonT(30) DEF ReadersCounted
  <2> QED  BY <1>2, <1>3, <1>4 DEF ReadersCounted
<1>13. ASSUME NEW l \in Loads, NEW k \in Keys, NEW d \in Handed(l, k)', load[l].at = "done"
       PROVE  ~ent'[l][k].gone
  <2>1. CASE rls[k] = l
    BY <1>3, <1>4, <1>13, <2>1, Zenon
  <2>2. CASE rls[k] # l
    BY <1>2, <1>13, <2>2, HandedHasReader
  <2> QED  BY <2>1, <2>2, Zenon
<1>14. PinnedNotDisposed'
  <2> SUFFICES ASSUME NEW d \in Callers, NEW k \in Keys
               PROVE  /\ caller'[d].got[k] # NoLoad => ~ent'[caller'[d].got[k]][k].gone
                      /\ caller'[d].on[k] # NoLoad /\ load[caller'[d].on[k]].at = "done" => ~ent'[caller'[d].on[k]][k].gone
    BY ZenonT(30) DEF PinnedNotDisposed
  <2>1. PICK g, o : g = caller'[d].got[k] /\ o = caller'[d].on[k]
    BY ZenonT(30)
  <2>2. g \in MaybeLoad /\ o \in MaybeLoad /\ g \in {caller[d].got[k], NoLoad}
    BY <1>6, <2>1, Zenon DEF MaybeLoad
  <2>3. ASSUME g # NoLoad PROVE ~ent'[g][k].gone
    <3>1. g \in Loads /\ load[g].at = "done"
      BY <2>2, <2>3 DEF HoldsOK, MaybeLoad
    <3>2. d \in Handed(g, k)'
      BY <2>1, Zenon DEF Handed
    <3> QED  BY <1>13, <3>1, <3>2, Zenon
  <2>4. ASSUME o # NoLoad, load[o].at = "done" PROVE ~ent'[o][k].gone
    <3>1. o \in Loads
      BY <2>2, <2>4, Zenon DEF MaybeLoad
    <3>2. d \in Handed(o, k)'
      BY <2>1, <2>4, Zenon DEF Handed
    <3> QED  BY <1>13, <2>4, <3>1, <3>2, Zenon
  <2> QED  BY <2>1, <2>3, <2>4, ZenonT(30)
<1> QED  BY <1>5, <1>7, <1>8, <1>9, <1>11, <1>12, <1>14, Zenon

LEMMA ReleasesKeeps ==
    ASSUME IInv, NEW c \in Callers, Releases(c)
    PROVE  IInv'
<1> USE DEF IInv
<1> DEFINE rls == caller[c].got
           got == {k \in Keys : caller[c].got[k] # NoLoad}
<1>1. PICK drops \in {{}, {k \in got : MayDrop(ent[caller[c].got[k]][k])}} :
         /\ ent' = [l \in Loads |-> [k \in Keys |-> IF k \notin {o \in got : caller[c].got[o] = l} THEN ent[l][k]
                                                    ELSE IF k \in drops THEN Detach([ent[l][k] EXCEPT !.readers = 0])
                                                    ELSE Released(ent[l][k])]]
         /\ entries' = [k \in Keys |-> IF k \in drops THEN NoLoad ELSE entries[k]]
  BY Zenon DEF Releases
<1>2. /\ caller[c].at = "holds" \/ (caller[c].at = "leave" /\ On(c) = {})
      /\ caller' = [caller EXCEPT ![c] = Idle] /\ UNCHANGED <<load, flights, closed>>
  BY Zenon DEF Releases
<1>3. ASSUME NEW l \in Loads, NEW k \in Keys
      PROVE  k \notin {o \in got : caller[c].got[o] = l} <=> rls[k] # l
  BY FlightsAssumption, Zenon
<1>4. ent' = [l \in Loads |-> [k \in Keys |-> IF rls[k] # l THEN ent[l][k]
                                              ELSE IF k \in drops THEN Detach([ent[l][k] EXCEPT !.readers = 0])
                                              ELSE Released(ent[l][k])]]
  BY <1>1, <1>3, Zenon
<1>5. \A k \in Keys : caller[c].on[k] = NoLoad
  BY <1>2, Zenon DEF CallsOK, On
<1>6. Idle \in Caller /\ rls \in [Keys -> MaybeLoad] /\ \A k \in Keys : Idle.got[k] = NoLoad /\ Idle.on[k] = NoLoad
  BY Zenon DEF Idle, Caller, CallStates, MaybeLoad, Types
<1>7. \A k \in Keys : rls[k] # NoLoad => c \in Handed(rls[k], k) /\ load[rls[k]].at = "done"
  BY Zenon DEF Handed, HoldsOK
<1>8. \A k \in drops : k \in Keys /\ rls[k] # NoLoad /\ MayDrop(ent[rls[k]][k])
  BY <1>1, Zenon
<1>9. CallsOK'
  <2>1. caller'[c] = Idle /\ \A d \in Callers \ {c} : caller'[d] = caller[d]
    BY <1>2, Zenon DEF Types
  <2>2. Idle.at = "idle"
    BY Zenon DEF Idle
  <2> QED  BY <1>6, <2>1, <2>2 DEF CallsOK, On
<1> HIDE DEF rls, got
<1>10. \A k \in Keys : IF rls[k] # NoLoad THEN Idle.got[k] = NoLoad /\ Idle.on[k] = NoLoad
                       ELSE Idle.got[k] = caller[c].got[k] /\ Idle.on[k] = caller[c].on[k]
  BY <1>5, <1>6, Zenon DEF rls
<1>11. caller' = [caller EXCEPT ![c] = Idle] /\ UNCHANGED <<load, flights, closed>>
  BY <1>2, Zenon
<1>12. entries' = [k \in Keys |-> IF k \in drops THEN NoLoad ELSE entries[k]]
  BY <1>1, Zenon
<1>13. Idle \in Caller /\ rls \in [Keys -> MaybeLoad]
  BY <1>6, Zenon
<1>14. ReleaseStep(c, rls, Idle, drops)
  BY <1>4, <1>7, <1>8, <1>9, <1>10, <1>11, <1>12, Zenon DEF ReleaseStep
<1> HIDE DEF IInv
<1> QED  BY <1>13, <1>14, ReleaseKeeps, Zenon
=============================================================================
