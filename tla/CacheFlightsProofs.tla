------------------------- MODULE CacheFlightsProofs -------------------------
(***************************************************************************)
(* PinnedNotDisposed for any reads, keys and loads: one flight of a read   *)
(* and a batch admitted keep the invariant, and the theorems.              *)
(***************************************************************************)
EXTENDS CacheFlightsLoads

(* One flight of a read: taken, seen to fail, or left.                     *)

LEMMA FirstOnIs ==
    ASSUME NEW c \in Callers, On(c) # {}
    PROVE  FirstOn(c) \in Keys /\ caller[c].on[FirstOn(c)] # NoLoad
<1>1. \E k \in On(c) : \A o \in On(c) : k <= o
  BY FlightsAssumption, ZenonT(30) DEF On
<1>2. FirstOn(c) \in On(c)
  BY <1>1, Zenon DEF FirstOn
<1> QED  BY <1>2, Zenon DEF On

\* c's flight for k is l no more; what it is handed is said by new.
OneFlight(c, k, new) ==
    /\ caller' = [caller EXCEPT ![c] = new] /\ new.on[k] = NoLoad
    /\ \A o \in Keys \ {k} : new.on[o] = caller[c].on[o] /\ new.got[o] = caller[c].got[o]

LEMMA OneFlightIs ==
    ASSUME IInv, NEW c \in Callers, NEW k \in Keys, NEW new \in Caller, OneFlight(c, k, new)
    PROVE  /\ caller' \in [Callers -> Caller] /\ caller'[c] = new /\ \A d \in Callers \ {c} : caller'[d] = caller[d]
           /\ \A d \in Callers : \A o \in Keys : <<d, o>> # <<c, k>> =>
                 caller'[d].on[o] = caller[d].on[o] /\ caller'[d].got[o] = caller[d].got[o]
           /\ \A d \in Callers : \A o \in Keys : caller[d].on[o] \in MaybeLoad /\ caller[d].got[o] \in MaybeLoad
<1>1. caller \in [Callers -> Caller]
  BY Zenon DEF IInv, Types
<1>2. caller' \in [Callers -> Caller] /\ caller'[c] = new /\ \A d \in Callers \ {c} : caller'[d] = caller[d]
  BY <1>1, Zenon DEF OneFlight
<1>3. ASSUME NEW d \in Callers, NEW o \in Keys, <<d, o>> # <<c, k>>
      PROVE  caller'[d].on[o] = caller[d].on[o] /\ caller'[d].got[o] = caller[d].got[o]
  BY <1>2, <1>3, Zenon DEF OneFlight
<1>4. \A d \in Callers : \A o \in Keys : caller[d].on[o] \in MaybeLoad /\ caller[d].got[o] \in MaybeLoad
  BY <1>1, ZenonT(30) DEF Caller
<1> QED  BY <1>2, <1>3, <1>4, Zenon

LEMMA OneFlightCalls ==
    ASSUME IInv, NEW c \in Callers, NEW k \in Keys, NEW new \in Caller, OneFlight(c, k, new), caller[c].on[k] # NoLoad,
           \/ new.at = "leave"
           \/ new.at = "holds" /\ On(c) = {k}
           \/ new.at = "collect" /\ On(c) # {k}
    PROVE  CallsOK'
<1>1. caller'[c] = new /\ \A d \in Callers \ {c} : caller'[d] = caller[d]
  BY OneFlightIs, Zenon
<1>2. \A o \in Keys : new.on[o] # NoLoad => new.got[o] = NoLoad
  BY Zenon DEF IInv, CallsOK, OneFlight
<1>3. new.at = "holds" => \A o \in Keys : new.on[o] = NoLoad
  BY Zenon DEF OneFlight, On
<1>4. new.at = "collect" => \E o \in Keys : new.on[o] # NoLoad
  BY Zenon DEF OneFlight, On
<1>5. ASSUME NEW d \in Callers
      PROVE  /\ caller'[d].at \in {"idle", "admit", "blocked"} => \A o \in Keys : caller'[d].got[o] = NoLoad
             /\ caller'[d].at \in {"idle", "admit", "blocked", "holds"} => \A o \in Keys : caller'[d].on[o] = NoLoad
             /\ caller'[d].at = "collect" => \E o \in Keys : caller'[d].on[o] # NoLoad
             /\ \A o \in Keys : caller'[d].on[o] # NoLoad => caller'[d].got[o] = NoLoad
  <2>1. CASE d = c
    BY <1>1, <1>2, <1>3, <1>4, <2>1, Zenon
  <2>2. CASE d # c
    BY <1>1, <2>2 DEF IInv, CallsOK, On
  <2> QED  BY <2>1, <2>2, Zenon
<1> QED  BY <1>5, Zenon DEF CallsOK, On

\* A flight that failed: its load is nothing once nobody is left to see it.
LEMMA ForgetKeeps ==
    ASSUME IInv, NEW c \in Callers, NEW k \in Keys, NEW new \in Caller, OneFlight(c, k, new), CallsOK',
           NEW l \in Loads, caller[c].on[k] = l, load[l].at = "failed", new.got[k] = NoLoad,
           load' = Forgotten(c, k, l), UNCHANGED <<ent, flights, entries, closed>>
    PROVE  IInv'
<1> USE DEF IInv
<1>0. /\ caller' \in [Callers -> Caller] /\ caller'[c] = new /\ \A d \in Callers \ {c} : caller'[d] = caller[d]
      /\ \A d \in Callers : \A o \in Keys : <<d, o>> # <<c, k>> =>
            caller'[d].on[o] = caller[d].on[o] /\ caller'[d].got[o] = caller[d].got[o]
      /\ \A d \in Callers : \A o \in Keys : caller[d].on[o] \in MaybeLoad /\ caller[d].got[o] \in MaybeLoad
  BY OneFlightIs, Zenon
<1>01. new.on[k] = NoLoad
  BY Zenon DEF OneFlight
<1>1. l # NoLoad
  BY FlightsAssumption, Zenon
<1>2. /\ load' \in [Loads -> Load] /\ \A m \in Loads \ {l} : load'[m] = load[m]
      /\ load'[l].at = "failed" \/ (load'[l].at = "done" /\ \A d \in Callers : \A o \in Keys : caller[d].on[o] = l => <<d, o>> = <<c, k>>)
  <2>1. load \in [Loads -> Load]
    BY Zenon DEF Types
  <2>2. \/ /\ load' = [load EXCEPT ![l] = Unused]
           /\ \A d \in Callers : \A o \in Keys : caller[d].on[o] = l => <<d, o>> = <<c, k>>
        \/ load' = load
    BY Zenon DEF Forgotten
  <2> QED  BY <2>1, <2>2, UnusedLoad, ZenonT(30)
<1>3. /\ \A d \in Callers : \A o \in Keys : caller[d].got[o] # l /\ caller'[d].got[o] # l
      /\ \A o \in Keys : flights[o] # l /\ entries[o] # l /\ ent[l][o].gone
  <2>1. \A d \in Callers : \A o \in Keys : caller[d].got[o] # l
    BY <1>1, Zenon DEF HoldsOK
  <2>2. \A d \in Callers : \A o \in Keys : caller'[d].got[o] # l
    BY <1>1, <2>1, <1>0
  <2>3. \A o \in Keys : flights[o] # l /\ entries[o] # l
    BY <1>1, Zenon DEF KeysOK, Loading
  <2>4. \A o \in Keys : ent[l][o].gone
    BY Zenon DEF LoadsOK
  <2> QED  BY <2>1, <2>2, <2>3, <2>4, Zenon
<1>4. ASSUME NEW d \in Callers, NEW o \in Keys
      PROVE  /\ caller'[d].got[o] = caller[d].got[o]
             /\ caller'[d].on[o] = caller[d].on[o] \/ (<<d, o>> = <<c, k>> /\ caller'[d].on[o] = NoLoad)
  <2>1. caller[c].got[k] = NoLoad /\ caller'[c].got[k] = NoLoad /\ caller'[c].on[k] = NoLoad
    BY <1>1, <1>0, <1>01, Zenon DEF CallsOK
  <2> QED  BY <2>1, <1>0, Zenon
<1>5. \A m \in Loads \ {l} : \A o \in Keys : /\ Handed(m, o)' = Handed(m, o) /\ Joins(m, o)' = Joins(m, o)
                                             /\ Pairs(m)' = Pairs(m)
  <2> SUFFICES ASSUME NEW m \in Loads \ {l}, NEW o \in Keys
               PROVE  Handed(m, o)' = Handed(m, o) /\ Joins(m, o)' = Joins(m, o) /\ Pairs(m)' = Pairs(m)
    BY Zenon
  <2>1. m # NoLoad /\ load'[m] = load[m]
    BY <1>2, FlightsAssumption, Zenon
  <2>2. \A d \in Callers : \A j \in Keys : caller'[d].on[j] = m <=> caller[d].on[j] = m
    BY <1>4, <2>1, Zenon
  <2>3. Handed(m, o)' = Handed(m, o)
    BY <1>4, <2>1, <2>2, ZenonT(30) DEF Handed
  <2>4. Joins(m, o)' = Joins(m, o)
    BY <2>2, Zenon DEF Joins
  <2>5. Pairs(m)' = Pairs(m)
    BY <2>2, Zenon DEF Pairs
  <2> QED  BY <2>3, <2>4, <2>5, Zenon
<1>6. Types'
  BY <1>2, <1>0, Zenon DEF Types
<1>7. HoldsOK'
  <2> SUFFICES ASSUME NEW d \in Callers, NEW o \in Keys
               PROVE  /\ caller'[d].got[o] # NoLoad => load'[caller'[d].got[o]].at = "done"
                      /\ caller'[d].on[o] # NoLoad /\ load'[caller'[d].on[o]].at \in Loading
                            => o \in load'[caller'[d].on[o]].keys
    BY Zenon DEF HoldsOK
  <2>1. caller[d].got[o] \in MaybeLoad /\ caller[d].on[o] \in MaybeLoad
    BY <1>0, Zenon
  <2>2. caller'[d].got[o] # NoLoad => load'[caller'[d].got[o]].at = "done"
    BY <1>2, <1>3, <1>4, <2>1, SMTT(30) DEF HoldsOK, MaybeLoad
  <2>3. ASSUME caller'[d].on[o] # NoLoad, load'[caller'[d].on[o]].at \in Loading
        PROVE  o \in load'[caller'[d].on[o]].keys
    <3>1. caller'[d].on[o] = caller[d].on[o] /\ caller[d].on[o] \in Loads
      BY <1>4, <2>1, <2>3, Zenon DEF MaybeLoad
    <3>2. caller[d].on[o] # l
      BY <1>2, <2>3, <3>1, Zenon DEF Loading
    <3> QED  BY <1>2, <2>3, <3>1, <3>2 DEF HoldsOK
  <2> QED  BY <2>2, <2>3, Zenon
<1>8. KeysOK'
  BY <1>2, <1>3, SMTT(30) DEF KeysOK, Types, MaybeLoad
<1>9. LoadsOK'
  BY <1>2, <1>3 DEF LoadsOK
<1>10. WaitersOK'
  BY <1>2, <1>5, SMTT(30) DEF WaitersOK, Loading
<1>11. ReadersCounted'
  BY <1>2, <1>3, <1>5, SMTT(30) DEF ReadersCounted
<1>12. PinnedNotDisposed'
  <2> SUFFICES ASSUME NEW d \in Callers, NEW o \in Keys
               PROVE  /\ caller'[d].got[o] # NoLoad => ~ent[caller'[d].got[o]][o].gone
                      /\ caller'[d].on[o] # NoLoad /\ load'[caller'[d].on[o]].at = "done" => ~ent[caller'[d].on[o]][o].gone
    BY Zenon DEF PinnedNotDisposed
  <2>1. caller[d].got[o] \in MaybeLoad /\ caller[d].on[o] \in MaybeLoad
    BY <1>0, Zenon
  <2>2. caller'[d].got[o] # NoLoad => ~ent[caller'[d].got[o]][o].gone
    BY <1>4, ZenonT(30) DEF PinnedNotDisposed
  <2>3. ASSUME caller'[d].on[o] # NoLoad, load'[caller'[d].on[o]].at = "done"
        PROVE  ~ent[caller'[d].on[o]][o].gone
    <3>1. caller'[d].on[o] = caller[d].on[o] /\ caller[d].on[o] \in Loads
      BY <1>4, <2>1, <2>3, Zenon DEF MaybeLoad
    <3>2. caller[d].on[o] # l
      <4>1. <<d, o>> = <<c, k>> => caller'[d].on[o] = NoLoad
        BY <1>0, <1>01, Zenon
      <4> QED  BY <1>2, <2>3, <3>1, <4>1, Zenon
    <3> QED  BY <1>2, <2>3, <3>1, <3>2 DEF PinnedNotDisposed
  <2> QED  BY <2>2, <2>3, Zenon
<1> QED  BY <1>6, <1>7, <1>8, <1>9, <1>10, <1>11, <1>12, Zenon
\* A flight that brought its entry: the read that was handed it holds it.
LEMMA TakeKeeps ==
    ASSUME IInv, NEW c \in Callers, NEW k \in Keys, NEW new \in Caller, OneFlight(c, k, new), CallsOK',
           NEW l \in Loads, caller[c].on[k] = l, load[l].at = "done", new.got[k] = l,
           UNCHANGED <<load, ent, flights, entries, closed>>
    PROVE  IInv'
<1> USE DEF IInv
<1>0. /\ caller' \in [Callers -> Caller] /\ caller'[c] = new /\ \A d \in Callers \ {c} : caller'[d] = caller[d]
      /\ \A d \in Callers : \A o \in Keys : <<d, o>> # <<c, k>> =>
            caller'[d].on[o] = caller[d].on[o] /\ caller'[d].got[o] = caller[d].got[o]
      /\ \A d \in Callers : \A o \in Keys : caller[d].on[o] \in MaybeLoad /\ caller[d].got[o] \in MaybeLoad
  BY OneFlightIs, Zenon
<1>01. new.on[k] = NoLoad
  BY Zenon DEF OneFlight
<1>1. l # NoLoad /\ caller[c].got[k] = NoLoad
  BY FlightsAssumption, Zenon DEF CallsOK
<1>2. caller'[c].on[k] = NoLoad /\ caller'[c].got[k] = l
  BY <1>0, <1>01, Zenon
<1>3. \A m \in Loads : \A o \in Keys : Handed(m, o)' = Handed(m, o)
  <2> SUFFICES ASSUME NEW m \in Loads, NEW o \in Keys, NEW d \in Callers
               PROVE  (caller'[d].got[o] = m \/ (caller'[d].on[o] = m /\ load[m].at = "done"))
                         <=> (caller[d].got[o] = m \/ (caller[d].on[o] = m /\ load[m].at = "done"))
    BY Zenon DEF Handed
  <2>1. m # NoLoad
    BY FlightsAssumption, Zenon
  <2>2. CASE <<d, o>> = <<c, k>>
    BY <1>1, <1>2, <2>1, <2>2, Zenon
  <2>3. CASE <<d, o>> # <<c, k>>
    BY <2>3, <1>0, Zenon
  <2> QED  BY <2>2, <2>3, Zenon
<1>4. ASSUME NEW m \in Loads, load[m].at \in Loading, NEW d \in Callers, NEW o \in Keys
      PROVE  caller'[d].on[o] = m <=> caller[d].on[o] = m
  <2>1. m # NoLoad /\ m # l
    BY <1>4, FlightsAssumption, Zenon DEF Loading
  <2> QED  BY <1>2, <2>1, <1>0, Zenon
<1>5. Types'
  BY <1>0, Zenon DEF Types
<1>6. HoldsOK'
  <2> SUFFICES ASSUME NEW d \in Callers, NEW o \in Keys
               PROVE  /\ caller'[d].got[o] # NoLoad => load[caller'[d].got[o]].at = "done"
                      /\ caller'[d].on[o] # NoLoad /\ load[caller'[d].on[o]].at \in Loading
                            => o \in load[caller'[d].on[o]].keys
    BY Zenon DEF HoldsOK
  <2>1. CASE <<d, o>> = <<c, k>>
    BY <1>2, <2>1, Zenon
  <2>2. CASE <<d, o>> # <<c, k>>
    BY <2>2, <1>0, SMTT(30) DEF HoldsOK
  <2> QED  BY <2>1, <2>2, Zenon
<1>7. KeysOK' /\ LoadsOK'
  BY Zenon DEF KeysOK, LoadsOK
<1>8. WaitersOK'
  <2> SUFFICES ASSUME NEW m \in Loads, load[m].at \in Loading
               PROVE  /\ load[m].waiters = Cardinality(Pairs(m)')
                      /\ \A o \in Keys : load[m].on[o] = Cardinality(Joins(m, o)')
    BY Zenon DEF WaitersOK
  <2>1. Pairs(m)' = Pairs(m)
    BY <1>4 DEF Pairs
  <2>2. \A o \in Keys : Joins(m, o)' = Joins(m, o)
    BY <1>4, ZenonT(30) DEF Joins
  <2> QED  BY <2>1, <2>2, Zenon DEF WaitersOK
<1>9. ReadersCounted'
  BY <1>3, Zenon DEF ReadersCounted
<1>10. PinnedNotDisposed'
  <2> SUFFICES ASSUME NEW d \in Callers, NEW o \in Keys
               PROVE  /\ caller'[d].got[o] # NoLoad => ~ent[caller'[d].got[o]][o].gone
                      /\ caller'[d].on[o] # NoLoad /\ load[caller'[d].on[o]].at = "done" => ~ent[caller'[d].on[o]][o].gone
    BY Zenon DEF PinnedNotDisposed
  <2>1. CASE <<d, o>> = <<c, k>>
    BY <1>1, <1>2, <2>1, Zenon DEF PinnedNotDisposed
  <2>2. CASE <<d, o>> # <<c, k>>
    <3>1. caller'[d].on[o] = caller[d].on[o] /\ caller'[d].got[o] = caller[d].got[o]
      BY <1>0, <2>2, Zenon
    <3> QED  BY <3>1, Zenon DEF PinnedNotDisposed
  <2> QED  BY <2>1, <2>2, Zenon
<1> QED  BY <1>5, <1>6, <1>7, <1>8, <1>9, <1>10, Zenon

\* A flight whose load runs: it has a waiter fewer, and with none is cancelled.
LeftStep(l, k, left) ==
    /\ load' = [load EXCEPT ![l] = left]
    /\ left.at = load[l].at /\ left.keys = load[l].keys /\ left.ok = load[l].ok /\ left.waiters = load[l].waiters - 1
    /\ \A o \in Keys : left.on[o] = IF o = k THEN load[l].on[k] - 1 ELSE load[l].on[o]
    /\ flights' \in {flights, Unjoinable(l)} /\ UNCHANGED <<ent, entries, closed>>

LEMMA LeftKeeps ==
    ASSUME IInv, NEW c \in Callers, NEW k \in Keys, NEW new \in Caller, OneFlight(c, k, new), CallsOK',
           NEW l \in Loads, caller[c].on[k] = l, load[l].at \in Loading, new.got[k] = NoLoad,
           NEW left \in Load, LeftStep(l, k, left)
    PROVE  IInv'
<1> USE DEF IInv, LeftStep
<1>0. /\ caller' \in [Callers -> Caller] /\ caller'[c] = new /\ \A d \in Callers \ {c} : caller'[d] = caller[d]
      /\ \A d \in Callers : \A o \in Keys : <<d, o>> # <<c, k>> =>
            caller'[d].on[o] = caller[d].on[o] /\ caller'[d].got[o] = caller[d].got[o]
      /\ \A d \in Callers : \A o \in Keys : caller[d].on[o] \in MaybeLoad /\ caller[d].got[o] \in MaybeLoad
  BY OneFlightIs, Zenon
<1>01. new.on[k] = NoLoad
  BY Zenon DEF OneFlight
<1>1. l # NoLoad /\ caller[c].got[k] = NoLoad
  BY FlightsAssumption, SMTT(30) DEF CallsOK
<1>2. /\ load' \in [Loads -> Load] /\ load'[l] = left
      /\ \A m \in Loads : m # l => load'[m] = load[m]
      /\ \A m \in Loads : load'[m].at = load[m].at /\ load'[m].keys = load[m].keys /\ load'[m].ok = load[m].ok
  BY Zenon DEF Types
<1>3. caller'[c].on[k] = NoLoad /\ caller'[c].got[k] = NoLoad
  BY <1>0, <1>01, Zenon
<1>4. \A d \in Callers : \A o \in Keys : /\ caller'[d].got[o] = caller[d].got[o]
                                         /\ caller'[d].on[o] = IF <<d, o>> = <<c, k>> THEN NoLoad ELSE caller[d].on[o]
  BY <1>1, <1>3, <1>0, SMTT(30)
<1>5. \A m \in Loads : \A o \in Keys : Handed(m, o)' = Handed(m, o)
  <2> SUFFICES ASSUME NEW m \in Loads, NEW o \in Keys, NEW d \in Callers
               PROVE  (caller'[d].got[o] = m \/ (caller'[d].on[o] = m /\ load'[m].at = "done"))
                         <=> (caller[d].got[o] = m \/ (caller[d].on[o] = m /\ load[m].at = "done"))
    BY ZenonT(30) DEF Handed
  <2>1. m # NoLoad /\ (load[m].at = "done" => m # l)
    BY FlightsAssumption, Zenon DEF Loading
  <2> QED  BY <1>2, <1>4, <2>1, SMTT(30)
<1>6. flights' \in [Keys -> MaybeLoad] /\ \A o \in Keys : flights'[o] \in {flights[o], NoLoad}
  BY Zenon DEF Types, Unjoinable, MaybeLoad
<1>7. Types'
  BY <1>2, <1>6, <1>0, Zenon DEF Types
<1>8. HoldsOK'
  <2> SUFFICES ASSUME NEW d \in Callers, NEW o \in Keys
               PROVE  /\ caller'[d].got[o] # NoLoad => load'[caller'[d].got[o]].at = "done"
                      /\ caller'[d].on[o] # NoLoad /\ load'[caller'[d].on[o]].at \in Loading
                            => o \in load'[caller'[d].on[o]].keys
    BY Zenon DEF HoldsOK
  <2>1. /\ caller'[d].got[o] = caller[d].got[o] /\ caller'[d].on[o] \in {caller[d].on[o], NoLoad}
        /\ caller[d].got[o] \in MaybeLoad /\ caller[d].on[o] \in MaybeLoad
    BY <1>0, <1>4, ZenonT(30)
  <2>2. caller'[d].got[o] # NoLoad => load'[caller'[d].got[o]].at = "done"
    BY <1>2, <2>1, SMTT(30) DEF HoldsOK, MaybeLoad
  <2>3. ASSUME caller'[d].on[o] # NoLoad, load'[caller'[d].on[o]].at \in Loading
        PROVE  o \in load'[caller'[d].on[o]].keys
    <3>1. caller'[d].on[o] = caller[d].on[o] /\ caller[d].on[o] \in Loads
      BY <2>1, <2>3, Zenon DEF MaybeLoad
    <3>2. load[caller[d].on[o]].at \in Loading /\ load'[caller[d].on[o]].keys = load[caller[d].on[o]].keys
      BY <1>2, <2>3, <3>1, Zenon
    <3>3. o \in load[caller[d].on[o]].keys
      BY <2>3, <3>1, <3>2, Zenon DEF HoldsOK
    <3> QED  BY <3>1, <3>2, <3>3, Zenon
  <2> QED  BY <2>2, <2>3, Zenon
<1>9. KeysOK'
  BY <1>2, <1>6, SMTT(30) DEF KeysOK, Types, MaybeLoad
<1>10. LoadsOK'
  BY <1>2, SMTT(30) DEF LoadsOK
<1>11. WaitersOK'
  <2> SUFFICES ASSUME NEW m \in Loads, load'[m].at \in Loading
               PROVE  /\ load'[m].waiters = Cardinality(Pairs(m)')
                      /\ \A o \in Keys : load'[m].on[o] = Cardinality(Joins(m, o)')
    BY Zenon DEF WaitersOK
  <2>0. m # NoLoad /\ load[m].at \in Loading
    BY <1>2, FlightsAssumption, Zenon
  <2>1. CASE m # l
    <3>1. \A d \in Callers : \A o \in Keys : caller'[d].on[o] = m <=> caller[d].on[o] = m
      BY <1>4, <2>0, <2>1, ZenonT(30)
    <3>2. Pairs(m)' = Pairs(m)
      BY <3>1, SMTT(30) DEF Pairs
    <3>3. \A o \in Keys : Joins(m, o)' = Joins(m, o)
      BY <3>1, Zenon DEF Joins
    <3>4. load'[m] = load[m]
      BY <1>2, <2>1, Zenon
    <3> QED  BY <2>0, <3>2, <3>3, <3>4, Zenon DEF WaitersOK
  <2>2. CASE m = l
    <3>1. \A d \in Callers : \A o \in Keys : caller'[d].on[o] = l <=> caller[d].on[o] = l /\ <<d, o>> # <<c, k>>
      BY <1>1, <1>4, Zenon
    <3>2. Pairs(l)' = Pairs(l) \ {<<c, k>>} /\ <<c, k>> \in Pairs(l)
      <4>1. <<c, k>> \in Pairs(l)
        BY Zenon DEF Pairs
      <4>2. ASSUME NEW p \in Callers \X Keys
            PROVE  caller'[p[1]].on[p[2]] = l <=> caller[p[1]].on[p[2]] = l /\ p # <<c, k>>
        <5>1. p[1] \in Callers /\ p[2] \in Keys /\ p = <<p[1], p[2]>>
          BY SMTT(30)
        <5> QED  BY <3>1, <5>1, SMTT(30)
      <4> QED  BY <4>1, <4>2, Zenon DEF Pairs
    <3>3. Joins(l, k)' = Joins(l, k) \ {c} /\ c \in Joins(l, k)
      BY <3>1, Zenon DEF Joins
    <3>4. \A o \in Keys : o # k => Joins(l, o)' = Joins(l, o)
      BY <3>1, Zenon DEF Joins
    <3>5. Cardinality(Pairs(l)') = load[l].waiters - 1
      BY <2>0, <2>2, <3>2, FiniteParts, Fewer, SMTT(30) DEF WaitersOK
    <3>6. Cardinality(Joins(l, k)') = load[l].on[k] - 1
      BY <2>0, <2>2, <3>3, FiniteParts, Fewer, SMTT(30) DEF WaitersOK
    <3>7. \A o \in Keys : o # k => Cardinality(Joins(l, o)') = load[l].on[o]
      BY <2>0, <2>2, <3>4, Zenon DEF WaitersOK
    <3> QED  BY <1>2, <2>2, <3>5, <3>6, <3>7, ZenonT(30)
  <2> QED  BY <2>1, <2>2, Zenon
<1>12. ReadersCounted'
  BY <1>2, <1>5, SMTT(30) DEF ReadersCounted
<1>13. PinnedNotDisposed'
  <2> SUFFICES ASSUME NEW d \in Callers, NEW o \in Keys
               PROVE  /\ caller'[d].got[o] # NoLoad => ~ent[caller'[d].got[o]][o].gone
                      /\ caller'[d].on[o] # NoLoad /\ load'[caller'[d].on[o]].at = "done" => ~ent[caller'[d].on[o]][o].gone
    BY ZenonT(30) DEF PinnedNotDisposed
  <2>1. caller'[d].got[o] = caller[d].got[o] /\ caller'[d].on[o] \in {caller[d].on[o], NoLoad} /\ caller[d].on[o] \in MaybeLoad
    BY <1>0, <1>4, ZenonT(30)
  <2>2. caller'[d].got[o] # NoLoad => ~ent[caller'[d].got[o]][o].gone
    BY <2>1, ZenonT(30) DEF PinnedNotDisposed
  <2>3. ASSUME caller'[d].on[o] # NoLoad, load'[caller'[d].on[o]].at = "done"
        PROVE  ~ent[caller'[d].on[o]][o].gone
    <3>1. caller'[d].on[o] = caller[d].on[o] /\ caller[d].on[o] \in Loads
      BY <2>1, <2>3, Zenon DEF MaybeLoad
    <3>2. load[caller[d].on[o]].at = "done"
      BY <1>2, <2>3, <3>1, ZenonT(30)
    <3> QED  BY <2>3, <3>1, <3>2, ZenonT(30) DEF PinnedNotDisposed
  <2> QED  BY <2>2, <2>3, ZenonT(30)
<1> QED  BY <1>7, <1>8, <1>9, <1>10, <1>11, <1>12, <1>13, Zenon
LEMMA CollectsKeeps ==
    ASSUME IInv, NEW c \in Callers, Collects(c)
    PROVE  IInv'
<1> DEFINE k == FirstOn(c)
           l == caller[c].on[k]
           new == [caller[c] EXCEPT !.on[k] = NoLoad, !.got[k] = IF load[l].at = "done" THEN l ELSE NoLoad,
                                    !.at = IF load[l].at = "failed" THEN "leave" ELSE IF On(c) = {k} THEN "holds" ELSE "collect"]
<1>1. /\ caller[c].at = "collect" /\ load[l].at \in {"done", "failed"} /\ load' = Forgotten(c, k, l)
      /\ UNCHANGED <<ent, flights, entries, closed>>
      /\ caller' = [caller EXCEPT ![c].on[k] = NoLoad, ![c].got[k] = IF load[l].at = "done" THEN l ELSE NoLoad,
                                  ![c].at = IF load[l].at = "failed" THEN "leave" ELSE IF On(c) = {k} THEN "holds" ELSE "collect"]
  BY Zenon DEF Collects
<1>2. On(c) # {}
  BY <1>1, Zenon DEF IInv, CallsOK
<1>3. k \in Keys /\ l # NoLoad
  BY <1>2, FirstOnIs, Zenon
<1>4. caller[c] \in Caller /\ caller \in [Callers -> Caller]
  BY Zenon DEF IInv, Types
<1>5. l \in Loads
  BY <1>3, <1>4, Zenon DEF Caller, MaybeLoad
<1>6. caller' = [caller EXCEPT ![c] = new]
  BY <1>1, <1>4, ZenonT(30)
<1> HIDE DEF k, l
<1>7. /\ new \in Caller /\ new.on[k] = NoLoad /\ new.got[k] = (IF load[l].at = "done" THEN l ELSE NoLoad)
      /\ new.at = (IF load[l].at = "failed" THEN "leave" ELSE IF On(c) = {k} THEN "holds" ELSE "collect")
      /\ \A o \in Keys \ {k} : new.on[o] = caller[c].on[o] /\ new.got[o] = caller[c].got[o]
  BY <1>3, <1>4, <1>5, ZenonT(30) DEF Caller, CallStates, MaybeLoad
<1>8. l = caller[c].on[k]
  BY Zenon DEF l
<1> HIDE DEF new
<1>9. OneFlight(c, k, new)
  BY <1>6, <1>7, Zenon DEF OneFlight
<1>10. CallsOK'
  BY <1>3, <1>7, <1>8, <1>9, OneFlightCalls, Zenon
<1>11. CASE load[l].at = "failed"
  BY <1>1, <1>3, <1>5, <1>7, <1>8, <1>9, <1>10, <1>11, ForgetKeeps, Zenon
<1>12. CASE load[l].at = "done"
  <2>1. load' = load
    BY <1>1, <1>12, Zenon DEF Forgotten
  <2> QED  BY <1>1, <1>3, <1>5, <1>7, <1>8, <1>9, <1>10, <1>12, <2>1, TakeKeeps, Zenon
<1> QED  BY <1>1, <1>11, <1>12, Zenon

LEMMA LeavesKeeps ==
    ASSUME IInv, NEW c \in Callers, Leaves(c)
    PROVE  IInv'
<1> DEFINE k == FirstOn(c)
           l == caller[c].on[k]
           last == load[l].waiters = 1
           new == [caller[c] EXCEPT !.on[k] = NoLoad]
           left == [load[l] EXCEPT !.on[k] = @ - 1, !.waiters = @ - 1, !.cancelled = @ \/ last]
<1>1. /\ caller[c].at = "leave" /\ On(c) # {} /\ UNCHANGED <<entries, closed>>
      /\ caller' = [caller EXCEPT ![c].on[k] = NoLoad]
      /\ load[l].at \in {"done", "failed"} =>
            /\ ent' = IF load[l].at = "done" THEN [ent EXCEPT ![l][k] = Released(@)] ELSE ent
            /\ load' = Forgotten(c, k, l) /\ UNCHANGED flights
      /\ load[l].at \notin {"done", "failed"} =>
            /\ load' = [load EXCEPT ![l].on[k] = @ - 1, ![l].waiters = @ - 1, ![l].cancelled = @ \/ last]
            /\ flights' = (IF last THEN Unjoinable(l) ELSE flights) /\ UNCHANGED ent
  BY ZenonT(30) DEF Leaves
<1>2. k \in Keys /\ l # NoLoad
  BY <1>1, FirstOnIs, ZenonT(30)
<1>3. caller[c] \in Caller /\ caller \in [Callers -> Caller] /\ load \in [Loads -> Load] /\ ent \in [Loads -> [Keys -> Entry]]
  BY Zenon DEF IInv, Types
<1>4. l \in Loads
  BY <1>2, <1>3, Zenon DEF Caller, MaybeLoad
<1>5. caller' = [caller EXCEPT ![c] = new]
  BY <1>1, <1>3, ZenonT(30)
<1> HIDE DEF k, l
<1>6. /\ new \in Caller /\ new.on[k] = NoLoad /\ new.at = caller[c].at
      /\ new.got = caller[c].got /\ \A o \in Keys \ {k} : new.on[o] = caller[c].on[o]
  BY <1>2, <1>3, ZenonT(30) DEF Caller, MaybeLoad
<1>7. l = caller[c].on[k]
  BY Zenon DEF l
<1> HIDE DEF new
<1>8. OneFlight(c, k, new)
  BY <1>5, <1>6, Zenon DEF OneFlight
<1>9. CallsOK' /\ new.got[k] = NoLoad
  <2>1. new.got[k] = NoLoad
    BY <1>2, <1>6, <1>7, ZenonT(30) DEF IInv, CallsOK
  <2> QED  BY <1>1, <1>2, <1>6, <1>7, <1>8, <2>1, OneFlightCalls, ZenonT(30)
<1>10. CASE load[l].at = "failed"
  <2>1. ent' = ent /\ load' = Forgotten(c, k, l) /\ UNCHANGED flights
    BY <1>1, <1>10, Zenon
  <2> QED  BY <1>1, <1>2, <1>4, <1>6, <1>7, <1>8, <1>9, <1>10, <2>1, ForgetKeeps, SMTT(30)
<1>11. CASE load[l].at = "done"
  <2> DEFINE rls == [j \in Keys |-> IF j = k THEN l ELSE NoLoad]
  <2>1. ent' = [ent EXCEPT ![l][k] = Released(@)] /\ load' = load /\ UNCHANGED flights
    BY <1>1, <1>11, Zenon DEF Forgotten
  <2>2. ent' = [m \in Loads |-> [j \in Keys |-> IF m = l /\ j = k THEN Released(ent[l][k]) ELSE ent[m][j]]]
    BY <1>2, <1>3, <1>4, <2>1, ZenonT(30)
  <2>3. ASSUME NEW m \in Loads, NEW j \in Keys PROVE rls[j] # m <=> ~(m = l /\ j = k)
    BY <1>2, FlightsAssumption, Zenon
  <2>4. ent' = [m \in Loads |-> [j \in Keys |-> IF rls[j] # m THEN ent[m][j]
                                                ELSE IF j \in {} THEN Detach([ent[m][j] EXCEPT !.readers = 0])
                                                ELSE Released(ent[m][j])]]
    BY <2>2, <2>3, Zenon
  <2>5. rls \in [Keys -> MaybeLoad]
    BY <1>4, Zenon DEF MaybeLoad
  <2>6. ASSUME NEW j \in Keys, rls[j] # NoLoad PROVE c \in Handed(rls[j], j) /\ load[rls[j]].at = "done"
    BY <1>7, <1>11, <2>6, Zenon DEF Handed
  <2>7. \A j \in Keys : IF rls[j] # NoLoad THEN new.got[j] = NoLoad /\ new.on[j] = NoLoad
                        ELSE new.got[j] = caller[c].got[j] /\ new.on[j] = caller[c].on[j]
    BY <1>2, <1>6, <1>9, Zenon
  <2>8. entries' = [j \in Keys |-> IF j \in {} THEN NoLoad ELSE entries[j]]
    BY <1>1, Zenon DEF IInv, Types
  <2> HIDE DEF rls
  <2>9. ReleaseStep(c, rls, new, {})
    BY <1>1, <1>5, <1>9, <2>1, <2>4, <2>6, <2>7, <2>8, ZenonT(30) DEF ReleaseStep
  <2>10. new \in Caller
    BY <1>6, Zenon
  <2> QED  BY <2>5, <2>9, <2>10, ReleaseKeeps, Zenon
<1>12. CASE load[l].at \in Loading
  <2>1. load[l] \in Load
    BY <1>3, <1>4, Zenon
  <2>2. load' = [load EXCEPT ![l] = left] /\ flights' \in {flights, Unjoinable(l)} /\ UNCHANGED ent
    BY <1>1, <1>3, <1>4, <1>12, ZenonT(30) DEF Loading
  <2>3. load[l].waiters - 1 \in Nat /\ load[l].on[k] - 1 \in Nat
    <3>1. c \in Joins(l, k) /\ <<c, k>> \in Pairs(l)
      BY <1>2, <1>7, Zenon DEF Joins, Pairs
    <3>2. load[l].waiters = Cardinality(Pairs(l)) /\ load[l].on[k] = Cardinality(Joins(l, k))
      BY <1>2, <1>4, <1>12, Zenon DEF IInv, WaitersOK
    <3>3. IsFiniteSet(Pairs(l)) /\ IsFiniteSet(Joins(l, k))
      BY FiniteParts, Zenon
    <3>4. Cardinality(Pairs(l)) \in Nat \ {0}
      BY <3>1, <3>3, Fewer, ZenonT(30)
    <3>5. Cardinality(Joins(l, k)) \in Nat \ {0}
      BY <3>1, <3>3, Fewer, ZenonT(30)
    <3> QED  BY <3>2, <3>4, <3>5
  <2>4. (load[l].cancelled \/ last) \in BOOLEAN
    BY Zenon
  <2> HIDE DEF last
  <2>5. /\ left \in Load /\ left.at = load[l].at /\ left.keys = load[l].keys /\ left.ok = load[l].ok
        /\ left.waiters = load[l].waiters - 1
        /\ \A o \in Keys : left.on[o] = IF o = k THEN load[l].on[k] - 1 ELSE load[l].on[o]
    BY <1>2, <2>1, <2>3, <2>4, ZenonT(30) DEF Load
  <2> HIDE DEF left
  <2>6. LeftStep(l, k, left)
    BY <1>1, <2>2, <2>5, Zenon DEF LeftStep
  <2>7. k \in Keys /\ new \in Caller /\ CallsOK' /\ new.got[k] = NoLoad /\ left \in Load /\ caller[c].on[k] = l
    BY <1>2, <1>6, <1>7, <1>9, <2>5, Zenon
  <2> QED  BY <1>4, <1>8, <1>12, <2>6, <2>7, LeftKeeps, Zenon
<1> QED
  <2>1. load[l].at \in {"run", "fetched", "done", "failed"}
    BY <1>3, <1>4, Zenon DEF Load
  <2> QED  BY <1>10, <1>11, <1>12, <2>1, Zenon DEF Loading
-----------------------------------------------------------------------------
(* A batch admitted.                                                       *)

LEMMA StartedLoad ==
    ASSUME NEW c, NEW new, NEW ks \in SUBSET Keys
    PROVE  /\ Started(c, new, ks) \in Load /\ Started(c, new, ks).at = "run" /\ Started(c, new, ks).keys = Wanted(ks)
           /\ Started(c, new, ks).waiters = Cardinality(Wanted(ks))
           /\ \A k \in Keys : Started(c, new, ks).on[k] = IF k \in Wanted(ks) THEN 1 ELSE 0
<1>1. Wanted(ks) \in SUBSET Keys /\ IsFiniteSet(Wanted(ks))
  BY FlightsAssumption, FS_Subset, Zenon DEF Wanted
<1>2. Cardinality(Wanted(ks)) \in Nat /\ (c \in Prefetchers) \in BOOLEAN
  BY <1>1, FS_CardinalityType
<1> DEFINE w == Wanted(ks)
           n == Cardinality(Wanted(ks))
           p == c \in Prefetchers
           on == [k \in Keys |-> IF k \in w THEN 1 ELSE 0]
<1>3. on \in [Keys -> Nat]
  BY Zenon
<1>4. Started(c, new, ks) = [Unused EXCEPT !.at = "run", !.keys = w, !.pre = p, !.waiters = n, !.on = on]
  BY Zenon DEF Started
<1>5. \A k \in Keys : on[k] = IF k \in w THEN 1 ELSE 0
  BY Zenon
<1> HIDE DEF w, n, p, on
<1>6. w \in SUBSET Keys /\ n \in Nat /\ p \in BOOLEAN
  BY <1>1, <1>2, Zenon DEF w, n, p
<1>7. /\ Started(c, new, ks) \in Load /\ Started(c, new, ks).at = "run" /\ Started(c, new, ks).keys = w
      /\ Started(c, new, ks).waiters = n /\ Started(c, new, ks).on = on
  BY <1>3, <1>4, <1>6, UnusedLoad, ZenonT(30) DEF Load
<1> QED  BY <1>5, <1>7, Zenon DEF w, n

LEMMA CountedLoad ==
    ASSUME IInv, NEW l \in Loads, NEW ks \in SUBSET Keys
    PROVE  /\ Counted(l, ks) \in Load /\ Counted(l, ks).at = load[l].at /\ Counted(l, ks).keys = load[l].keys
           /\ Counted(l, ks).ok = load[l].ok
           /\ Counted(l, ks).waiters = load[l].waiters + Cardinality(Joined(l, ks))
           /\ \A k \in Keys : Counted(l, ks).on[k] = load[l].on[k] + (IF k \in Joined(l, ks) THEN 1 ELSE 0)
<1>1. IsFiniteSet(Joined(l, ks))
  BY FlightsAssumption, FS_Subset, Zenon DEF Joined
<1>2. Cardinality(Joined(l, ks)) \in Nat
  BY <1>1, FS_CardinalityType, Zenon
<1>3. load[l] \in Load
  BY Zenon DEF IInv, Types
<1> DEFINE n == Cardinality(Joined(l, ks))
           on == [k \in Keys |-> IF flights[k] = l /\ k \in ks /\ entries[k] = NoLoad THEN load[l].on[k] + 1 ELSE load[l].on[k]]
<1>4. Counted(l, ks) = [load[l] EXCEPT !.waiters = load[l].waiters + n, !.on = on]
  BY <1>3, Zenon DEF Counted, Load
<1>5. load[l].on \in [Keys -> Nat]
  BY <1>3, Zenon DEF Load
<1>6. on \in [Keys -> Nat] /\ \A k \in Keys : on[k] = load[l].on[k] + (IF k \in Joined(l, ks) THEN 1 ELSE 0)
  BY <1>5 DEF Joined
<1> DEFINE w == load[l].waiters + n
<1>7. w \in Nat
  BY <1>2, <1>3 DEF Load
<1> HIDE DEF on, w
<1>8. /\ Counted(l, ks) \in Load /\ Counted(l, ks).at = load[l].at /\ Counted(l, ks).keys = load[l].keys
      /\ Counted(l, ks).ok = load[l].ok /\ Counted(l, ks).waiters = w /\ Counted(l, ks).on = on
  <2>1. Counted(l, ks) = [load[l] EXCEPT !.waiters = w, !.on = on]
    BY <1>4, Zenon DEF w
  <2>2. on \in [Keys -> Nat]
    BY <1>6, Zenon
  <2> QED  BY <1>3, <1>7, <2>1, <2>2, ZenonT(30) DEF Load
<1> QED  BY <1>6, <1>8, Zenon DEF w

\* A set of keys, paired with one read, has as many members.
LEMMA PairsWith ==
    ASSUME NEW c, NEW ks \in SUBSET Keys
    PROVE  /\ IsFiniteSet({c} \X ks) /\ Cardinality({c} \X ks) = Cardinality(ks)
           /\ IsFiniteSet(ks) /\ Cardinality(ks) \in Nat
<1>1. IsFiniteSet(ks) /\ Cardinality(ks) \in Nat
  BY FlightsAssumption, FS_Subset, FS_CardinalityType, Zenon
<1>2. IsFiniteSet({c}) /\ Cardinality({c}) = 1
  BY FS_Singleton, Zenon
<1>3. IsFiniteSet({c} \X ks) /\ Cardinality({c} \X ks) = Cardinality({c}) * Cardinality(ks)
  BY <1>1, <1>2, FS_Product, Zenon
<1> QED  BY <1>1, <1>2, <1>3

LEMMA AdmitsKeeps ==
    ASSUME IInv, NEW c \in Callers, Admits(c)
    PROVE  IInv'
<1> USE DEF IInv
<1> DEFINE ks == caller[c].want
           new == IF Wanted(ks) = {} THEN NoLoad ELSE NewLoad
           rec == [at |-> IF \A k \in ks : entries[k] # NoLoad THEN "holds" ELSE "collect", want |-> {},
                   got |-> [k \in Keys |-> IF k \in ks THEN entries[k] ELSE NoLoad],
                   on  |-> [k \in Keys |-> IF k \notin ks \/ entries[k] # NoLoad THEN NoLoad
                                           ELSE IF k \in Wanted(ks) THEN new ELSE flights[k]]]
<1>1. /\ caller[c].at = "admit" /\ (Wanted(ks) # {} => Free # {})
      /\ load' = [l \in Loads |-> IF l = new THEN Started(c, new, ks) ELSE Counted(l, ks)]
      /\ ent' = [l \in Loads |-> [k \in Keys |-> IF l = new THEN NoEntry
                                                 ELSE IF k \in ks /\ entries[k] = l THEN [ent[l][k] EXCEPT !.readers = @ + 1]
                                                 ELSE ent[l][k]]]
      /\ flights' = [k \in Keys |-> IF k \in Wanted(ks) THEN new ELSE flights[k]]
      /\ caller' = [caller EXCEPT ![c] = rec] /\ UNCHANGED <<entries, closed>>
  BY Zenon DEF Admits
<1>2. ks \in SUBSET Keys
  BY Zenon DEF Types, Caller
<1>3. /\ Wanted(ks) = {} => new = NoLoad
      /\ Wanted(ks) # {} => new \in Loads /\ load[new].at = "done" /\ Names(new)
      /\ new \in MaybeLoad
  BY <1>1, NewIsFree, Zenon DEF Free, MaybeLoad
<1> HIDE DEF new
<1>4. /\ rec.at \in {"holds", "collect"} /\ (rec.at = "holds" <=> \A k \in ks : entries[k] # NoLoad)
      /\ \A k \in Keys : /\ rec.got[k] = IF k \in ks THEN entries[k] ELSE NoLoad
                         /\ rec.on[k] = IF k \notin ks \/ entries[k] # NoLoad THEN NoLoad
                                        ELSE IF k \in Wanted(ks) THEN new ELSE flights[k]
  BY Zenon
<1>5. rec \in Caller
  BY <1>3, Zenon DEF Types, Caller, CallStates, MaybeLoad
<1>6. caller' \in [Callers -> Caller] /\ caller'[c] = rec /\ \A d \in Callers : d # c => caller'[d] = caller[d]
  BY <1>1, <1>5, Zenon DEF Types
<1> HIDE DEF rec, ks
<1>7. \A k \in Keys : caller[c].got[k] = NoLoad /\ caller[c].on[k] = NoLoad
  BY <1>1, Zenon DEF CallsOK
\* What nobody names.
<1>8. ASSUME new # NoLoad
      PROVE  /\ new \in Loads /\ load[new].at = "done" /\ \A k \in Keys : flights[k] # new /\ entries[k] # new
             /\ \A d \in Callers : \A k \in Keys : caller[d].got[k] # new /\ caller[d].on[k] # new
  BY <1>3, <1>8, Zenon DEF Names
<1>9. \A k \in Keys : k \in Wanted(ks) <=> k \in ks /\ entries[k] = NoLoad /\ flights[k] = NoLoad
  BY <1>2, Zenon DEF Wanted
<1>10. ASSUME NEW l \in Loads
       PROVE  /\ l # NoLoad
              /\ l = new => load'[l] = Started(c, new, ks)
              /\ l # new => load'[l] = Counted(l, ks)
              /\ l # new => load'[l].at = load[l].at /\ load'[l].keys = load[l].keys /\ load'[l].ok = load[l].ok
  BY <1>1, <1>2, CountedLoad, FlightsAssumption, Zenon
<1>11. ASSUME NEW l \in Loads, NEW k \in Keys
       PROVE  /\ l = new => ent'[l][k] = NoEntry
              /\ l # new /\ k \in ks /\ entries[k] = l => ent'[l][k] = [ent[l][k] EXCEPT !.readers = @ + 1]
              /\ l # new /\ ~(k \in ks /\ entries[k] = l) => ent'[l][k] = ent[l][k]
  BY <1>1, Zenon
<1>12. ASSUME NEW l \in Loads, NEW k \in Keys
       PROVE  /\ ent'[l][k] \in Entry
              /\ l # new => ent'[l][k].gone = ent[l][k].gone /\ ent'[l][k].retained = ent[l][k].retained
              /\ l # new => ent'[l][k].readers = ent[l][k].readers + (IF k \in ks /\ entries[k] = l THEN 1 ELSE 0)
  <2>1. ent[l][k] \in Entry
    BY Zenon DEF Types
  <2>2. [ent[l][k] EXCEPT !.readers = @ + 1] \in Entry
    BY <2>1 DEF Entry
  <2>3. ent[l][k].readers \in Nat
    BY <2>1, Zenon DEF Entry
  <2>4. CASE l = new
    BY <1>11, <2>4, NoEntryIs, ZenonT(30)
  <2>5. CASE l # new /\ k \in ks /\ entries[k] = l
    BY <1>11, <2>1, <2>2, <2>3, <2>5, ZenonT(30) DEF Entry
  <2>6. CASE l # new /\ ~(k \in ks /\ entries[k] = l)
    <3>1. ent'[l][k] = ent[l][k]
      BY <1>11, <2>6, ZenonT(30)
    <3> QED  BY <2>1, <2>3, <2>6, <3>1
  <2> QED  BY <2>4, <2>5, <2>6, Zenon
<1>13. Types'
  <2>1. load' \in [Loads -> Load]
    BY <1>1, <1>2, StartedLoad, CountedLoad, Zenon
  <2>2. ent' \in [Loads -> [Keys -> Entry]]
    <3> DEFINE E(l, k) == IF l = new THEN NoEntry
                          ELSE IF k \in ks /\ entries[k] = l THEN [ent[l][k] EXCEPT !.readers = @ + 1] ELSE ent[l][k]
    <3>1. ent' = [l \in Loads |-> [k \in Keys |-> E(l, k)]]
      BY <1>1, Zenon
    <3> HIDE DEF E
    <3>2. \A l \in Loads : \A k \in Keys : E(l, k) \in Entry
      BY <1>12, <3>1, Zenon
    <3> QED  BY <3>1, <3>2, Zenon
  <2>3. flights' \in [Keys -> MaybeLoad]
    BY <1>1, <1>3, Zenon DEF Types
  <2> QED  BY <1>1, <1>6, <2>1, <2>2, <2>3, ZenonT(30) DEF Types
\* Whom an entry is handed to, and who waits.
<1>14. ASSUME NEW l \in Loads, l # new, NEW k \in Keys
       PROVE  rec.on[k] = l <=> k \in Joined(l, ks)
  BY <1>2, <1>4, <1>9, <1>10, <1>14, ZenonT(30) DEF Joined
<1>15. ASSUME NEW l \in Loads, l = new, NEW k \in Keys
       PROVE  rec.on[k] = l <=> k \in Wanted(ks)
  BY <1>4, <1>8, <1>9, <1>10, <1>15, Zenon
<1>16. ASSUME NEW l \in Loads, l # new, load[l].at = "done", NEW k \in Keys
       PROVE  /\ c \notin Handed(l, k)
              /\ Handed(l, k)' = IF k \in ks /\ entries[k] = l THEN Handed(l, k) \cup {c} ELSE Handed(l, k)
  <2>1. rec.on[k] # l
    BY <1>14, <1>16, <1>10 DEF Joined, KeysOK, Loading
  <2>2. rec.got[k] = l <=> k \in ks /\ entries[k] = l
    BY <1>4, <1>10, Zenon
  <2>3. c \notin Handed(l, k)
    BY <1>7, <1>10, Zenon DEF Handed
  <2>4. load'[l].at = "done"
    BY <1>10, <1>16, Zenon
  <2> QED  BY <1>6, <1>16, <2>1, <2>2, <2>3, <2>4, ZenonT(30) DEF Handed
<1>17. CallsOK'
  <2>1. rec.at = "holds" => \A k \in Keys : rec.on[k] = NoLoad
    BY <1>4, Zenon
  <2>2. ASSUME rec.at = "collect" PROVE \E k \in Keys : rec.on[k] # NoLoad
    <3>1. PICK k \in ks : entries[k] = NoLoad
      BY <1>4, <2>2, Zenon
    <3>2. k \in Wanted(ks) => new # NoLoad
      BY <1>3, FlightsAssumption, Zenon
    <3> QED  BY <1>2, <1>4, <1>9, <3>1, <3>2, Zenon
  <2>3. \A k \in Keys : rec.on[k] # NoLoad => rec.got[k] = NoLoad
    BY <1>4, Zenon
  <2>4. ASSUME NEW d \in Callers
        PROVE  /\ caller'[d].at \in {"idle", "admit", "blocked"} => \A o \in Keys : caller'[d].got[o] = NoLoad
               /\ caller'[d].at \in {"idle", "admit", "blocked", "holds"} => \A o \in Keys : caller'[d].on[o] = NoLoad
               /\ caller'[d].at = "collect" => \E o \in Keys : caller'[d].on[o] # NoLoad
               /\ \A o \in Keys : caller'[d].on[o] # NoLoad => caller'[d].got[o] = NoLoad
    <3>1. CASE d = c
      BY <1>4, <1>6, <2>1, <2>2, <2>3, <3>1, Zenon
    <3>2. CASE d # c
      BY <1>6, <3>2 DEF CallsOK, On
    <3> QED  BY <3>1, <3>2, Zenon
  <2> QED  BY <2>4, Zenon DEF CallsOK, On
<1>18. \A d \in Callers : \A k \in Keys : caller[d].got[k] \in MaybeLoad /\ caller[d].on[k] \in MaybeLoad
  BY DEF Types, Caller
<1>19. \A k \in Keys : entries[k] \in MaybeLoad /\ flights[k] \in MaybeLoad
  BY Zenon DEF Types
<1>20. HoldsOK'
  <2> SUFFICES ASSUME NEW d \in Callers, NEW k \in Keys
               PROVE  /\ caller'[d].got[k] # NoLoad => load'[caller'[d].got[k]].at = "done"
                      /\ caller'[d].on[k] # NoLoad /\ load'[caller'[d].on[k]].at \in Loading
                            => k \in load'[caller'[d].on[k]].keys
    BY Zenon DEF HoldsOK
  <2>1. CASE d # c
    <3>1. caller'[d] = caller[d] /\ caller[d].got[k] \in MaybeLoad /\ caller[d].on[k] \in MaybeLoad
      BY <1>6, <1>18, <2>1, Zenon
    <3>2. caller[d].got[k] # NoLoad => caller[d].got[k] \in Loads /\ caller[d].got[k] # new
      BY <1>8, <3>1, Zenon DEF MaybeLoad
    <3>3. caller[d].on[k] # NoLoad => caller[d].on[k] \in Loads /\ caller[d].on[k] # new
      BY <1>8, <3>1, Zenon DEF MaybeLoad
    <3>4. caller[d].got[k] # NoLoad => load'[caller[d].got[k]].at = "done"
      BY <1>10, <3>2, Zenon DEF HoldsOK
    <3>5. ASSUME caller[d].on[k] # NoLoad, load'[caller[d].on[k]].at \in Loading PROVE k \in load'[caller[d].on[k]].keys
      <4>1. /\ load'[caller[d].on[k]].at = load[caller[d].on[k]].at
            /\ load'[caller[d].on[k]].keys = load[caller[d].on[k]].keys
        BY <1>10, <3>3, <3>5, Zenon
      <4> QED  BY <3>5, <4>1, Zenon DEF HoldsOK
    <3> QED  BY <3>1, <3>4, <3>5, Zenon
  <2>2. CASE d = c
    <3>1. ASSUME rec.got[k] # NoLoad PROVE load'[rec.got[k]].at = "done"
      <4>1. rec.got[k] = entries[k] /\ entries[k] \in Loads /\ entries[k] # new
        BY <1>4, <1>8, <1>19, <3>1, Zenon DEF MaybeLoad
      <4>2. load[entries[k]].at = "done"
        BY <3>1, <4>1, Zenon DEF KeysOK
      <4> QED  BY <1>10, <4>1, <4>2, Zenon
    <3>2. ASSUME rec.on[k] # NoLoad PROVE k \in load'[rec.on[k]].keys
      <4>1. CASE rec.on[k] = new
        <5>1. new \in Loads /\ k \in Wanted(ks)
          BY <1>8, <1>15, <3>2, <4>1, Zenon
        <5> QED  BY <1>2, <1>10, <4>1, <5>1, StartedLoad
      <4>2. CASE rec.on[k] # new
        <5>1. rec.on[k] = flights[k] /\ flights[k] \in Loads
          BY <1>4, <1>19, <3>2, <4>2, Zenon DEF MaybeLoad
        <5>2. k \in load[flights[k]].keys
          BY <3>2, <5>1, Zenon DEF KeysOK
        <5> QED  BY <1>10, <4>2, <5>1, <5>2, Zenon
      <4> QED  BY <4>1, <4>2, Zenon
    <3> QED  BY <1>6, <2>2, <3>1, <3>2, Zenon
  <2> QED  BY <2>1, <2>2, Zenon
<1>21. KeysOK'
  <2> SUFFICES ASSUME NEW k \in Keys
               PROVE  /\ flights'[k] # NoLoad => load'[flights'[k]].at \in Loading /\ k \in load'[flights'[k]].keys
                      /\ entries[k] # NoLoad => /\ load'[entries[k]].at = "done"
                                                /\ ~ent'[entries[k]][k].gone /\ ent'[entries[k]][k].retained
    BY <1>1, Zenon DEF KeysOK
  <2>1. ASSUME flights'[k] # NoLoad PROVE load'[flights'[k]].at \in Loading /\ k \in load'[flights'[k]].keys
    <3>1. CASE k \in Wanted(ks)
      <4>1. flights'[k] = new /\ new \in Loads
        BY <1>1, <1>3, <2>1, <3>1, Zenon DEF MaybeLoad
      <4> QED  BY <1>2, <1>10, <3>1, <4>1, StartedLoad DEF Loading
    <3>2. CASE k \notin Wanted(ks)
      <4>1. flights'[k] = flights[k] /\ flights[k] \in Loads /\ flights[k] # new
        BY <1>1, <1>8, <1>19, <2>1, <3>2, Zenon DEF MaybeLoad
      <4> QED  BY <1>10, <2>1, <4>1, Zenon DEF KeysOK
    <3> QED  BY <3>1, <3>2, Zenon
  <2>2. ASSUME entries[k] # NoLoad
        PROVE  load'[entries[k]].at = "done" /\ ~ent'[entries[k]][k].gone /\ ent'[entries[k]][k].retained
    <3>1. entries[k] \in Loads /\ entries[k] # new
      BY <1>8, <1>19, <2>2, Zenon DEF MaybeLoad
    <3> QED  BY <1>10, <1>12, <2>2, <3>1, Zenon DEF KeysOK
  <2> QED  BY <2>1, <2>2, Zenon
<1>22. LoadsOK'
  <2> SUFFICES ASSUME NEW l \in Loads, NEW k \in Keys
               PROVE  /\ load'[l].at \in {"run", "failed"} \/ (load'[l].at = "fetched" /\ ~load'[l].ok) => ent'[l][k].gone
                      /\ load'[l].at = "fetched" /\ load'[l].ok => (ent'[l][k].gone <=> k \notin load'[l].keys)
    BY Zenon DEF LoadsOK
  <2>1. CASE l = new
    <3>1. load'[l] = Started(c, new, ks) /\ ent'[l][k] = NoEntry
      BY <1>10, <1>11, <2>1, ZenonT(30)
    <3>2. Started(c, new, ks).at = "run"
      BY <1>2, StartedLoad, Zenon
    <3> QED  BY <3>1, <3>2, NoEntryIs, ZenonT(30)
  <2>2. CASE l # new
    <3>1. load'[l].at = load[l].at /\ load'[l].keys = load[l].keys /\ load'[l].ok = load[l].ok
      BY <1>10, <2>2, Zenon
    <3>2. ent'[l][k].gone = ent[l][k].gone
      BY <1>12, <2>2, Zenon
    <3> QED  BY <3>1, <3>2, Zenon DEF LoadsOK
  <2> QED  BY <2>1, <2>2, Zenon
<1>23. WaitersOK'
  <2> SUFFICES ASSUME NEW l \in Loads, load'[l].at \in Loading
               PROVE  /\ load'[l].waiters = Cardinality(Pairs(l)')
                      /\ \A k \in Keys : load'[l].on[k] = Cardinality(Joins(l, k)')
    BY Zenon DEF WaitersOK
  <2>1. CASE l = new
    <3>1. \A d \in Callers : \A k \in Keys : caller'[d].on[k] = l <=> d = c /\ k \in Wanted(ks)
      <4> SUFFICES ASSUME NEW d \in Callers, NEW k \in Keys
                   PROVE  caller'[d].on[k] = l <=> d = c /\ k \in Wanted(ks)
        BY Zenon
      <4>1. rec.on[k] = l <=> k \in Wanted(ks)
        BY <1>15, <2>1, Zenon
      <4>2. caller[d].on[k] # l
        BY <1>8, <1>10, <2>1, Zenon
      <4>3. CASE d = c
        BY <1>6, <4>1, <4>3, Zenon
      <4>4. CASE d # c
        BY <1>6, <4>2, <4>4, Zenon
      <4> QED  BY <4>3, <4>4, Zenon
    <3>2. Wanted(ks) \in SUBSET Keys
      BY <1>2, Zenon DEF Wanted
    <3>3. Pairs(l)' = {c} \X Wanted(ks)
      <4>1. ASSUME NEW p \in Callers \X Keys
            PROVE  caller'[p[1]].on[p[2]] = l <=> p \in {c} \X Wanted(ks)
        <5>1. p[1] \in Callers /\ p[2] \in Keys /\ p = <<p[1], p[2]>>
          OBVIOUS
        <5> QED  BY <3>1, <5>1, Zenon
      <4>2. {c} \X Wanted(ks) \subseteq Callers \X Keys
        BY <3>2, Zenon
      <4> QED  BY <4>1, <4>2, Zenon DEF Pairs
    <3>4. \A k \in Keys : Joins(l, k)' = IF k \in Wanted(ks) THEN {c} ELSE {}
      BY <3>1, Zenon DEF Joins
    <3>5. load'[l] = Started(c, new, ks)
      BY <1>10, <2>1, Zenon
    <3>6. \A k \in Keys : Cardinality(Joins(l, k)') = IF k \in Wanted(ks) THEN 1 ELSE 0
      BY <3>4, FS_Singleton, FS_EmptySet, ZenonT(30)
    <3>7. Cardinality({c} \X Wanted(ks)) = Cardinality(Wanted(ks))
      BY <3>2, PairsWith, ZenonT(30)
    <3>8. /\ load'[l].waiters = Cardinality(Wanted(ks))
          /\ \A k \in Keys : load'[l].on[k] = IF k \in Wanted(ks) THEN 1 ELSE 0
      BY <1>2, <3>5, StartedLoad
    <3> QED  BY <3>3, <3>6, <3>7, <3>8, Zenon
  <2>2. CASE l # new
    <3>1. \A d \in Callers : \A k \in Keys :
             caller'[d].on[k] = l <=> caller[d].on[k] = l \/ (d = c /\ k \in Joined(l, ks))
      <4> SUFFICES ASSUME NEW d \in Callers, NEW k \in Keys
                   PROVE  caller'[d].on[k] = l <=> caller[d].on[k] = l \/ (d = c /\ k \in Joined(l, ks))
        BY Zenon
      <4>1. rec.on[k] = l <=> k \in Joined(l, ks)
        BY <1>14, <2>2, Zenon
      <4>2. caller[c].on[k] # l
        BY <1>7, <1>10, Zenon
      <4>3. CASE d = c
        BY <1>6, <4>1, <4>2, <4>3, Zenon
      <4>4. CASE d # c
        BY <1>6, <4>4, Zenon
      <4> QED  BY <4>3, <4>4, Zenon
    <3>2. Joined(l, ks) \in SUBSET Keys
      BY <1>2, Zenon DEF Joined
    <3>3. Pairs(l)' = Pairs(l) \cup ({c} \X Joined(l, ks))
      <4>1. ASSUME NEW p \in Callers \X Keys
            PROVE  caller'[p[1]].on[p[2]] = l <=> caller[p[1]].on[p[2]] = l \/ p \in {c} \X Joined(l, ks)
        <5>1. p[1] \in Callers /\ p[2] \in Keys /\ p = <<p[1], p[2]>>
          OBVIOUS
        <5> QED  BY <3>1, <5>1, Zenon
      <4>2. {c} \X Joined(l, ks) \subseteq Callers \X Keys
        BY <3>2, Zenon
      <4> QED  BY <4>1, <4>2, Zenon DEF Pairs
    <3>4. Pairs(l) \cap ({c} \X Joined(l, ks)) = {}
      <4>1. ASSUME NEW p \in Pairs(l), p \in {c} \X Joined(l, ks) PROVE FALSE
        <5>1. p[1] = c /\ p[2] \in Keys /\ caller[p[1]].on[p[2]] = l
          BY <4>1, <3>2, Zenon DEF Pairs
        <5> QED  BY <1>7, <1>10, <5>1, Zenon
      <4> QED  BY <4>1, Zenon
    <3>5. Cardinality(Pairs(l)') = Cardinality(Pairs(l)) + Cardinality(Joined(l, ks))
      <4>1. IsFiniteSet(Pairs(l)) /\ Cardinality(Pairs(l)) \in Nat
        BY FiniteParts, FS_CardinalityType, Zenon
      <4>2. IsFiniteSet({c} \X Joined(l, ks)) /\ Cardinality({c} \X Joined(l, ks)) = Cardinality(Joined(l, ks))
            /\ Cardinality(Joined(l, ks)) \in Nat
        BY <3>2, PairsWith, ZenonT(30)
      <4>3. Cardinality(Pairs(l) \cup ({c} \X Joined(l, ks)))
               = Cardinality(Pairs(l)) + Cardinality({c} \X Joined(l, ks)) - Cardinality(Pairs(l) \cap ({c} \X Joined(l, ks)))
        BY <4>1, <4>2, FS_Union, Zenon
      <4>4. Cardinality(Pairs(l) \cap ({c} \X Joined(l, ks))) = 0
        BY <3>4, FS_EmptySet, Zenon
      <4> QED  BY <3>3, <4>1, <4>2, <4>3, <4>4, SMTT(30)
    <3>6. \A k \in Keys : c \notin Joins(l, k) /\ Joins(l, k)' = IF k \in Joined(l, ks) THEN Joins(l, k) \cup {c} ELSE Joins(l, k)
      BY <1>7, <1>10, <3>1 DEF Joins
    <3>7. \A k \in Keys : Cardinality(Joins(l, k)') = Cardinality(Joins(l, k)) + (IF k \in Joined(l, ks) THEN 1 ELSE 0)
      <4> SUFFICES ASSUME NEW k \in Keys
                   PROVE  Cardinality(Joins(l, k)') = Cardinality(Joins(l, k)) + (IF k \in Joined(l, ks) THEN 1 ELSE 0)
        BY Zenon
      <4>1. IsFiniteSet(Joins(l, k)) /\ Cardinality(Joins(l, k)) \in Nat
        BY FiniteParts, FS_CardinalityType, Zenon
      <4> QED  BY <3>6, <4>1, More
    <3>8. load[l].waiters = Cardinality(Pairs(l)) /\ \A k \in Keys : load[l].on[k] = Cardinality(Joins(l, k))
      BY <1>10, <2>2, Zenon DEF WaitersOK
    <3>9. load'[l] = Counted(l, ks)
      BY <1>10, <2>2, Zenon
    <3> QED  BY <1>2, <3>5, <3>7, <3>8, <3>9, CountedLoad, SMTT(30)
  <2> QED  BY <2>1, <2>2, Zenon
<1>24. ReadersCounted'
  <2> SUFFICES ASSUME NEW l \in Loads, NEW k \in Keys, load'[l].at = "done", ~ent'[l][k].gone
               PROVE  ent'[l][k].readers = Cardinality(Handed(l, k)')
    BY Zenon DEF ReadersCounted
  <2>1. l # new
    BY <1>11, NoEntryIs, ZenonT(30)
  <2>2. load[l].at = "done" /\ ~ent[l][k].gone /\ ent[l][k].readers = Cardinality(Handed(l, k))
    <3>1. load[l].at = "done" /\ ~ent[l][k].gone
      BY <1>10, <1>12, <2>1, SMTT(30)
    <3> QED  BY <3>1, Zenon DEF ReadersCounted
  <2>3. IsFiniteSet(Handed(l, k)) /\ Cardinality(Handed(l, k)) \in Nat
    BY FiniteParts, FS_CardinalityType, Zenon
  <2>4. CASE k \in ks /\ entries[k] = l
    <3>1. ent'[l][k].readers = ent[l][k].readers + 1
      BY <1>12, <2>1, <2>4, Zenon
    <3>2. c \notin Handed(l, k) /\ Handed(l, k)' = Handed(l, k) \cup {c}
      BY <1>16, <2>1, <2>2, <2>4, Zenon
    <3>3. Cardinality(Handed(l, k) \cup {c}) = Cardinality(Handed(l, k)) + 1
      BY <2>3, <3>2, More, Zenon
    <3> QED  BY <2>2, <3>1, <3>2, <3>3, Zenon
  <2>5. CASE ~(k \in ks /\ entries[k] = l)
    <3>1. ent'[l][k].readers = ent[l][k].readers + 0
      BY <1>12, <2>1, <2>5, Zenon
    <3>2. Handed(l, k)' = Handed(l, k)
      BY <1>16, <2>1, <2>2, <2>5, Zenon
    <3> QED  BY <2>2, <2>3, <3>1, <3>2, SMTT(30)
  <2> QED  BY <2>4, <2>5, Zenon
<1>25. PinnedNotDisposed'
  <2> SUFFICES ASSUME NEW d \in Callers, NEW k \in Keys
               PROVE  /\ caller'[d].got[k] # NoLoad => ~ent'[caller'[d].got[k]][k].gone
                      /\ caller'[d].on[k] # NoLoad /\ load'[caller'[d].on[k]].at = "done"
                            => ~ent'[caller'[d].on[k]][k].gone
    BY Zenon DEF PinnedNotDisposed
  <2>1. CASE d # c
    <3>1. caller'[d] = caller[d] /\ caller[d].got[k] \in MaybeLoad /\ caller[d].on[k] \in MaybeLoad
      BY <1>6, <1>18, <2>1, Zenon
    <3>2. caller[d].got[k] # NoLoad => caller[d].got[k] \in Loads /\ caller[d].got[k] # new
      BY <1>8, <3>1, Zenon DEF MaybeLoad
    <3>3. caller[d].on[k] # NoLoad => caller[d].on[k] \in Loads /\ caller[d].on[k] # new
      BY <1>8, <3>1, Zenon DEF MaybeLoad
    <3>4. ASSUME caller[d].got[k] # NoLoad PROVE ~ent'[caller[d].got[k]][k].gone
      <4>1. ent'[caller[d].got[k]][k].gone = ent[caller[d].got[k]][k].gone
        BY <1>12, <3>2, <3>4, Zenon
      <4> QED  BY <3>4, <4>1, Zenon DEF PinnedNotDisposed
    <3>5. ASSUME caller[d].on[k] # NoLoad, load'[caller[d].on[k]].at = "done" PROVE ~ent'[caller[d].on[k]][k].gone
      <4>1. load[caller[d].on[k]].at = "done" /\ ent'[caller[d].on[k]][k].gone = ent[caller[d].on[k]][k].gone
        BY <1>10, <1>12, <3>3, <3>5, Zenon
      <4> QED  BY <3>5, <4>1, ZenonT(30) DEF PinnedNotDisposed
    <3> QED  BY <3>1, <3>4, <3>5, ZenonT(30)
  <2>2. CASE d = c
    <3>1. ASSUME rec.got[k] # NoLoad PROVE ~ent'[rec.got[k]][k].gone
      <4>1. rec.got[k] = entries[k] /\ entries[k] \in Loads /\ entries[k] # new
        BY <1>4, <1>8, <1>19, <3>1, Zenon DEF MaybeLoad
      <4> QED  BY <1>12, <3>1, <4>1, ZenonT(30) DEF KeysOK
    <3>2. ASSUME rec.on[k] # NoLoad PROVE load'[rec.on[k]].at # "done"
      <4>1. CASE rec.on[k] = new
        <5>1. new \in Loads
          BY <1>8, <3>2, <4>1, Zenon
        <5> QED  BY <1>2, <1>10, <4>1, <5>1, StartedLoad, SMTT(30)
      <4>2. CASE rec.on[k] # new
        <5>1. rec.on[k] = flights[k] /\ flights[k] \in Loads
          BY <1>4, <1>19, <3>2, <4>2, Zenon DEF MaybeLoad
        <5> QED  BY <1>10, <3>2, <4>2, <5>1, ZenonT(30) DEF KeysOK, Loading
      <4> QED  BY <4>1, <4>2, Zenon
    <3> QED  BY <1>6, <2>2, <3>1, <3>2, Zenon
  <2> QED  BY <2>1, <2>2, Zenon
<1> QED  BY <1>13, <1>17, <1>20, <1>21, <1>22, <1>23, <1>24, <1>25, ZenonT(30)
-----------------------------------------------------------------------------
LEMMA InitHolds == Init => IInv
<1> SUFFICES ASSUME Init PROVE IInv
  BY Zenon
<1> USE DEF Init
<1>1. Idle \in Caller /\ Idle.at = "idle" /\ \A k \in Keys : Idle.got[k] = NoLoad /\ Idle.on[k] = NoLoad
  BY Zenon DEF Idle, Caller, CallStates, MaybeLoad
<1>2. \A c \in Callers : caller[c] = Idle
  BY Zenon
<1>3. \A l \in Loads : load[l] = Unused /\ load[l].at = "done"
  BY UnusedLoad, Zenon
<1>4. \A l \in Loads : \A k \in Keys : ent[l][k] = NoEntry /\ ent[l][k].gone
  BY NoEntryIs, ZenonT(30)
<1>5. Types
  BY <1>1, UnusedLoad, NoEntryIs, ZenonT(30) DEF Types, MaybeLoad
<1>6. CallsOK /\ HoldsOK /\ PinnedNotDisposed
  BY <1>1, <1>2, Zenon DEF CallsOK, HoldsOK, PinnedNotDisposed, On
<1>7. KeysOK
  BY Zenon DEF KeysOK
<1>8. LoadsOK /\ WaitersOK /\ ReadersCounted
  BY <1>3, <1>4, Zenon DEF LoadsOK, WaitersOK, ReadersCounted, Loading
<1> QED  BY <1>5, <1>6, <1>7, <1>8, Zenon DEF IInv

LEMMA StepKeeps == IInv /\ [Next]_vars => IInv'
<1> SUFFICES ASSUME IInv, [Next]_vars PROVE IInv'
  BY Zenon
<1>1. ASSUME NEW c \in Callers, Reads(c) \/ GivesUp(c) \/ \E ks \in Batches[c] : Asks(c, ks) PROVE IInv'
  <2>1. CASE Refuses(c) \/ Waits(c) \/ GivesUp(c) \/ \E ks \in Batches[c] : Asks(c, ks)
    BY <2>1, QuietKeeps, Zenon
  <2>2. CASE Admits(c)
    BY <2>2, AdmitsKeeps, Zenon
  <2>3. CASE Collects(c)
    BY <2>3, CollectsKeeps, Zenon
  <2>4. CASE Leaves(c)
    BY <2>4, LeavesKeeps, Zenon
  <2>5. CASE Releases(c)
    BY <2>5, ReleasesKeeps, Zenon
  <2> QED  BY <1>1, <2>1, <2>2, <2>3, <2>4, <2>5, Zenon DEF Reads
<1>2. ASSUME NEW l \in Loads, Fetches(l) PROVE IInv'
  BY <1>2, FetchedKeeps, FinishesKeeps, Zenon DEF Fetches
<1>3. ASSUME NEW k \in Segments, KeepsTable(k) PROVE IInv'
  <2>1. k \in Keys
    BY FlightsAssumption, Zenon
  <2> QED  BY <1>3, <2>1, KeepsTableKeeps, Zenon
<1>4. CASE Reclaim \/ Clear \/ Close
  BY <1>4, PressureKeeps, Zenon
<1>5. CASE UNCHANGED vars
  <2>1. SameHeld /\ UNCHANGED <<load, ent, flights, entries, caller, closed>>
    BY <1>5, Zenon DEF vars, SameHeld
  <2>2. CallsOK' /\ caller' \in [Callers -> Caller]
    BY <2>1, Zenon DEF IInv, Types, CallsOK, On
  <2> QED  BY <2>1, <2>2, CallerOnly, Zenon
<1> QED  BY <1>1, <1>2, <1>3, <1>4, <1>5, Zenon DEF Next

\* The bytes a read has pinned, or will be handed, are not given back under it,
\* whatever other reads, loads, Reclaim, Clear and Close do meanwhile, for any
\* number of reads, keys and loads (releaseLocked, drop).
THEOREM PinnedStays == Spec => []PinnedNotDisposed
<1>1. Init => IInv
  BY InitHolds, Zenon
<1>2. IInv /\ [Next]_vars => IInv'
  BY StepKeeps, Zenon
<1>3. IInv => PinnedNotDisposed
  BY Zenon DEF IInv
<1> QED  BY <1>1, <1>2, <1>3, PTL DEF Spec

\* An entry's reader count is exactly the reads that hold it, or were handed it
\* and have not taken it yet (admit, finish, leave, release).
THEOREM ReadersExact == Spec => []ReadersCounted
<1>1. Init => IInv
  BY InitHolds, Zenon
<1>2. IInv /\ [Next]_vars => IInv'
  BY StepKeeps, Zenon
<1>3. IInv => ReadersCounted
  BY Zenon DEF IInv
<1> QED  BY <1>1, <1>2, <1>3, PTL DEF Spec
=============================================================================
