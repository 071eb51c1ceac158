------------------------------ MODULE Records -------------------------------
(***************************************************************************)
(* One VM's control record (control/record.go, control/control.go), and    *)
(* the records that the operations of control/client.go make of one.       *)
(*                                                                         *)
(* A checkpoint sequence is the pair <<epoch, counter>> that               *)
(* control.Sequence packs into 64 bits; Before is the order of the packed  *)
(* numbers. A kept checkpoint is its sequence (its time and state flag are *)
(* not told apart), a journal the epoch whose entries it holds: journals   *)
(* are strictly ascending in their epochs, so the list is a set of epochs. *)
(***************************************************************************)
EXTENDS Naturals, FiniteSets

CONSTANTS
    Writers,            \* attempts to create or open the VM, by the nonces they drew
    MaximumCreateEpoch, \* the largest epoch NewEpoch draws
    MaximumEpoch,       \* the largest epoch a record can carry
    MaximumCounter,     \* the largest checkpoint counter in an epoch
    MaximumPins,        \* pins one record holds
    MaximumKept,        \* kept checkpoints one record holds
    MaximumJournals,    \* journals one record names
    NoRecord            \* the absence of a record

Epochs == 1 .. MaximumEpoch

\* control.Sequence, EpochOf and CounterOf.
Sequences == Epochs \X (1 .. MaximumCounter)
EpochOf(s) == s[1]
CounterOf(s) == s[2]

\* sequence < other, on the packed numbers.
Before(s, t) ==
    \/ EpochOf(s) < EpochOf(t)
    \/ EpochOf(s) = EpochOf(t) /\ CounterOf(s) < CounterOf(t)

Record ==
    [epoch: Epochs, nonce: Writers, selected: Sequences, created: BOOLEAN,
     pinned: SUBSET Sequences, kept: SUBSET Sequences, journals: SUBSET Epochs]

ASSUME LimitsAssumption ==
    /\ MaximumEpoch \in Nat /\ MaximumCounter \in Nat \ {0}
    /\ MaximumCreateEpoch \in 1 .. MaximumEpoch
    /\ MaximumPins \in Nat /\ MaximumKept \in Nat /\ MaximumJournals \in Nat

ASSUME NoRecordAssumption == NoRecord \notin Record

-----------------------------------------------------------------------------
(* What a record says, and the records an operation makes of one.           *)

IsPinned(r, s) == s \in r.pinned
IsKept(r, s) == s \in r.kept
Protected(r) == r.pinned \cup r.kept

\* Whether one more pin fits.
Admits(r, s) == IsPinned(r, s) \/ Cardinality(r.pinned) < MaximumPins

WithPin(r, s) == [r EXCEPT !.pinned = @ \cup {s}]
WithoutKept(r, s) == [r EXCEPT !.kept = @ \ {s}]
\* Mutant: the nonce is not compared.
MineByEpoch(r, epoch, nonce) == r.epoch = epoch

Mine(r, epoch, nonce) == r.epoch = epoch /\ r.nonce = nonce

ValidJournals(r) ==
    /\ Cardinality(r.journals) <= MaximumJournals
    /\ \A epoch \in r.journals : epoch <= r.epoch

\* The record Create writes; published is false for a fork, whose root its own
\* first publication writes.
Created(nonce, s, published) ==
    [epoch |-> EpochOf(s), nonce |-> nonce, selected |-> s, created |-> published,
     pinned |-> {}, kept |-> {}, journals |-> {}]

\* open takes the next epoch; a migration's open adds its journal under it.
CanTake(r, joining) ==
    /\ r.epoch < MaximumEpoch
    /\ joining => Cardinality(r.journals) < MaximumJournals

Taken(r, nonce, joining) ==
    [r EXCEPT !.epoch = @ + 1, !.nonce = nonce,
              !.journals = IF joining THEN @ \cup {r.epoch + 1} ELSE @]

\* selecting: the sequence is of the writer's epoch or the selected one, and
\* never goes back; a keep is written with it, and the journals are replaced.
CanSelect(r, epoch, s, keep) ==
    /\ EpochOf(s) = epoch \/ s = r.selected
    /\ ~Before(s, r.selected)
    /\ keep => IsKept(r, s) \/ Cardinality(r.kept) < MaximumKept

Selected(r, s, keep, journals) ==
    [r EXCEPT !.selected = s, !.created = TRUE,
              !.kept = IF keep THEN @ \cup {s} ELSE @, !.journals = journals]

\* Client.Pin without the epoch: the published selected checkpoint, or a kept one.
CanPin(r, s) == ((s = r.selected /\ r.created) \/ IsKept(r, s)) /\ Admits(r, s)

CanRelease(r, s) == IsKept(r, s) /\ ~IsPinned(r, s)
=============================================================================
