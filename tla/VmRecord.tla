------------------------------ MODULE VmRecord ------------------------------
(***************************************************************************)
(* What the control package promises of one VM's record: it only ever      *)
(* moves by whole changes of these kinds, each made to the record that was *)
(* there, whatever is lost, delayed or repeated on the way.                *)
(***************************************************************************)
EXTENDS Records

VARIABLE rec

Create ==
    /\ rec = NoRecord
    /\ \E nonce \in Writers, s \in Sequences, published \in BOOLEAN :
          /\ EpochOf(s) <= MaximumCreateEpoch
          /\ rec' = Created(nonce, s, published)

Take ==
    /\ rec # NoRecord
    /\ \E nonce \in Writers, joining \in BOOLEAN :
          CanTake(rec, joining) /\ rec' = Taken(rec, nonce, joining)

Select ==
    /\ rec # NoRecord
    /\ \E s \in Sequences, keep \in BOOLEAN, journals \in SUBSET Epochs :
          /\ CanSelect(rec, rec.epoch, s, keep)
          /\ rec' = Selected(rec, s, keep, journals)
          /\ ValidJournals(rec')

Pin ==
    /\ rec # NoRecord
    /\ \E s \in Sequences : Admits(rec, s) /\ rec' = WithPin(rec, s)

Release ==
    /\ rec # NoRecord
    /\ \E s \in Sequences : CanRelease(rec, s) /\ rec' = WithoutKept(rec, s)

Remove == rec # NoRecord /\ rec' = NoRecord

Init == rec = NoRecord
Next == Create \/ Take \/ Select \/ Pin \/ Release \/ Remove
Spec == Init /\ [][Next]_rec
=============================================================================
