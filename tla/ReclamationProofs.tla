------------------------- MODULE ReclamationProofs --------------------------
(***************************************************************************)
(* OneContentPerReference for any identities, handles and checkpoints.     *)
(* References are told apart by the epoch of the handle that took them,    *)
(* which no other handle of the identity has, and within a handle by its   *)
(* counter; so the invariant says who may still publish which.             *)
(***************************************************************************)
EXTENDS Reclamation, TLAPS

\* A handle that is some VM's, and not closed.
Of(h, v) == handle[h].at \in {"root", "taken", "up"} /\ handle[h].vm = v

\* A reference this handle took: its counter is burnt.
Took(h, ref) == \E n \in Nat : n < handle[h].next /\ ref = <<handle[h].vm, <<handle[h].epoch, n>>>>

HandleFields ==
    {"at", "vm", "epoch", "base", "owned", "root", "next", "spared", "from", "ckpt", "point", "replaced", "shadowed"}
Shapes ==
    /\ DOMAIN rec = VMs /\ DOMAIN handle = Handles /\ DOMAIN late = Handles
    /\ \A v \in VMs : rec[v] # NoRecord => "epoch" \in DOMAIN rec[v] /\ rec[v].epoch \in Nat
    /\ \A h \in Handles : /\ DOMAIN handle[h] = HandleFields
                          /\ handle[h].epoch \in Nat /\ handle[h].next \in Nat
                          /\ "landed" \in DOMAIN handle[h].point /\ "step" \in DOMAIN handle[h].ckpt
                          /\ handle[h].at \in {"root", "taken", "up"} => handle[h].vm \in VMs

\* An identity that may still be made is nobody's.
Fresh ==
    /\ "made" \in DOMAIN bound /\ bound.made \in [VMs -> {0, 1}]
    /\ \A v \in VMs : bound.made[v] = 1 => /\ rec[v] = NoRecord
                                           /\ \A h \in Handles : ~Of(h, v)
                                           /\ \A ref \in DOMAIN published : VmOf(ref) # v

\* Handles of one VM have different epochs, none past the record's.
Epoched ==
    /\ \A g, h \in Handles : \A v \in VMs : Of(g, v) /\ Of(h, v) /\ g # h => handle[g].epoch # handle[h].epoch
    /\ \A h \in Handles : \A v \in VMs : Of(h, v) /\ rec[v] # NoRecord => handle[h].epoch <= rec[v].epoch
    /\ \A h \in Handles : handle[h].at = "root" => /\ rec[handle[h].vm] = NoRecord
                                                   /\ handle[h].base = <<handle[h].vm, <<handle[h].epoch, 1>>>>
                                                   /\ \A g \in Handles \ {h} : ~Of(g, handle[h].vm)

\* What is published is of an epoch the record has come to, and of a counter
\* its handle is past.
Past == \A ref \in DOMAIN published : \E v \in VMs, e \in Nat, n \in Nat :
    /\ ref = <<v, <<e, n>>>>
    /\ rec[v] # NoRecord => e <= rec[v].epoch
    /\ \A h \in Handles : Of(h, v) /\ handle[h].at \in {"taken", "up"} /\ handle[h].epoch = e => n < handle[h].next
    /\ \A h \in Handles : Of(h, v) /\ handle[h].at = "root" => handle[h].epoch = e /\ n = 1

\* What is to be published is not: a publication's own checkpoint until its
\* commit, and a fork point's until the publication that is the point's own.
Unput(h) ==
    /\ handle[h].at \in {"new", "inheriting", "root", "taken"} => handle[h].ckpt = NoCkpt /\ handle[h].point = NoPoint
    /\ handle[h].at = "up" /\ handle[h].ckpt.step = "commit" =>
          /\ Took(h, handle[h].ckpt.ref) /\ handle[h].ckpt.ref \notin DOMAIN published
          /\ handle[h].point.landed = "pending" /\ ~handle[h].ckpt.point => handle[h].ckpt.ref # handle[h].point.ref
    /\ handle[h].at = "up" /\ handle[h].point.landed = "pending" =>
          /\ {"landed", "ref"} \subseteq DOMAIN handle[h].point /\ Took(h, handle[h].point.ref)
          /\ handle[h].ckpt.step = "none" \/ ~handle[h].ckpt.point => handle[h].point.ref \notin DOMAIN published
    /\ handle[h].at = "up" /\ handle[h].ckpt # NoCkpt => /\ {"step", "point"} \subseteq DOMAIN handle[h].ckpt
                                                        /\ handle[h].ckpt.step # "none"

Late == \A h \in Handles : late[h] # NoRef =>
    /\ late[h].etag # NoRecord
    /\ "epoch" \in DOMAIN late[h].next /\ late[h].next.epoch = late[h].etag.epoch

IInv == Shapes /\ Fresh /\ Epoched /\ Past /\ Late /\ \A h \in Handles : Unput(h)
-----------------------------------------------------------------------------
(* Steps that publish nothing and make no VM.                              *)

Steady(g) ==
    /\ DOMAIN handle'[g] = HandleFields /\ handle'[g].vm = handle[g].vm /\ handle'[g].epoch = handle[g].epoch
    /\ handle'[g].next \in Nat /\ handle[g].next <= handle'[g].next
    /\ "landed" \in DOMAIN handle'[g].point /\ "step" \in DOMAIN handle'[g].ckpt
    /\ handle'[g].at = "root" => handle[g].at = "root" /\ handle'[g].base = handle[g].base
    /\ handle'[g].at \in {"taken", "up"} => handle[g].at \in {"taken", "up"}
    /\ Unput(g)'

\* The records keep their epochs, or go.
RecordsKept == /\ DOMAIN rec' = VMs
               /\ \A v \in VMs : rec'[v] # NoRecord =>
                     /\ rec[v] # NoRecord /\ "epoch" \in DOMAIN rec'[v] /\ rec'[v].epoch = rec[v].epoch
MadeKept == "made" \in DOMAIN bound' /\ bound'.made = bound.made

LEMMA CalmKeeps ==
    ASSUME IInv, DOMAIN handle' = Handles, \A g \in Handles : Steady(g), RecordsKept, MadeKept,
           DOMAIN late' = Handles, Late', published' = published
    PROVE  IInv'
<1> USE DEF IInv
<1>1. ASSUME NEW g \in Handles, NEW v \in VMs PROVE Of(g, v)' => Of(g, v)
  BY Zenon DEF Of, Steady
<1>2. Shapes'
  BY Zenon DEF Shapes, RecordsKept, Steady
<1>3. Fresh'
  BY <1>1, Zenon DEF Fresh, RecordsKept, MadeKept
<1>4. Epoched'
  <2>1. ASSUME NEW g \in Handles, NEW h \in Handles, NEW v \in VMs, Of(g, v)', Of(h, v)', g # h
        PROVE  handle'[g].epoch # handle'[h].epoch
    BY <1>1, <2>1 DEF Epoched, Steady
  <2>2. ASSUME NEW h \in Handles, NEW v \in VMs, Of(h, v)', rec'[v] # NoRecord
        PROVE  handle'[h].epoch <= rec'[v].epoch
    BY <1>1, <2>2, Zenon DEF Epoched, Steady, RecordsKept
  <2>3. ASSUME NEW h \in Handles, handle'[h].at = "root"
        PROVE  /\ rec'[handle'[h].vm] = NoRecord /\ handle'[h].base = <<handle'[h].vm, <<handle'[h].epoch, 1>>>>
               /\ \A g \in Handles \ {h} : handle'[g].at \notin {"root", "taken", "up"} \/ handle'[g].vm # handle'[h].vm
    <3>1. handle[h].at = "root" /\ handle'[h].vm = handle[h].vm /\ handle[h].vm \in VMs
      BY <2>3, Zenon DEF Steady, Shapes
    <3>2. /\ rec[handle[h].vm] = NoRecord /\ handle[h].base = <<handle[h].vm, <<handle[h].epoch, 1>>>>
          /\ \A g \in Handles \ {h} : ~Of(g, handle[h].vm)
      BY <3>1, Zenon DEF Epoched
    <3>3. rec'[handle'[h].vm] = NoRecord
      BY <3>1, <3>2, Zenon DEF RecordsKept
    <3>4. handle'[h].base = <<handle'[h].vm, <<handle'[h].epoch, 1>>>>
      BY <2>3, <3>2, Zenon DEF Steady
    <3>5. ASSUME NEW g \in Handles \ {h}, handle'[g].at \in {"root", "taken", "up"}, handle'[g].vm = handle'[h].vm
          PROVE  FALSE
      <4>1. handle[g].at \in {"root", "taken", "up"} /\ handle[g].vm = handle[h].vm
        BY <3>1, <3>5, Zenon DEF Steady
      <4> QED  BY <3>2, <4>1, Zenon DEF Of
    <3> QED  BY <3>3, <3>4, <3>5, Zenon
  <2> QED  BY <2>1, <2>2, <2>3, Zenon DEF Epoched, Of
<1>5. Past'
  <2> SUFFICES ASSUME NEW ref \in DOMAIN published
               PROVE  \E v \in VMs, e \in Nat, n \in Nat :
                         /\ ref = <<v, <<e, n>>>>
                         /\ rec'[v] # NoRecord => e <= rec'[v].epoch
                         /\ \A h \in Handles : Of(h, v)' /\ handle'[h].at \in {"taken", "up"} /\ handle'[h].epoch = e
                               => n < handle'[h].next
                         /\ \A h \in Handles : Of(h, v)' /\ handle'[h].at = "root" => handle'[h].epoch = e /\ n = 1
    BY Zenon DEF Past
  <2>1. PICK v \in VMs, e \in Nat, n \in Nat :
           /\ ref = <<v, <<e, n>>>>
           /\ rec[v] # NoRecord => e <= rec[v].epoch
           /\ \A h \in Handles : Of(h, v) /\ handle[h].at \in {"taken", "up"} /\ handle[h].epoch = e => n < handle[h].next
           /\ \A h \in Handles : Of(h, v) /\ handle[h].at = "root" => handle[h].epoch = e /\ n = 1
    BY Zenon DEF Past
  <2>2. rec'[v] # NoRecord => e <= rec'[v].epoch
    BY <2>1, Zenon DEF RecordsKept
  <2>3. ASSUME NEW h \in Handles, Of(h, v)', handle'[h].at \in {"taken", "up"}, handle'[h].epoch = e
        PROVE  n < handle'[h].next
    <3>1. n < handle[h].next
      BY <1>1, <2>1, <2>3, Zenon DEF Steady
    <3> QED  BY <3>1 DEF Steady, Shapes
  <2>4. ASSUME NEW h \in Handles, Of(h, v)', handle'[h].at = "root" PROVE handle'[h].epoch = e /\ n = 1
    BY <1>1, <2>1, <2>4, Zenon DEF Steady
  <2> QED  BY <2>1, <2>2, <2>3, <2>4
<1>6. \A g \in Handles : Unput(g)'
  BY Zenon DEF Steady
<1> QED  BY <1>2, <1>3, <1>4, <1>5, <1>6, Zenon

LEMMA SameSteady ==
    ASSUME IInv, NEW g \in Handles, handle'[g] = handle[g], published' = published
    PROVE  Steady(g)
<1>1. Unput(g)'
  BY Zenon DEF IInv, Unput, Took
<1> QED  BY <1>1 DEF IInv, Shapes, Steady

\* One handle's step.
LEMMA OneSteady ==
    ASSUME IInv, NEW h \in Handles, NEW new, handle' = [handle EXCEPT ![h] = new], published' = published, Steady(h)
    PROVE  DOMAIN handle' = Handles /\ \A g \in Handles : Steady(g)
<1>1. DOMAIN handle' = Handles /\ \A g \in Handles \ {h} : handle'[g] = handle[g]
  BY Zenon DEF IInv, Shapes
<1>2. \A g \in Handles \ {h} : Steady(g)
  BY <1>1, SameSteady, Zenon
<1> QED  BY <1>1, <1>2, Zenon

LEMMA Spends ==
    ASSUME IInv, NEW kind \in {"faults", "abandoned", "captures", "points"}, Spend(kind)
    PROVE  MadeKept
BY Zenon DEF IInv, Fresh, Spend, MadeKept

LEMMA SameRest ==
    ASSUME IInv
    PROVE  /\ UNCHANGED rec => RecordsKept
           /\ UNCHANGED bound => MadeKept
           /\ UNCHANGED late => DOMAIN late' = Handles /\ Late'
BY Zenon DEF IInv, Shapes, Fresh, RecordsKept, MadeKept, Late

\* A record written again keeps its epoch.
LEMMA Rewritten1 ==
    ASSUME IInv, NEW v, NEW new, rec' = [rec EXCEPT ![v] = new],
           v \in VMs => new = NoRecord \/ (rec[v] # NoRecord /\ "epoch" \in DOMAIN new /\ new.epoch = rec[v].epoch)
    PROVE  RecordsKept
BY Zenon DEF IInv, Shapes, RecordsKept

LEMMA RecordWrites ==
    ASSUME NEW r, "epoch" \in DOMAIN r, NEW s, NEW keep, NEW js
    PROVE  /\ "epoch" \in DOMAIN WithPin(r, s) /\ WithPin(r, s).epoch = r.epoch
           /\ "epoch" \in DOMAIN WithoutKept(r, s) /\ WithoutKept(r, s).epoch = r.epoch
           /\ "epoch" \in DOMAIN Selected(r, s, keep, js) /\ Selected(r, s, keep, js).epoch = r.epoch
BY Zenon DEF WithPin, WithoutKept, Selected
-----------------------------------------------------------------------------
(* A handle's publication, its fork point and its end.                     *)

LEMMA OpenIndexKeeps ==
    ASSUME IInv, NEW h \in Handles, OpenIndex(h)
    PROVE  IInv'
<1> DEFINE new == [handle[h] EXCEPT !.at = IF Openable({handle[h].base}) THEN "up" ELSE "closed"]
<1>1. handle[h].at = "taken" /\ handle' = [handle EXCEPT ![h] = new] /\ UNCHANGED <<rec, published, late, bound>>
  BY Zenon DEF OpenIndex, IInv, Shapes
<1>2. /\ DOMAIN new = HandleFields /\ new.at \in {"up", "closed"} /\ new.vm = handle[h].vm /\ new.epoch = handle[h].epoch
      /\ new.next = handle[h].next /\ new.ckpt = handle[h].ckpt /\ new.point = handle[h].point
  BY Zenon DEF IInv, Shapes, HandleFields
<1> HIDE DEF new
<1>3. handle'[h] = new /\ new.ckpt = NoCkpt /\ new.point = NoPoint
  BY <1>1, <1>2, Zenon DEF IInv, Shapes, Unput
<1>4. Unput(h)'
  BY <1>1, <1>2, <1>3 DEF Unput, NoCkpt, NoPoint
<1>5. handle[h].next \in Nat /\ "landed" \in DOMAIN handle[h].point /\ "step" \in DOMAIN handle[h].ckpt
  BY Zenon DEF IInv, Shapes
<1>6. DOMAIN handle' = Handles /\ \A g \in Handles : Steady(g)
  <2>1. Steady(h)
    BY <1>1, <1>2, <1>4, <1>5, <1>3 DEF Steady
  <2> QED  BY <1>1, <2>1, OneSteady, ZenonT(30)
<1> QED  BY <1>1, <1>6, SameRest, CalmKeeps, Zenon

\* A handle's next reference is nobody's.
LEMMA NextIsUnput ==
    ASSUME IInv, NEW h \in Handles, handle[h].at = "up"
    PROVE  <<handle[h].vm, <<handle[h].epoch, handle[h].next>>>> \notin DOMAIN published
<1> DEFINE r == <<handle[h].vm, <<handle[h].epoch, handle[h].next>>>>
<1> SUFFICES ASSUME r \in DOMAIN published PROVE FALSE
  BY Zenon
<1>1. PICK v \in VMs, e \in Nat, n \in Nat :
         /\ r = <<v, <<e, n>>>>
         /\ \A g \in Handles : Of(g, v) /\ handle[g].at \in {"taken", "up"} /\ handle[g].epoch = e => n < handle[g].next
  BY DEF IInv, Past
<1>2. v = handle[h].vm /\ e = handle[h].epoch /\ n = handle[h].next
  BY <1>1, Zenon
<1>3. handle[h].next \in Nat
  BY Zenon DEF IInv, Shapes
<1> QED  BY <1>1, <1>2, <1>3 DEF Of

LEMMA CaptureKeeps ==
    ASSUME IInv, NEW h \in Handles, Capture(h)
    PROVE  IInv'
<1>1. /\ handle[h].at = "up" /\ handle[h].ckpt = NoCkpt /\ Spend("captures")
      /\ UNCHANGED <<rec, published, late>>
  BY Zenon DEF Capture, Ready
<1>2. PICK written, zeroed, keep, state :
          handle' = [handle EXCEPT ![h] = Captured(h, written, zeroed, keep, state)]
  BY ZenonT(30) DEF Capture
<1> DEFINE new == Captured(h, written, zeroed, keep, state)
<1>3. handle' = [handle EXCEPT ![h] = new]
  BY <1>2, Zenon
<1>4. PICK ckpt : ckpt = new.ckpt
  BY Zenon
<1>5. DOMAIN handle[h] = HandleFields
  BY Zenon DEF IInv, Shapes
<1>6. /\ new.ckpt = ckpt /\ DOMAIN new = HandleFields /\ new.at = "up" /\ new.vm = handle[h].vm /\ new.epoch = handle[h].epoch
      /\ new.next = handle[h].next + 1 /\ new.point = handle[h].point
      /\ ckpt.step = "commit" /\ ckpt.ref = Ref(h) /\ ckpt.point = FALSE /\ {"step", "point"} \subseteq DOMAIN ckpt
  BY <1>1, <1>4, <1>5, Zenon DEF HandleFields, Captured
<1> HIDE DEF new
<1>7. handle[h].next \in Nat /\ "landed" \in DOMAIN handle[h].point /\ handle[h].vm \in VMs /\ handle'[h] = new
  BY <1>1, <1>3, Zenon DEF IInv, Shapes
<1>8. ckpt.ref = <<handle[h].vm, <<handle[h].epoch, handle[h].next>>>>
  BY <1>6, Zenon DEF Ref
<1>9. Took(h, ckpt.ref)'
  BY <1>6, <1>7, <1>8 DEF Took
<1>10. ckpt.ref \notin DOMAIN published
  BY <1>1, <1>7, <1>8, NextIsUnput, Zenon
<1>11. PICK p : p = handle[h].point
  BY Zenon
<1>12. ASSUME p.landed = "pending"
       PROVE  /\ {"landed", "ref"} \subseteq DOMAIN p /\ Took(h, p.ref)' /\ p.ref \notin DOMAIN published /\ p.ref # ckpt.ref
  <2>1. {"landed", "ref"} \subseteq DOMAIN p /\ Took(h, p.ref) /\ p.ref \notin DOMAIN published
    BY <1>1, <1>11, <1>12 DEF IInv, Unput, NoCkpt
  <2>2. PICK n \in Nat : n < handle[h].next /\ p.ref = <<handle[h].vm, <<handle[h].epoch, n>>>>
    BY <2>1, Zenon DEF Took
  <2>3. p.ref # ckpt.ref
    BY <1>7, <1>8, <2>2
  <2>4. Took(h, p.ref)'
    BY <1>6, <1>7, <2>2 DEF Took
  <2> QED  BY <2>1, <2>3, <2>4, Zenon
<1>13. Unput(h)'
  <2>1. UNCHANGED published /\ handle'[h].at = "up" /\ handle'[h].ckpt = ckpt /\ handle'[h].point = p
    BY <1>1, <1>6, <1>7, <1>11, Zenon
  <2> QED  BY <1>6, <1>9, <1>10, <1>12, <2>1, Zenon DEF Unput, NoCkpt
<1>14. DOMAIN handle' = Handles /\ \A g \in Handles : Steady(g)
  <2>1. Steady(h)
    BY <1>1, <1>2, <1>3, <1>6, <1>7, <1>13 DEF Steady
  <2> QED  BY <1>1, <1>3, <2>1, OneSteady, ZenonT(30)
<1>15. MadeKept
  BY <1>1, Spends, Zenon
<1> QED  BY <1>1, <1>14, <1>15, SameRest, CalmKeeps, Zenon

LEMMA SelectingIs ==
    ASSUME IInv, NEW h \in Handles, Selecting(h)
    PROVE  /\ handle[h].at = "up" /\ handle[h].ckpt.step = "select" /\ handle[h].ckpt # NoCkpt
           /\ handle[h].vm \in VMs /\ rec[handle[h].vm] # NoRecord
           /\ "epoch" \in DOMAIN SelectedRecord(h) /\ SelectedRecord(h).epoch = rec[handle[h].vm].epoch
<1>1. /\ handle[h].at = "up" /\ handle[h].ckpt.step = "select" /\ rec[handle[h].vm] # NoRecord
  BY Zenon DEF Selecting, Holds
<1>2. handle[h].ckpt # NoCkpt
  BY <1>1 DEF NoCkpt
<1>3. handle[h].vm \in VMs
  BY <1>1, Zenon DEF IInv, Shapes
<1>4. "epoch" \in DOMAIN rec[handle[h].vm]
  BY <1>1, <1>3, Zenon DEF IInv, Shapes
<1> QED  BY <1>1, <1>2, <1>3, <1>4, RecordWrites DEF SelectedRecord

\* What Installed leaves of a handle.
LEMMA InstalledIs ==
    ASSUME IInv, NEW h \in Handles, NEW spared
    PROVE  LET i == Installed(h, spared)
           IN  /\ DOMAIN i = HandleFields /\ i.at = handle[h].at /\ i.vm = handle[h].vm /\ i.epoch = handle[h].epoch
               /\ i.next = handle[h].next /\ i.ckpt = NoCkpt /\ i.point = handle[h].point
<1>1. DOMAIN handle[h] = HandleFields
  BY Zenon DEF IInv, Shapes
<1> QED  BY <1>1, ZenonT(30) DEF Installed, HandleFields

\* A handle whose publication is over: none is under way, and its point has
\* landed where the publication was the point's.
LEMMA EndedKeeps ==
    ASSUME IInv, NEW h \in Handles, handle[h].at = "up", NEW new, handle' = [handle EXCEPT ![h] = new],
           published' = published, DOMAIN new = HandleFields, new.at \in {"up", "closed"}, new.vm = handle[h].vm,
           new.epoch = handle[h].epoch, new.next = handle[h].next, new.ckpt = NoCkpt, "landed" \in DOMAIN new.point,
           \/ new.point.landed # "pending"
           \/ new.point = handle[h].point /\ (handle[h].ckpt.step = "none" \/ ~handle[h].ckpt.point),
           RecordsKept, MadeKept, DOMAIN late' = Handles, Late'
    PROVE  IInv'
<1>1. handle'[h] = new /\ handle[h].next \in Nat
  BY Zenon DEF IInv, Shapes
<1>2. PICK p : p = new.point
  BY Zenon
<1>3. ASSUME p.landed = "pending"
      PROVE  {"landed", "ref"} \subseteq DOMAIN p /\ Took(h, p.ref)' /\ p.ref \notin DOMAIN published
  <2>1. {"landed", "ref"} \subseteq DOMAIN p /\ Took(h, p.ref) /\ p.ref \notin DOMAIN published
    BY <1>2, <1>3, Zenon DEF IInv, Unput
  <2>2. Took(h, p.ref)'
    BY <1>1, <2>1, Zenon DEF Took
  <2> QED  BY <2>1, <2>2, Zenon
<1>4. Unput(h)'
  BY <1>1, <1>2, <1>3 DEF Unput, NoCkpt
<1>5. "step" \in DOMAIN new.ckpt
  BY DEF NoCkpt
<1>6. DOMAIN handle' = Handles /\ \A g \in Handles : Steady(g)
  <2>1. Steady(h)
    BY <1>1, <1>4, <1>5 DEF Steady
  <2> QED  BY <2>1, OneSteady, ZenonT(30)
<1> QED  BY <1>6, CalmKeeps, Zenon

LEMMA SelectKeeps ==
    ASSUME IInv, NEW h \in Handles, Select(h)
    PROVE  IInv'
<1>1. Selecting(h) /\ UNCHANGED <<published, late, bound>> /\ rec' = [rec EXCEPT ![handle[h].vm] = SelectedRecord(h)]
  BY Zenon DEF Select
<1>2. RecordsKept
  BY <1>1, SelectingIs, Rewritten1, ZenonT(30)
<1>3. MadeKept /\ DOMAIN late' = Handles /\ Late'
  BY <1>1, SameRest, Zenon
<1>4. DOMAIN handle[h] = HandleFields /\ {"step", "point"} \subseteq DOMAIN handle[h].ckpt /\ handle[h].next \in Nat
      /\ "landed" \in DOMAIN handle[h].point
  BY <1>1, SelectingIs, Zenon DEF IInv, Shapes, Unput
<1>5. CASE handle[h].ckpt.point
  <2> DEFINE ckpt == [handle[h].ckpt EXCEPT !.step = "pin"]
             new == [handle[h] EXCEPT !.ckpt = ckpt, !.spared = Protected(SelectedRecord(h))]
  <2>1. handle' = [handle EXCEPT ![h] = new]
    BY <1>1, <1>4, <1>5, ZenonT(30) DEF Select, IInv, Shapes
  <2>2. {"step", "point"} \subseteq DOMAIN ckpt /\ ckpt.step = "pin" /\ ckpt.point = handle[h].ckpt.point
    BY <1>4, Zenon
  <2> HIDE DEF ckpt
  <2>3. /\ DOMAIN new = HandleFields /\ new.at = handle[h].at /\ new.vm = handle[h].vm /\ new.epoch = handle[h].epoch
        /\ new.next = handle[h].next /\ new.ckpt = ckpt /\ new.point = handle[h].point
    BY <1>4, Zenon DEF HandleFields
  <2> HIDE DEF new
  <2>4. handle'[h] = new
    BY <2>1, Zenon DEF IInv, Shapes
  <2>5. PICK p : p = handle[h].point
    BY Zenon
  <2>6. ASSUME p.landed = "pending" PROVE {"landed", "ref"} \subseteq DOMAIN p /\ Took(h, p.ref)'
    <3>1. {"landed", "ref"} \subseteq DOMAIN p /\ Took(h, p.ref)
      BY <1>1, <2>5, <2>6, SelectingIs, Zenon DEF IInv, Unput
    <3> QED  BY <2>3, <2>4, <3>1, Zenon DEF Took
  <2>7. Unput(h)'
    <3>1. handle'[h].at = "up" /\ handle'[h].ckpt = ckpt /\ handle'[h].point = p
      BY <1>1, <2>3, <2>4, <2>5, SelectingIs, Zenon
    <3> QED  BY <1>1, <1>5, <2>2, <2>6, <3>1, ZenonT(30) DEF Unput
  <2>8. DOMAIN handle' = Handles /\ \A g \in Handles : Steady(g)
    <3>1. Steady(h)
      BY <1>1, <1>4, <2>1, <2>2, <2>3, <2>7, <2>4, SelectingIs DEF Steady
    <3> QED  BY <1>1, <2>1, <3>1, OneSteady, ZenonT(30)
  <2> QED  BY <1>1, <1>2, <1>3, <2>8, CalmKeeps, Zenon
<1>6. CASE ~handle[h].ckpt.point
  <2> DEFINE new == Installed(h, Protected(SelectedRecord(h)))
  <2>1. handle' = [handle EXCEPT ![h] = new]
    BY <1>1, <1>6, Zenon DEF Select
  <2>2. /\ DOMAIN new = HandleFields /\ new.at = handle[h].at /\ new.vm = handle[h].vm /\ new.epoch = handle[h].epoch
        /\ new.next = handle[h].next /\ new.ckpt = NoCkpt /\ new.point = handle[h].point
    BY InstalledIs, Zenon
  <2> HIDE DEF new
  <2> QED  BY <1>1, <1>2, <1>3, <1>4, <1>6, <2>1, <2>2, SelectingIs, EndedKeeps, ZenonT(30)
<1> QED  BY <1>5, <1>6, Zenon

LEMMA LateKeeps ==
    ASSUME IInv, NEW h \in Handles, SelectLost(h) \/ Deliver(h)
    PROVE  IInv'
<1>1. UNCHANGED <<handle, published>>
  BY Zenon DEF SelectLost, Deliver
<1>2. DOMAIN handle' = Handles /\ \A g \in Handles : Steady(g)
  BY <1>1, SameSteady, Zenon DEF IInv, Shapes
<1>3. CASE SelectLost(h)
  <2>1. /\ Selecting(h) /\ Spend("faults") /\ UNCHANGED rec
        /\ late' = [late EXCEPT ![h] = [etag |-> rec[handle[h].vm], next |-> SelectedRecord(h)]]
    BY <1>3, Zenon DEF SelectLost
  <2>2. MadeKept /\ RecordsKept
    BY <2>1, Spends, SameRest, Zenon
  <2>3. DOMAIN late' = Handles /\ Late'
    BY <2>1, SelectingIs, Zenon DEF IInv, Shapes, Late
  <2> QED  BY <1>1, <1>2, <2>2, <2>3, CalmKeeps, Zenon
<1>4. CASE Deliver(h)
  <2>1. /\ late[h] # NoRef /\ UNCHANGED bound /\ late' = [late EXCEPT ![h] = NoRef]
        /\ rec' = [rec EXCEPT ![handle[h].vm] = IF rec[handle[h].vm] = late[h].etag THEN late[h].next ELSE rec[handle[h].vm]]
    BY <1>4, Zenon DEF Deliver
  <2>2. DOMAIN late' = Handles /\ Late'
    BY <2>1, Zenon DEF IInv, Shapes, Late
  <2> DEFINE new == IF rec[handle[h].vm] = late[h].etag THEN late[h].next ELSE rec[handle[h].vm]
  <2>3. ASSUME handle[h].vm \in VMs
        PROVE  new = NoRecord \/ (rec[handle[h].vm] # NoRecord /\ "epoch" \in DOMAIN new /\ new.epoch = rec[handle[h].vm].epoch)
    BY <2>1, <2>3, Zenon DEF IInv, Shapes, Late
  <2> HIDE DEF new
  <2>4. rec' = [rec EXCEPT ![handle[h].vm] = new]
    BY <2>1, Zenon DEF new
  <2>5. RecordsKept
    BY <2>3, <2>4, Rewritten1, ZenonT(30)
  <2> QED  BY <1>1, <1>2, <2>1, <2>2, <2>5, SameRest, CalmKeeps, Zenon
<1> QED  BY <1>3, <1>4, Zenon
LEMMA AbandonKeeps ==
    ASSUME IInv, NEW h \in Handles, Abandon(h)
    PROVE  IInv'
<1>1. /\ handle[h].at = "up" /\ handle[h].ckpt # NoCkpt /\ (UNCHANGED bound \/ Spend("abandoned"))
      /\ handle' = [handle EXCEPT ![h] = Abandoned(h)] /\ UNCHANGED <<rec, published, late>>
  BY Zenon DEF Abandon
<1>2. RecordsKept /\ MadeKept /\ DOMAIN late' = Handles /\ Late'
  BY <1>1, SameRest, Spends, Zenon
<1>3. DOMAIN handle[h] = HandleFields /\ "landed" \in DOMAIN handle[h].point
  BY Zenon DEF IInv, Shapes
<1> DEFINE point == IF handle[h].ckpt.point THEN [handle[h].point EXCEPT !.landed = "failed"] ELSE handle[h].point
           new == [handle[h] EXCEPT !.ckpt = NoCkpt, !.point = point]
<1>4. Abandoned(h) = new
  BY <1>3, Zenon DEF Abandoned, HandleFields
<1>5. "landed" \in DOMAIN point /\ (point.landed # "pending" \/ (point = handle[h].point /\ ~handle[h].ckpt.point))
  BY <1>3, Zenon
<1> HIDE DEF point
<1>6. /\ DOMAIN new = HandleFields /\ new.at = handle[h].at /\ new.vm = handle[h].vm /\ new.epoch = handle[h].epoch
      /\ new.next = handle[h].next /\ new.ckpt = NoCkpt /\ new.point = point
  BY <1>3, Zenon DEF HandleFields
<1> HIDE DEF new
<1> QED  BY <1>1, <1>2, <1>4, <1>5, <1>6, EndedKeeps, ZenonT(30)

LEMMA ForkPointKeeps ==
    ASSUME IInv, NEW h \in Handles, ForkPoint(h)
    PROVE  IInv'
<1>1. /\ Spend("points") /\ handle[h].at = "up" /\ handle[h].ckpt = NoCkpt /\ UNCHANGED <<published, late>>
      /\ rec[handle[h].vm] # NoRecord
      /\ rec' = [rec EXCEPT ![handle[h].vm] = WithPin(rec[handle[h].vm], SequenceOf(handle[h].base))]
  BY Zenon DEF ForkPoint, Ready, Holds
<1>2. PICK p, spared : /\ {"landed", "ref"} \subseteq DOMAIN p
                       /\ p.landed = "pending" => p.ref = Ref(h)
                       /\ handle' = [handle EXCEPT ![h].next = @ + 1, ![h].spared = spared, ![h].point = p]
  <2>1. PICK pages : handle' = [handle EXCEPT
                    ![h].next = @ + 1, ![h].spared = Protected(WithPin(rec[handle[h].vm], SequenceOf(handle[h].base))),
                    ![h].point = [landed |-> IF pages = {} THEN "published" ELSE "pending",
                                  base |-> handle[h].base, pages |-> pages,
                                  ref |-> IF pages = {} THEN handle[h].base ELSE Ref(h)]]
    BY ZenonT(30) DEF ForkPoint
  <2> DEFINE p == [landed |-> IF pages = {} THEN "published" ELSE "pending",
                   base |-> handle[h].base, pages |-> pages, ref |-> IF pages = {} THEN handle[h].base ELSE Ref(h)]
  <2>2. {"landed", "ref"} \subseteq DOMAIN p /\ (p.landed = "pending" => p.ref = Ref(h))
    BY Zenon
  <2> HIDE DEF p
  <2> QED  BY <2>1, <2>2, ZenonT(30) DEF p
<1>3. DOMAIN handle[h] = HandleFields /\ handle[h].next \in Nat /\ handle[h].vm \in VMs
  BY <1>1, Zenon DEF IInv, Shapes
<1>4. RecordsKept
  <2>1. "epoch" \in DOMAIN rec[handle[h].vm]
    BY <1>1, <1>3, Zenon DEF IInv, Shapes
  <2> QED  BY <1>1, <2>1, RecordWrites, Rewritten1, ZenonT(30)
<1>5. MadeKept /\ DOMAIN late' = Handles /\ Late'
  BY <1>1, Spends, SameRest, Zenon
<1> DEFINE new == [handle[h] EXCEPT !.next = @ + 1, !.spared = spared, !.point = p]
<1>6. handle' = [handle EXCEPT ![h] = new]
  BY <1>2, ZenonT(30) DEF IInv, Shapes
<1>7. /\ DOMAIN new = HandleFields /\ new.at = "up" /\ new.vm = handle[h].vm /\ new.epoch = handle[h].epoch
      /\ new.next = handle[h].next + 1 /\ new.ckpt = NoCkpt /\ new.point = p
  BY <1>1, <1>3, Zenon DEF HandleFields
<1> HIDE DEF new
<1>8. handle'[h] = new
  BY <1>6, Zenon DEF IInv, Shapes
<1>9. ASSUME p.landed = "pending" PROVE Took(h, p.ref)' /\ p.ref \notin DOMAIN published
  <2>1. p.ref = <<handle[h].vm, <<handle[h].epoch, handle[h].next>>>>
    BY <1>2, <1>9, Zenon DEF Ref
  <2> QED  BY <1>1, <1>3, <1>7, <1>8, <2>1, NextIsUnput DEF Took
<1>10. Unput(h)'
  BY <1>1, <1>2, <1>7, <1>8, <1>9 DEF Unput, NoCkpt
<1>11. "step" \in DOMAIN new.ckpt
  BY <1>7 DEF NoCkpt
<1>12. DOMAIN handle' = Handles /\ \A g \in Handles : Steady(g)
  <2>1. Steady(h)
    BY <1>1, <1>2, <1>3, <1>6, <1>7, <1>10, <1>11, <1>8 DEF Steady
  <2> QED  BY <1>1, <1>6, <2>1, OneSteady, ZenonT(30)
<1> QED  BY <1>1, <1>4, <1>5, <1>12, CalmKeeps, Zenon

LEMMA PublishPointKeeps ==
    ASSUME IInv, NEW h \in Handles, PublishPoint(h)
    PROVE  IInv'
<1>1. /\ handle[h].at = "up" /\ handle[h].ckpt = NoCkpt /\ handle[h].point.landed = "pending" /\ Spend("captures")
      /\ UNCHANGED <<rec, published, late>>
  BY Zenon DEF PublishPoint
<1>2. PICK ckpt : /\ ckpt.step = "commit" /\ ckpt.ref = handle[h].point.ref /\ ckpt.point = TRUE
                  /\ {"step", "point"} \subseteq DOMAIN ckpt
                  /\ handle' = [handle EXCEPT ![h].ckpt = ckpt]
  BY ZenonT(30) DEF PublishPoint
<1>3. RecordsKept /\ MadeKept /\ DOMAIN late' = Handles /\ Late'
  BY <1>1, SameRest, Spends, Zenon
<1>4. DOMAIN handle[h] = HandleFields /\ handle[h].next \in Nat /\ "landed" \in DOMAIN handle[h].point
  BY Zenon DEF IInv, Shapes
<1> DEFINE new == [handle[h] EXCEPT !.ckpt = ckpt]
<1>5. handle' = [handle EXCEPT ![h] = new]
  BY <1>2, Zenon DEF IInv, Shapes
<1>6. /\ DOMAIN new = HandleFields /\ new.at = handle[h].at /\ new.vm = handle[h].vm /\ new.epoch = handle[h].epoch
      /\ new.next = handle[h].next /\ new.ckpt = ckpt /\ new.point = handle[h].point
  BY <1>4, Zenon DEF HandleFields
<1> HIDE DEF new
<1>7. handle'[h] = new
  BY <1>5, Zenon DEF IInv, Shapes
<1>8. PICK p : p = handle[h].point
  BY Zenon
<1>9. {"landed", "ref"} \subseteq DOMAIN p /\ Took(h, p.ref) /\ p.ref \notin DOMAIN published /\ p.ref = ckpt.ref
  BY <1>1, <1>2, <1>8 DEF IInv, Unput, NoCkpt
<1>10. Took(h, p.ref)' /\ Took(h, ckpt.ref)'
  BY <1>6, <1>7, <1>9, Zenon DEF Took
<1>11. Unput(h)'
  BY <1>1, <1>2, <1>6, <1>7, <1>8, <1>9, <1>10, Zenon DEF Unput, NoCkpt
<1>12. DOMAIN handle' = Handles /\ \A g \in Handles : Steady(g)
  <2>1. Steady(h)
    BY <1>1, <1>2, <1>4, <1>5, <1>6, <1>11, <1>7 DEF Steady
  <2> QED  BY <1>1, <1>5, <2>1, OneSteady, ZenonT(30)
<1> QED  BY <1>1, <1>3, <1>12, CalmKeeps, Zenon

LEMMA PinPointKeeps ==
    ASSUME IInv, NEW h \in Handles, PinPoint(h)
    PROVE  IInv'
<1> DEFINE v == handle[h].vm
           pinned == WithPin(rec[v], SequenceOf(handle[h].ckpt.ref))
           i == Installed(h, Protected(pinned))
           new == [i EXCEPT !.point = [@ EXCEPT !.landed = "published"]]
<1>1. /\ handle[h].at = "up" /\ rec[v] # NoRecord /\ UNCHANGED <<published, late, bound>>
      /\ rec' = [rec EXCEPT ![v] = pinned] /\ handle' = [handle EXCEPT ![h] = new]
  BY Zenon DEF PinPoint, Holds
<1>2. v \in VMs /\ "landed" \in DOMAIN handle[h].point
  BY <1>1, Zenon DEF IInv, Shapes
<1>3. RecordsKept
  <2>1. "epoch" \in DOMAIN rec[v]
    BY <1>1, <1>2, Zenon DEF IInv, Shapes
  <2> QED  BY <1>1, <2>1, RecordWrites, Rewritten1, ZenonT(30)
<1>4. MadeKept /\ DOMAIN late' = Handles /\ Late'
  BY <1>1, SameRest, Zenon
<1>5. /\ DOMAIN i = HandleFields /\ i.at = handle[h].at /\ i.vm = handle[h].vm /\ i.epoch = handle[h].epoch
      /\ i.next = handle[h].next /\ i.ckpt = NoCkpt /\ i.point = handle[h].point
  BY InstalledIs, Zenon
<1> HIDE DEF i, pinned
<1>6. /\ DOMAIN new = HandleFields /\ new.at = handle[h].at /\ new.vm = handle[h].vm /\ new.epoch = handle[h].epoch
      /\ new.next = handle[h].next /\ new.ckpt = NoCkpt
      /\ new.point = [handle[h].point EXCEPT !.landed = "published"]
  BY <1>5, Zenon DEF HandleFields
<1>7. "landed" \in DOMAIN new.point /\ new.point.landed = "published"
  BY <1>2, <1>6, Zenon
<1> HIDE DEF new
<1> QED  BY <1>1, <1>3, <1>4, <1>6, <1>7, EndedKeeps, ZenonT(30)

LEMMA RetirePointKeeps ==
    ASSUME IInv, NEW h \in Handles, RetirePoint(h)
    PROVE  IInv'
<1>1. /\ handle[h].at = "up" /\ handle[h].point.landed # "pending" /\ UNCHANGED <<rec, published, late, bound>>
      /\ handle' = [handle EXCEPT ![h].point = NoPoint]
  BY Zenon DEF RetirePoint
<1>2. RecordsKept /\ MadeKept /\ DOMAIN late' = Handles /\ Late'
  BY <1>1, SameRest, Zenon
<1>3. DOMAIN handle[h] = HandleFields /\ handle[h].next \in Nat /\ "step" \in DOMAIN handle[h].ckpt
  BY Zenon DEF IInv, Shapes
<1> DEFINE new == [handle[h] EXCEPT !.point = NoPoint]
<1>4. handle' = [handle EXCEPT ![h] = new]
  BY <1>1, Zenon DEF IInv, Shapes
<1>5. /\ DOMAIN new = HandleFields /\ new.at = handle[h].at /\ new.vm = handle[h].vm /\ new.epoch = handle[h].epoch
      /\ new.next = handle[h].next /\ new.ckpt = handle[h].ckpt /\ new.point = NoPoint
  BY <1>3, Zenon DEF HandleFields
<1> HIDE DEF new
<1>6. handle'[h] = new
  BY <1>4, Zenon DEF IInv, Shapes
<1>7. PICK ckpt : ckpt = handle[h].ckpt
  BY Zenon
<1>8. ckpt.step = "commit" => Took(h, ckpt.ref)' /\ ckpt.ref \notin DOMAIN published
  BY <1>1, <1>5, <1>6, <1>7, Zenon DEF IInv, Unput, Took
<1>9. Unput(h)'
  BY <1>1, <1>5, <1>6, <1>7, <1>8 DEF IInv, Unput, NoPoint
<1>10. "landed" \in DOMAIN new.point
  BY <1>5 DEF NoPoint
<1>11. DOMAIN handle' = Handles /\ \A g \in Handles : Steady(g)
  <2>1. Steady(h)
    BY <1>1, <1>3, <1>5, <1>6, <1>9, <1>10 DEF Steady
  <2> QED  BY <1>1, <1>4, <2>1, OneSteady, ZenonT(30)
<1> QED  BY <1>1, <1>2, <1>11, CalmKeeps, Zenon

LEMMA CloseKeeps ==
    ASSUME IInv, NEW h \in Handles, Close(h)
    PROVE  IInv'
<1> DEFINE p == Unpublished(handle[h].point)
           new == [handle[h] EXCEPT !.at = "closed", !.point = p]
<1>1. /\ handle[h].at = "up" /\ handle[h].ckpt = NoCkpt /\ UNCHANGED <<published, late, bound>>
      /\ handle' = [handle EXCEPT ![h].at = "closed", ![h].point = p]
      /\ rec' = IF handle[h].root THEN [rec EXCEPT ![handle[h].vm] = NoRecord] ELSE rec
  BY Zenon DEF Close
<1>2. RecordsKept
  <2>1. UNCHANGED rec => RecordsKept
    BY SameRest, Zenon
  <2>2. rec' = [rec EXCEPT ![handle[h].vm] = NoRecord] => RecordsKept
    BY Rewritten1, ZenonT(30)
  <2> QED  BY <1>1, <2>1, <2>2, Zenon
<1>3. MadeKept /\ DOMAIN late' = Handles /\ Late'
  BY <1>1, SameRest, Zenon
<1>4. DOMAIN handle[h] = HandleFields /\ "landed" \in DOMAIN handle[h].point
  BY Zenon DEF IInv, Shapes
<1>5. handle' = [handle EXCEPT ![h] = new]
  BY <1>1, ZenonT(30) DEF IInv, Shapes
<1>6. "landed" \in DOMAIN p /\ p.landed # "pending"
  BY <1>4, Zenon DEF Unpublished
<1> HIDE DEF p
<1>7. /\ DOMAIN new = HandleFields /\ new.at = "closed" /\ new.vm = handle[h].vm /\ new.epoch = handle[h].epoch
      /\ new.next = handle[h].next /\ new.ckpt = NoCkpt /\ new.point = p
  BY <1>1, <1>4, Zenon DEF HandleFields
<1> HIDE DEF new
<1> QED  BY <1>1, <1>2, <1>3, <1>5, <1>6, <1>7, EndedKeeps, ZenonT(30)

LEMMA CrashKeeps ==
    ASSUME IInv, NEW h \in Handles, Crash(h)
    PROVE  IInv'
<1>1. /\ UNCHANGED <<rec, published, late, bound>>
      /\ handle[h].at \in {"root", "taken", "up", "inheriting"}
      /\ handle' = [g \in Handles |-> IF g = h \/ g \in Holders(h)
                                      THEN [handle[g] EXCEPT !.at = "closed"] ELSE handle[g]]
  BY Zenon DEF Crash
<1>2. RecordsKept /\ MadeKept /\ DOMAIN late' = Handles /\ Late' /\ DOMAIN handle' = Handles
  BY <1>1, SameRest, Zenon
<1>3. ASSUME NEW g \in Handles, handle'[g] # handle[g]
      PROVE  Steady(g)
  <2>1. handle'[g] = [handle[g] EXCEPT !.at = "closed"]
    BY <1>1, <1>3, Zenon
  <2>2. /\ DOMAIN handle[g] = HandleFields /\ handle[g].next \in Nat
        /\ "landed" \in DOMAIN handle[g].point /\ "step" \in DOMAIN handle[g].ckpt
    BY Zenon DEF IInv, Shapes
  <2>3. /\ DOMAIN handle'[g] = HandleFields /\ handle'[g].at = "closed" /\ handle'[g].vm = handle[g].vm
        /\ handle'[g].epoch = handle[g].epoch /\ handle'[g].next = handle[g].next
        /\ handle'[g].ckpt = handle[g].ckpt /\ handle'[g].point = handle[g].point
    BY <2>1, <2>2, Zenon DEF HandleFields
  <2>4. Unput(g)'
    BY <2>3, Zenon DEF Unput
  <2> QED  BY <2>1, <2>2, <2>3, <2>4 DEF Steady
<1> QED  BY <1>1, <1>2, <1>3, SameSteady, CalmKeeps, ZenonT(30)
\* An inheritance's pin, releases, deletes and sweeps.
LEMMA OthersKeep ==
    ASSUME IInv, \/ \E h \in Handles, v \in VMs : Inherit(h, v)
                 \/ \E v \in VMs : Release(v) \/ Delete(v)
                 \/ \E s \in sweeps : SweepNext(s)
    PROVE  IInv'
<1>1. ASSUME NEW h \in Handles, NEW v \in VMs, Inherit(h, v) PROVE IInv'
  <2>1. PICK s : /\ handle[h].at = "new" /\ rec[v] # NoRecord /\ UNCHANGED <<published, late, bound>>
                 /\ rec' = [rec EXCEPT ![v] = WithPin(rec[v], s)]
                 /\ handle' = [handle EXCEPT ![h].at = "inheriting", ![h].base = <<v, s>>]
    BY <1>1, ZenonT(30) DEF Inherit
  <2> DEFINE new == [handle[h] EXCEPT !.at = "inheriting", !.base = <<v, s>>]
  <2>2. handle' = [handle EXCEPT ![h] = new]
    BY <2>1, ZenonT(30) DEF IInv, Shapes
  <2>3. /\ DOMAIN handle[h] = HandleFields /\ handle[h].next \in Nat
        /\ "landed" \in DOMAIN handle[h].point /\ "step" \in DOMAIN handle[h].ckpt
    BY Zenon DEF IInv, Shapes
  <2>4. /\ DOMAIN new = HandleFields /\ new.at = "inheriting" /\ new.vm = handle[h].vm /\ new.epoch = handle[h].epoch
        /\ new.next = handle[h].next /\ new.ckpt = handle[h].ckpt /\ new.point = handle[h].point
    BY <2>3, Zenon DEF HandleFields
  <2> HIDE DEF new
  <2>5. handle'[h] = new
    BY <2>2, Zenon DEF IInv, Shapes
  <2>6. Unput(h)'
    BY <2>1, <2>4, <2>5, Zenon DEF IInv, Unput
  <2>7. DOMAIN handle' = Handles /\ \A g \in Handles : Steady(g)
    <3>1. Steady(h)
      BY <2>1, <2>3, <2>4, <2>5, <2>6 DEF Steady
    <3> QED  BY <2>1, <2>2, <3>1, OneSteady, ZenonT(30)
  <2>8. RecordsKept
    <3>1. "epoch" \in DOMAIN rec[v]
      BY <2>1, Zenon DEF IInv, Shapes
    <3> QED  BY <2>1, <3>1, RecordWrites, Rewritten1, ZenonT(30)
  <2> QED  BY <2>1, <2>7, <2>8, SameRest, CalmKeeps, Zenon
<1>2. ASSUME NEW v \in VMs, Release(v) \/ Delete(v) PROVE IInv'
  <2>1. UNCHANGED <<published, handle, late, bound>>
    BY <1>2, ZenonT(30) DEF Release, Delete
  <2>2. PICK new : rec' = [rec EXCEPT ![v] = new] /\ rec[v] # NoRecord /\ (new = NoRecord \/ \E s : new = WithoutKept(rec[v], s))
    BY <1>2, ZenonT(30) DEF Release, Delete
  <2>3. RecordsKept
    <3>1. "epoch" \in DOMAIN rec[v]
      BY <2>2, Zenon DEF IInv, Shapes
    <3> QED  BY <2>2, <3>1, RecordWrites, Rewritten1, ZenonT(30)
  <2>4. DOMAIN handle' = Handles /\ \A g \in Handles : Steady(g)
    BY <2>1, SameSteady, Zenon DEF IInv, Shapes
  <2> QED  BY <2>1, <2>3, <2>4, SameRest, CalmKeeps, Zenon
<1>3. ASSUME NEW s \in sweeps, SweepNext(s) PROVE IInv'
  <2>1. UNCHANGED <<rec, published, handle, late, bound>>
    BY <1>3, ZenonT(30) DEF SweepNext, Plan, SweepStops, DeleteCheckpoint
  <2>2. DOMAIN handle' = Handles /\ \A g \in Handles : Steady(g)
    BY <2>1, SameSteady, Zenon DEF IInv, Shapes
  <2> QED  BY <2>1, <2>2, SameRest, CalmKeeps, Zenon
<1> QED  BY <1>1, <1>2, <1>3, Zenon
-----------------------------------------------------------------------------
(* A publication's commit.                                                 *)

\* Handles of one VM have different epochs, so no handle took another's.
LEMMA TookOnce ==
    ASSUME IInv, NEW g \in Handles, NEW h \in Handles, NEW ref, g # h, handle[g].at = "up", handle[h].at = "up",
           Took(g, ref), Took(h, ref)
    PROVE  FALSE
<1>1. handle[g].vm = handle[h].vm /\ handle[g].epoch = handle[h].epoch
  BY DEF Took
<1>2. handle[h].vm \in VMs
  BY Zenon DEF IInv, Shapes
<1> QED  BY <1>1, <1>2, Zenon DEF IInv, Epoched, Of

LEMMA CommitIs ==
    ASSUME IInv, NEW h \in Handles, Commit(h)
    PROVE  /\ handle[h].at = "up" /\ handle[h].ckpt.step = "commit" /\ UNCHANGED <<rec, late, bound>>
           /\ DOMAIN published' = DOMAIN published \cup {handle[h].ckpt.ref}
           /\ handle[h].ckpt.ref \notin DOMAIN published
           /\ \A ref \in DOMAIN published : published'[ref] = published[ref]
<1>1. PICK i : published' = Put(handle[h].ckpt.ref, i)
  BY Zenon DEF Commit
<1>2. handle[h].at = "up" /\ handle[h].ckpt.step = "commit" /\ UNCHANGED <<rec, late, bound>>
  BY Zenon DEF Commit
<1>3. handle[h].ckpt.ref \notin DOMAIN published
  BY <1>2, Zenon DEF IInv, Unput
<1> QED  BY <1>1, <1>2, <1>3, Zenon DEF Put

LEMMA CommitKeeps ==
    ASSUME IInv, NEW h \in Handles, Commit(h)
    PROVE  IInv'
<1>1. PICK old : old = handle[h].ckpt
  BY Zenon
<1>2. PICK ckpt : /\ ckpt.step = "select" /\ ckpt.point = old.point /\ {"step", "point"} \subseteq DOMAIN ckpt
                  /\ handle' = [handle EXCEPT ![h].ckpt = ckpt]
  BY <1>1, ZenonT(30) DEF Commit
<1>3. /\ handle[h].at = "up" /\ old.step = "commit" /\ UNCHANGED <<rec, late, bound>>
      /\ DOMAIN published' = DOMAIN published \cup {old.ref}
      /\ old.ref \notin DOMAIN published /\ Took(h, old.ref)
  BY <1>1, CommitIs, Zenon DEF IInv, Unput
<1>4. /\ DOMAIN handle[h] = HandleFields /\ handle[h].next \in Nat /\ "landed" \in DOMAIN handle[h].point
      /\ handle[h].vm \in VMs /\ handle[h].epoch \in Nat
  BY <1>3, Zenon DEF IInv, Shapes
<1>5. /\ DOMAIN handle' = Handles /\ \A g \in Handles \ {h} : handle'[g] = handle[g]
      /\ DOMAIN handle'[h] = HandleFields /\ handle'[h].at = "up" /\ handle'[h].vm = handle[h].vm
      /\ handle'[h].epoch = handle[h].epoch /\ handle'[h].next = handle[h].next /\ handle'[h].ckpt = ckpt
      /\ handle'[h].point = handle[h].point
  BY <1>2, <1>3, <1>4, Zenon DEF IInv, Shapes, HandleFields
<1>6. ASSUME NEW g \in Handles
      PROVE  /\ handle'[g].at = handle[g].at /\ handle'[g].vm = handle[g].vm /\ handle'[g].epoch = handle[g].epoch
             /\ handle'[g].next = handle[g].next /\ handle'[g].point = handle[g].point
             /\ \A v : Of(g, v)' <=> Of(g, v)
             /\ \A r : Took(g, r)' <=> Took(g, r)
  BY <1>3, <1>5, Zenon DEF Of, Took
<1>7. Shapes'
  BY <1>2, <1>3, <1>5, <1>6, ZenonT(30) DEF IInv, Shapes
<1>8. PICK n \in Nat : n < handle[h].next /\ old.ref = <<handle[h].vm, <<handle[h].epoch, n>>>>
  BY <1>3, Zenon DEF Took
<1>9. Fresh'
  <2>1. Of(h, handle[h].vm) /\ VmOf(old.ref) = handle[h].vm
    BY <1>3, <1>8 DEF Of, VmOf
  <2> QED  BY <1>3, <1>4, <1>6, <2>1 DEF IInv, Fresh
<1>10. Epoched'
  <2>1. ASSUME NEW f \in Handles, NEW g \in Handles, NEW v \in VMs, Of(f, v)', Of(g, v)', f # g
        PROVE  handle'[f].epoch # handle'[g].epoch
    BY <1>6, <2>1 DEF IInv, Epoched
  <2>2. ASSUME NEW g \in Handles, NEW v \in VMs, Of(g, v)', rec'[v] # NoRecord
        PROVE  handle'[g].epoch <= rec'[v].epoch
    BY <1>3, <1>6, <2>2, Zenon DEF IInv, Epoched
  <2>3. ASSUME NEW g \in Handles, handle'[g].at = "root"
        PROVE  /\ rec'[handle'[g].vm] = NoRecord /\ handle'[g].base = <<handle'[g].vm, <<handle'[g].epoch, 1>>>>
               /\ \A f \in Handles \ {g} : handle'[f].at \notin {"root", "taken", "up"} \/ handle'[f].vm # handle'[g].vm
    <3>1. handle'[g] = handle[g]
      BY <1>3, <1>5, <2>3, Zenon
    <3>2. /\ rec[handle[g].vm] = NoRecord /\ handle[g].base = <<handle[g].vm, <<handle[g].epoch, 1>>>>
          /\ \A f \in Handles \ {g} : ~Of(f, handle[g].vm)
      BY <2>3, <3>1, Zenon DEF IInv, Epoched
    <3> QED  BY <1>3, <1>6, <3>1, <3>2, Zenon DEF Of
  <2> QED  BY <2>1, <2>2, <2>3, Zenon DEF Epoched, Of
<1>11. Past'
  <2> SUFFICES ASSUME NEW ref \in DOMAIN published'
               PROVE  \E v \in VMs, e \in Nat, m \in Nat :
                         /\ ref = <<v, <<e, m>>>>
                         /\ rec'[v] # NoRecord => e <= rec'[v].epoch
                         /\ \A g \in Handles : Of(g, v)' /\ handle'[g].at \in {"taken", "up"} /\ handle'[g].epoch = e
                               => m < handle'[g].next
                         /\ \A g \in Handles : Of(g, v)' /\ handle'[g].at = "root" => handle'[g].epoch = e /\ m = 1
    BY Zenon DEF Past
  <2> DEFINE Was(v, e, m) ==
               /\ ref = <<v, <<e, m>>>>
               /\ rec[v] # NoRecord => e <= rec[v].epoch
               /\ \A g \in Handles : Of(g, v) /\ handle[g].at \in {"taken", "up"} /\ handle[g].epoch = e
                     => m < handle[g].next
               /\ \A g \in Handles : Of(g, v) /\ handle[g].at = "root" => handle[g].epoch = e /\ m = 1
  <2>1. ASSUME ref \in DOMAIN published PROVE \E v \in VMs, e \in Nat, m \in Nat : Was(v, e, m)
    BY <2>1, Zenon DEF IInv, Past
  <2>2. ASSUME ref = old.ref PROVE Was(handle[h].vm, handle[h].epoch, n)
    <3>1. Of(h, handle[h].vm)
      BY <1>3, Zenon DEF Of
    <3>2. rec[handle[h].vm] # NoRecord => handle[h].epoch <= rec[handle[h].vm].epoch
      BY <1>4, <3>1, Zenon DEF IInv, Epoched
    <3>3. ASSUME NEW g \in Handles, Of(g, handle[h].vm), handle[g].epoch = handle[h].epoch PROVE n < handle[g].next
      <4>1. g = h
        BY <1>4, <3>1, <3>3, Zenon DEF IInv, Epoched
      <4> QED  BY <1>8, <4>1, Zenon
    <3>4. ASSUME NEW g \in Handles, Of(g, handle[h].vm), handle[g].at = "root" PROVE FALSE
      BY <1>3, <3>1, <3>4, Zenon DEF IInv, Epoched, Of
    <3> QED  BY <1>4, <1>8, <2>2, <3>2, <3>3, <3>4, Zenon
  <2>3. PICK v \in VMs, e \in Nat, m \in Nat : Was(v, e, m)
    BY <1>3, <1>4, <1>8, <2>1, <2>2, Zenon
  <2> QED  BY <1>3, <1>6, <2>3
<1>12. Late'
  BY <1>3, Zenon DEF IInv, Late
<1>13. Unput(h)'
  <2>1. PICK p : p = handle[h].point
    BY Zenon
  <2>2. ASSUME p.landed = "pending"
        PROVE  /\ {"landed", "ref"} \subseteq DOMAIN p /\ Took(h, p.ref)'
               /\ ~old.point => p.ref \notin DOMAIN published'
    <3>1. /\ {"landed", "ref"} \subseteq DOMAIN p /\ Took(h, p.ref)
          /\ ~old.point => p.ref \notin DOMAIN published /\ old.ref # p.ref
      BY <1>1, <1>3, <2>1, <2>2, Zenon DEF IInv, Unput
    <3> QED  BY <1>3, <1>6, <3>1, Zenon
  <2> QED  BY <1>2, <1>5, <2>1, <2>2, Zenon DEF Unput
<1>14. ASSUME NEW g \in Handles \ {h} PROVE Unput(g)'
  <2>1. PICK x : x = handle[g]
    BY Zenon
  <2>2. handle'[g] = x
    BY <1>5, <2>1, Zenon
  <2>3. Unput(g)
    BY Zenon DEF IInv
  <2>4. x.at = "up" /\ Took(g, old.ref) => FALSE
    BY <1>3, <2>1, TookOnce, Zenon
  <2>5. x.at = "up" /\ x.ckpt.step = "commit" => Took(g, x.ckpt.ref)' /\ x.ckpt.ref \notin DOMAIN published'
    BY <1>3, <1>6, <2>1, <2>3, <2>4, Zenon DEF Unput
  <2>6. x.at = "up" /\ x.point.landed = "pending" =>
          /\ Took(g, x.point.ref)'
          /\ x.ckpt.step = "none" \/ ~x.ckpt.point => x.point.ref \notin DOMAIN published'
    BY <1>3, <1>6, <2>1, <2>3, <2>4, Zenon DEF Unput
  <2> QED  BY <2>1, <2>2, <2>3, <2>5, <2>6, Zenon DEF Unput
<1> QED  BY <1>7, <1>9, <1>10, <1>11, <1>12, <1>13, <1>14, Zenon DEF IInv
-----------------------------------------------------------------------------
(* A VM made, and one opened.                                              *)

LEMMA SpendsName ==
    ASSUME IInv, NEW v \in VMs, SpendName(v)
    PROVE  /\ "made" \in DOMAIN bound' /\ bound'.made \in [VMs -> {0, 1}] /\ bound'.made[v] = 0
           /\ \A u \in VMs : bound'.made[u] = 1 => bound.made[u] = 1
           /\ rec[v] = NoRecord /\ \A h \in Handles : ~Of(h, v) /\ \A ref \in DOMAIN published : VmOf(ref) # v
<1> DEFINE made == [bound.made EXCEPT ![v] = @ - 1]
<1>1. "made" \in DOMAIN bound /\ bound.made \in [VMs -> {0, 1}] /\ bound.made[v] > 0
  BY Zenon DEF IInv, Fresh, SpendName
<1>2. bound.made[v] = 1
  BY <1>1
<1>3. bound' = [bound EXCEPT !.made = made]
  BY <1>1, Zenon DEF SpendName
<1>4. made \in [VMs -> {0, 1}] /\ made[v] = 0 /\ \A u \in VMs : made[u] = 1 => bound.made[u] = 1
  BY <1>1, <1>2
<1> HIDE DEF made
<1>5. "made" \in DOMAIN bound' /\ bound'.made = made
  BY <1>1, <1>3, Zenon
<1> QED  BY <1>2, <1>4, <1>5, Zenon DEF IInv, Fresh

\* What a step leaves of the other handles.
LEMMA OtherHandles ==
    ASSUME IInv, NEW h \in Handles, NEW new, handle' = [handle EXCEPT ![h] = new]
    PROVE  /\ DOMAIN handle' = Handles /\ handle'[h] = new
           /\ \A g \in Handles \ {h} : handle'[g] = handle[g] /\ \A v : Of(g, v)' <=> Of(g, v)
BY Zenon DEF IInv, Shapes, Of

LEMMA CreateRootKeeps ==
    ASSUME IInv, NEW h \in Handles, NEW v \in VMs, CreateRoot(h, v)
    PROVE  IInv'
<1>1. PICK epoch \in 1 .. MaximumCreateEpoch :
         /\ published' = Put(<<v, <<epoch, 1>>>>, Root(<<v, <<epoch, 1>>>>))
         /\ handle' = [handle EXCEPT ![h].at = "root", ![h].vm = v, ![h].epoch = epoch, ![h].base = <<v, <<epoch, 1>>>>]
  BY ZenonT(30) DEF CreateRoot
<1>2. handle[h].at = "new" /\ SpendName(v) /\ UNCHANGED <<rec, late>>
  BY Zenon DEF CreateRoot
<1>3. PICK ref : ref = <<v, <<epoch, 1>>>>
  BY ZenonT(30)
<1>4. epoch \in Nat
  OBVIOUS
<1>5. DOMAIN published' = DOMAIN published \cup {ref}
  BY <1>1, <1>3, Zenon DEF Put
<1> DEFINE new == [handle[h] EXCEPT !.at = "root", !.vm = v, !.epoch = epoch, !.base = ref]
<1>6. handle' = [handle EXCEPT ![h] = new]
  BY <1>1, <1>3, ZenonT(30) DEF IInv, Shapes
<1>7. /\ DOMAIN handle[h] = HandleFields /\ handle[h].next \in Nat
      /\ "landed" \in DOMAIN handle[h].point /\ "step" \in DOMAIN handle[h].ckpt
      /\ handle[h].ckpt = NoCkpt /\ handle[h].point = NoPoint
  BY <1>2, Zenon DEF IInv, Shapes, Unput
<1>8. /\ DOMAIN new = HandleFields /\ new.at = "root" /\ new.vm = v /\ new.epoch = epoch /\ new.base = ref
      /\ new.next = handle[h].next /\ new.ckpt = handle[h].ckpt /\ new.point = handle[h].point
  BY <1>7, Zenon DEF HandleFields
<1> HIDE DEF new
<1>9. /\ DOMAIN handle' = Handles /\ handle'[h] = new
      /\ \A g \in Handles \ {h} : handle'[g] = handle[g] /\ \A u : Of(g, u)' <=> Of(g, u)
  BY <1>6, OtherHandles, ZenonT(30)
<1>10. \A u : Of(h, u)' <=> u = v
  BY <1>8, <1>9, Zenon DEF Of
<1>11. Shapes'
  BY <1>2, <1>4, <1>7, <1>8, <1>9, Zenon DEF IInv, Shapes
<1>12. Fresh'
  <2>1. VmOf(ref) = v
    BY <1>3, Zenon DEF VmOf
  <2>2. ASSUME NEW u \in VMs, bound'.made[u] = 1
        PROVE  rec'[u] = NoRecord /\ (\A g \in Handles : ~Of(g, u)') /\ \A r \in DOMAIN published' : VmOf(r) # u
    <3>1. u # v /\ bound.made[u] = 1
      BY <1>2, <2>2, SpendsName
    <3> QED  BY <1>2, <1>5, <1>9, <1>10, <2>1, <3>1, Zenon DEF IInv, Fresh
  <2> QED  BY <1>2, <2>2, SpendsName, Zenon DEF Fresh
<1>13. Epoched'
  <2>0. rec[v] = NoRecord /\ \A g \in Handles : ~Of(g, v)
    BY <1>2, SpendsName, Zenon
  <2>1. ASSUME NEW f \in Handles, NEW g \in Handles, NEW u \in VMs, Of(f, u)', Of(g, u)', f # g
        PROVE  handle'[f].epoch # handle'[g].epoch
    BY <1>9, <1>10, <2>0, <2>1 DEF IInv, Epoched
  <2>2. ASSUME NEW g \in Handles, NEW u \in VMs, Of(g, u)', rec'[u] # NoRecord
        PROVE  handle'[g].epoch <= rec'[u].epoch
    BY <1>2, <1>9, <1>10, <2>0, <2>2, ZenonT(30) DEF IInv, Epoched
  <2>3. ASSUME NEW g \in Handles, handle'[g].at = "root"
        PROVE  /\ rec'[handle'[g].vm] = NoRecord /\ handle'[g].base = <<handle'[g].vm, <<handle'[g].epoch, 1>>>>
               /\ \A f \in Handles \ {g} : handle'[f].at \notin {"root", "taken", "up"} \/ handle'[f].vm # handle'[g].vm
    <3>1. CASE g = h
      BY <1>2, <1>3, <1>8, <1>9, <2>0, <3>1, ZenonT(30) DEF Of
    <3>2. CASE g # h
      <4>1. handle[g].at = "root" /\ handle'[g] = handle[g] /\ handle[g].vm # v
        BY <1>9, <2>0, <2>3, <3>2, Zenon DEF Of
      <4> QED  BY <1>2, <1>8, <1>9, <4>1 DEF IInv, Epoched, Of
    <3> QED  BY <3>1, <3>2, Zenon
  <2> QED  BY <2>1, <2>2, <2>3, Zenon DEF Epoched, Of
<1>14. Past'
  <2>0. rec[v] = NoRecord /\ (\A g \in Handles : ~Of(g, v)) /\ \A r \in DOMAIN published : VmOf(r) # v
    BY <1>2, SpendsName, Zenon
  <2> SUFFICES ASSUME NEW r \in DOMAIN published'
               PROVE  \E u \in VMs, e \in Nat, n \in Nat :
                         /\ r = <<u, <<e, n>>>>
                         /\ rec'[u] # NoRecord => e <= rec'[u].epoch
                         /\ \A g \in Handles : Of(g, u)' /\ handle'[g].at \in {"taken", "up"} /\ handle'[g].epoch = e
                               => n < handle'[g].next
                         /\ \A g \in Handles : Of(g, u)' /\ handle'[g].at = "root" => handle'[g].epoch = e /\ n = 1
    BY Zenon DEF Past
  <2>1. CASE r = ref
    <3>1. rec'[v] = NoRecord /\ \A g \in Handles : Of(g, v)' => handle'[g].at = "root" /\ handle'[g].epoch = epoch
      BY <1>2, <1>8, <1>9, <2>0, Zenon
    <3> QED  BY <1>3, <1>4, <2>1, <3>1, Zenon
  <2>2. CASE r \in DOMAIN published
    <3>1. PICK u \in VMs, e \in Nat, n \in Nat :
             /\ r = <<u, <<e, n>>>>
             /\ rec[u] # NoRecord => e <= rec[u].epoch
             /\ \A g \in Handles : Of(g, u) /\ handle[g].at \in {"taken", "up"} /\ handle[g].epoch = e => n < handle[g].next
             /\ \A g \in Handles : Of(g, u) /\ handle[g].at = "root" => handle[g].epoch = e /\ n = 1
      BY <2>2, Zenon DEF IInv, Past
    <3>2. u # v
      BY <2>0, <2>2, <3>1, Zenon DEF VmOf
    <3>3. ~Of(h, u)'
      BY <1>10, <3>2, Zenon
    <3> QED  BY <1>2, <1>9, <3>1, <3>3
  <2> QED  BY <1>5, <2>1, <2>2, Zenon
<1>15. Late'
  BY <1>2, Zenon DEF IInv, Late
<1>16. ASSUME NEW g \in Handles PROVE Unput(g)'
  <2>1. CASE g = h
    BY <1>7, <1>8, <1>9, <2>1, Zenon DEF Unput
  <2>2. CASE g # h
    <3>1. PICK x : x = handle[g]
      BY Zenon
    <3>2. handle'[g] = x /\ Unput(g)
      BY <1>9, <2>2, <3>1, Zenon DEF IInv
    <3>3. \A r : Took(g, r)' <=> Took(g, r)
      BY <3>1, <3>2, Zenon DEF Took
    <3>4. ASSUME x.at = "up" PROVE ~Took(g, ref)
      <4>1. x.vm # v
        BY <1>2, <3>1, <3>4, SpendsName, Zenon DEF Of
      <4> QED  BY <1>3, <3>1, <4>1, Zenon DEF Took
    <3>5. x.at = "up" /\ x.ckpt.step = "commit" => Took(g, x.ckpt.ref)' /\ x.ckpt.ref \notin DOMAIN published'
      BY <1>5, <3>1, <3>2, <3>3, <3>4, Zenon DEF Unput
    <3>6. x.at = "up" /\ x.point.landed = "pending" =>
            /\ Took(g, x.point.ref)'
            /\ x.ckpt.step = "none" \/ ~x.ckpt.point => x.point.ref \notin DOMAIN published'
      BY <1>5, <3>1, <3>2, <3>3, <3>4, Zenon DEF Unput
    <3> QED  BY <3>1, <3>2, <3>5, <3>6, Zenon DEF Unput
  <2> QED  BY <2>1, <2>2, Zenon
<1> QED  BY <1>11, <1>12, <1>13, <1>14, <1>15, <1>16, Zenon DEF IInv
\* A handle that comes to write for a VM, in an epoch past every other's.
LEMMA WriterKeeps ==
    ASSUME IInv, NEW h \in Handles, NEW v \in VMs, NEW new, NEW r,
           handle' = [handle EXCEPT ![h] = new], rec' = [rec EXCEPT ![v] = r], UNCHANGED <<published, late>>,
           DOMAIN new = HandleFields, new.at \in {"taken", "up"}, new.vm = v, new.epoch \in Nat, new.next \in Nat,
           new.ckpt = NoCkpt, new.point = NoPoint, "epoch" \in DOMAIN r, r.epoch = new.epoch,
           \A g \in Handles \ {h} : Of(g, v) => handle[g].epoch < new.epoch /\ handle[g].at # "root",
           \A e \in Nat, n \in Nat : <<v, <<e, n>>>> \in DOMAIN published =>
               e < new.epoch \/ (e = new.epoch /\ n < new.next),
           "made" \in DOMAIN bound', bound'.made \in [VMs -> {0, 1}], bound'.made[v] = 0,
           \A u \in VMs : bound'.made[u] = 1 => bound.made[u] = 1
    PROVE  IInv'
<1>1. /\ DOMAIN handle' = Handles /\ handle'[h] = new
      /\ \A g \in Handles \ {h} : handle'[g] = handle[g] /\ \A u : Of(g, u)' <=> Of(g, u)
  BY OtherHandles, ZenonT(30)
<1>2. \A u : Of(h, u)' <=> u = v
  BY <1>1, Zenon DEF Of
<1>3. DOMAIN rec' = VMs /\ rec'[v] = r /\ \A u \in VMs \ {v} : rec'[u] = rec[u]
  BY Zenon DEF IInv, Shapes
<1>4. Shapes'
  <2>1. "landed" \in DOMAIN new.point /\ "step" \in DOMAIN new.ckpt
    BY Zenon DEF NoPoint, NoCkpt
  <2> QED  BY <1>1, <1>3, <2>1, Zenon DEF IInv, Shapes
<1>5. Fresh'
  BY <1>1, <1>2, <1>3, SMTT(30) DEF IInv, Fresh
<1>6. Epoched'
  <2>0. ASSUME NEW g \in Handles \ {h}, Of(g, v) PROVE handle[g].epoch \in Nat /\ handle[g].epoch < new.epoch /\ handle[g].at # "root"
    BY <2>0, Zenon DEF IInv, Shapes
  <2>1. ASSUME NEW f \in Handles, NEW g \in Handles, NEW u \in VMs, Of(f, u)', Of(g, u)', f # g
        PROVE  handle'[f].epoch # handle'[g].epoch
    <3>1. CASE f # h /\ g # h
      BY <1>1, <2>1, <3>1, SMTT(30) DEF IInv, Epoched
    <3>2. CASE f = h
      <4>1. u = v /\ g # h /\ handle'[g] = handle[g] /\ Of(g, v)
        BY <1>1, <1>2, <2>1, <3>2, Zenon
      <4> QED  BY <1>1, <2>0, <3>2, <4>1
    <3>3. CASE g = h
      <4>1. u = v /\ f # h /\ handle'[f] = handle[f] /\ Of(f, v)
        BY <1>1, <1>2, <2>1, <3>3, Zenon
      <4> QED  BY <1>1, <2>0, <3>3, <4>1
    <3> QED  BY <3>1, <3>2, <3>3, Zenon
  <2>2. ASSUME NEW g \in Handles, NEW u \in VMs, Of(g, u)', rec'[u] # NoRecord
        PROVE  handle'[g].epoch <= rec'[u].epoch
    <3>1. CASE g = h
      BY <1>1, <1>2, <1>3, <2>2, <3>1
    <3>2. CASE g # h /\ u = v
      <4>1. handle'[g] = handle[g] /\ Of(g, v)
        BY <1>1, <2>2, <3>2, Zenon
      <4> QED  BY <1>3, <2>0, <3>2, <4>1
    <3>3. CASE g # h /\ u # v
      BY <1>1, <1>3, <2>2, <3>3, Zenon DEF IInv, Epoched
    <3> QED  BY <3>1, <3>2, <3>3, Zenon
  <2>3. ASSUME NEW g \in Handles, handle'[g].at = "root"
        PROVE  /\ rec'[handle'[g].vm] = NoRecord /\ handle'[g].base = <<handle'[g].vm, <<handle'[g].epoch, 1>>>>
               /\ \A f \in Handles \ {g} : handle'[f].at \notin {"root", "taken", "up"} \/ handle'[f].vm # handle'[g].vm
    <3>1. g # h /\ handle'[g] = handle[g] /\ handle[g].at = "root"
      BY <1>1, <2>3, Zenon
    <3>2. handle[g].vm # v /\ handle[g].vm \in VMs
      BY <3>1, <2>0, Zenon DEF IInv, Shapes, Of
    <3> QED  BY <1>1, <1>3, <3>1, <3>2, SMTT(30) DEF IInv, Epoched, Of
  <2> QED  BY <2>1, <2>2, <2>3, ZenonT(30) DEF Epoched, Of
<1>7. Past'
  <2> SUFFICES ASSUME NEW ref \in DOMAIN published
               PROVE  \E u \in VMs, e \in Nat, n \in Nat :
                         /\ ref = <<u, <<e, n>>>>
                         /\ rec'[u] # NoRecord => e <= rec'[u].epoch
                         /\ \A g \in Handles : Of(g, u)' /\ handle'[g].at \in {"taken", "up"} /\ handle'[g].epoch = e
                               => n < handle'[g].next
                         /\ \A g \in Handles : Of(g, u)' /\ handle'[g].at = "root" => handle'[g].epoch = e /\ n = 1
    BY Zenon DEF Past
  <2>1. PICK u \in VMs, e \in Nat, n \in Nat :
           /\ ref = <<u, <<e, n>>>>
           /\ rec[u] # NoRecord => e <= rec[u].epoch
           /\ \A g \in Handles : Of(g, u) /\ handle[g].at \in {"taken", "up"} /\ handle[g].epoch = e => n < handle[g].next
           /\ \A g \in Handles : Of(g, u) /\ handle[g].at = "root" => handle[g].epoch = e /\ n = 1
    BY ZenonT(30) DEF IInv, Past
  <2>2. rec'[u] # NoRecord => e <= rec'[u].epoch
    BY <1>3, <2>1
  <2>3. ASSUME NEW g \in Handles, Of(g, u)', handle'[g].at \in {"taken", "up"}, handle'[g].epoch = e PROVE n < handle'[g].next
    <3>1. CASE g = h
      BY <1>1, <1>2, <2>1, <2>3, <3>1, SMTT(30)
    <3>2. CASE g # h
      BY <1>1, <2>1, <2>3, <3>2, Zenon
    <3> QED  BY <3>1, <3>2, Zenon
  <2>4. ASSUME NEW g \in Handles, Of(g, u)', handle'[g].at = "root" PROVE handle'[g].epoch = e /\ n = 1
    BY <1>1, <2>1, <2>4, Zenon
  <2> QED  BY <2>1, <2>2, <2>3, <2>4, SMTT(30)
<1>8. Late'
  BY Zenon DEF IInv, Late
<1>9. ASSUME NEW g \in Handles PROVE Unput(g)'
  <2>1. CASE g = h
    BY <1>1, <2>1, SMTT(30) DEF Unput, NoCkpt, NoPoint
  <2>2. CASE g # h
    BY <1>1, <2>2, ZenonT(30) DEF IInv, Unput, Took
  <2> QED  BY <2>1, <2>2, Zenon
<1> QED  BY <1>4, <1>5, <1>6, <1>7, <1>8, <1>9, Zenon DEF IInv

LEMMA CreateRecordKeeps ==
    ASSUME IInv, NEW h \in Handles, CreateRecord(h)
    PROVE  IInv'
<1> DEFINE v == handle[h].vm
           r == Created(h, SequenceOf(handle[h].base), TRUE)
           new == [handle[h] EXCEPT !.at = "up", !.owned = handle[h].base, !.next = 2]
<1>1. handle[h].at = "root" /\ UNCHANGED <<published, late, bound>>
  BY Zenon DEF CreateRecord
<1>2. /\ v \in VMs /\ rec[v] = NoRecord /\ handle[h].base = <<v, <<handle[h].epoch, 1>>>> /\ Of(h, v)
      /\ \A g \in Handles \ {h} : ~Of(g, v)
  BY <1>1, Zenon DEF IInv, Shapes, Epoched, Of
<1>3. /\ DOMAIN handle[h] = HandleFields /\ handle[h].epoch \in Nat /\ handle[h].ckpt = NoCkpt /\ handle[h].point = NoPoint
  BY <1>1, Zenon DEF IInv, Shapes, Unput
<1>4. rec' = [rec EXCEPT ![v] = r] /\ handle' = [handle EXCEPT ![h] = new]
  BY <1>2, ZenonT(30) DEF CreateRecord, IInv, Shapes
<1>5. /\ DOMAIN new = HandleFields /\ new.at = "up" /\ new.vm = v /\ new.epoch = handle[h].epoch /\ new.next = 2
      /\ new.ckpt = NoCkpt /\ new.point = NoPoint
  BY <1>3, Zenon DEF HandleFields
<1>6. "epoch" \in DOMAIN r /\ r.epoch = new.epoch
  BY <1>2, <1>5 DEF Created, SequenceOf, EpochOf
<1>7. ASSUME NEW e \in Nat, NEW n \in Nat, <<v, <<e, n>>>> \in DOMAIN published
      PROVE  e = new.epoch /\ n < 2
  <2>1. PICK u \in VMs, f \in Nat, m \in Nat :
           /\ <<v, <<e, n>>>> = <<u, <<f, m>>>>
           /\ \A g \in Handles : Of(g, u) /\ handle[g].at = "root" => handle[g].epoch = f /\ m = 1
    BY <1>7 DEF IInv, Past
  <2>2. v = u /\ e = f /\ n = m
    BY <2>1, Zenon
  <2> QED  BY <1>1, <1>2, <1>5, <2>1, <2>2
<1>8. /\ "made" \in DOMAIN bound' /\ bound'.made \in [VMs -> {0, 1}] /\ bound'.made[v] = 0
      /\ \A u \in VMs : bound'.made[u] = 1 => bound.made[u] = 1
  BY <1>1, <1>2, Zenon DEF IInv, Fresh
<1> HIDE DEF v, r, new
<1>9. \A g \in Handles \ {h} : Of(g, v) => handle[g].epoch < new.epoch /\ handle[g].at # "root"
  BY <1>2, Zenon
<1>10. \A e \in Nat, n \in Nat : <<v, <<e, n>>>> \in DOMAIN published => e < new.epoch \/ (e = new.epoch /\ n < new.next)
  BY <1>5, <1>7, Zenon
<1>11. UNCHANGED <<published, late>> /\ v \in VMs
  BY <1>1, <1>2, Zenon
<1>12. /\ DOMAIN new = HandleFields /\ new.at \in {"taken", "up"} /\ new.vm = v /\ new.epoch \in Nat /\ new.next \in Nat
       /\ new.ckpt = NoCkpt /\ new.point = NoPoint
  BY <1>3, <1>5, SMTT(30)
<1> QED  BY <1>4, <1>6, <1>8, <1>9, <1>10, <1>11, <1>12, WriterKeeps, ZenonT(30)

LEMMA OpenKeeps ==
    ASSUME IInv, NEW h \in Handles, NEW v \in VMs, Open(h, v)
    PROVE  IInv'
<1> DEFINE r == Taken(rec[v], h, FALSE)
           new == [handle[h] EXCEPT !.at = "taken", !.vm = v, !.epoch = rec[v].epoch + 1,
                                    !.base = <<v, rec[v].selected>>, !.spared = Protected(rec[v])]
<1>1. handle[h].at = "new" /\ rec[v] # NoRecord /\ UNCHANGED <<published, late, bound>> /\ rec' = [rec EXCEPT ![v] = r]
  BY Zenon DEF Open
<1>2. handle' = [handle EXCEPT ![h] = new]
  BY ZenonT(30) DEF Open, IInv, Shapes
<1>3. /\ DOMAIN handle[h] = HandleFields /\ handle[h].next \in Nat /\ handle[h].ckpt = NoCkpt /\ handle[h].point = NoPoint
      /\ "epoch" \in DOMAIN rec[v] /\ rec[v].epoch \in Nat
  BY <1>1, Zenon DEF IInv, Shapes, Unput
<1>4. /\ DOMAIN new = HandleFields /\ new.at = "taken" /\ new.vm = v /\ new.epoch = rec[v].epoch + 1 /\ new.next = handle[h].next
      /\ new.ckpt = NoCkpt /\ new.point = NoPoint
  BY <1>3, Zenon DEF HandleFields
<1>5. "epoch" \in DOMAIN r /\ r.epoch = new.epoch
  BY <1>3, <1>4, Zenon DEF Taken
<1>6. ASSUME NEW g \in Handles \ {h}, Of(g, v) PROVE handle[g].epoch < new.epoch /\ handle[g].at # "root"
  <2>1. handle[g].epoch \in Nat /\ handle[g].epoch <= rec[v].epoch
    BY <1>1, <1>6, Zenon DEF IInv, Shapes, Epoched
  <2>2. handle[g].at # "root"
    BY <1>1, <1>6, Zenon DEF IInv, Epoched, Of
  <2> QED  BY <1>3, <1>4, <2>1, <2>2, SMTT(30)
<1>7. ASSUME NEW e \in Nat, NEW n \in Nat, <<v, <<e, n>>>> \in DOMAIN published PROVE e < new.epoch
  <2>1. PICK u \in VMs, f \in Nat, m \in Nat :
           <<v, <<e, n>>>> = <<u, <<f, m>>>> /\ (rec[u] # NoRecord => f <= rec[u].epoch)
    BY <1>7, Zenon DEF IInv, Past
  <2>2. v = u /\ e = f
    BY <2>1, Zenon
  <2> QED  BY <1>1, <1>3, <1>4, <2>1, <2>2, SMTT(30)
<1>8. /\ "made" \in DOMAIN bound' /\ bound'.made \in [VMs -> {0, 1}] /\ bound'.made[v] = 0
      /\ \A u \in VMs : bound'.made[u] = 1 => bound.made[u] = 1
  BY <1>1, Zenon DEF IInv, Fresh
<1> HIDE DEF r, new
<1>9. new.epoch \in Nat
  BY <1>3, <1>4, SMTT(30)
<1>10. \A g \in Handles \ {h} : Of(g, v) => handle[g].epoch < new.epoch /\ handle[g].at # "root"
  BY <1>6, ZenonT(30)
<1>11. \A e \in Nat, n \in Nat : <<v, <<e, n>>>> \in DOMAIN published => e < new.epoch \/ (e = new.epoch /\ n < new.next)
  BY <1>7, Zenon
<1>12. UNCHANGED <<published, late>> /\ rec' = [rec EXCEPT ![v] = r]
  BY <1>1, Zenon
<1>13. /\ DOMAIN new = HandleFields /\ new.at \in {"taken", "up"} /\ new.vm = v /\ new.epoch \in Nat /\ new.next \in Nat
       /\ new.ckpt = NoCkpt /\ new.point = NoPoint
  BY <1>3, <1>4, <1>9, Zenon
<1> QED  BY <1>2, <1>5, <1>8, <1>10, <1>11, <1>12, <1>13, WriterKeeps, ZenonT(30)

LEMMA ForkKeeps ==
    ASSUME IInv, NEW h \in Handles, NEW v \in VMs, Fork(h, v)
    PROVE  IInv'
<1>1. PICK epoch \in 1 .. MaximumCreateEpoch, base \in DOMAIN published, from \in Handles \cup {NoRef} :
         /\ handle[h].at \in {"new", "inheriting"}
         /\ rec' = [rec EXCEPT ![v] = Created(h, <<epoch, 1>>, FALSE)]
         /\ handle' = [handle EXCEPT ![h] = Forked(h, v, epoch, base, from)]
  BY ZenonT(30) DEF Fork
<1>2. SpendName(v) /\ UNCHANGED <<published, late>>
  BY Zenon DEF Fork
<1> DEFINE r == Created(h, <<epoch, 1>>, FALSE)
           new == Forked(h, v, epoch, base, from)
<1>3. handle' = [handle EXCEPT ![h] = new] /\ rec' = [rec EXCEPT ![v] = r]
  BY <1>1, Zenon
<1>4. DOMAIN handle[h] = HandleFields /\ handle[h].next \in Nat /\ handle[h].ckpt = NoCkpt /\ handle[h].point = NoPoint
  BY <1>1, Zenon DEF IInv, Shapes, Unput
<1>5. /\ DOMAIN new = HandleFields /\ new.at = "up" /\ new.vm = v /\ new.epoch = epoch /\ new.next = handle[h].next
      /\ new.ckpt = NoCkpt /\ new.point = NoPoint
  BY <1>4, Zenon DEF HandleFields, Forked
<1>6. "epoch" \in DOMAIN r /\ r.epoch = epoch
  BY Zenon DEF Created, EpochOf
<1>7. ASSUME NEW e \in Nat, NEW n \in Nat PROVE <<v, <<e, n>>>> \notin DOMAIN published
  BY <1>2, SpendsName, Zenon DEF VmOf
<1> HIDE DEF r, new
<1>8. /\ "made" \in DOMAIN bound' /\ bound'.made \in [VMs -> {0, 1}] /\ bound'.made[v] = 0
      /\ \A u \in VMs : bound'.made[u] = 1 => bound.made[u] = 1
      /\ \A g \in Handles \ {h} : Of(g, v) => handle[g].epoch < new.epoch /\ handle[g].at # "root"
  BY <1>2, SpendsName, Zenon
<1>9. \A e \in Nat, n \in Nat : <<v, <<e, n>>>> \in DOMAIN published => e < new.epoch \/ (e = new.epoch /\ n < new.next)
  BY <1>7, Zenon
<1>10. epoch \in Nat
  OBVIOUS
<1>11. /\ DOMAIN new = HandleFields /\ new.at \in {"taken", "up"} /\ new.vm = v /\ new.epoch \in Nat /\ new.next \in Nat
       /\ new.ckpt = NoCkpt /\ new.point = NoPoint /\ "epoch" \in DOMAIN r /\ r.epoch = new.epoch
  BY <1>4, <1>5, <1>6, <1>10, Zenon
<1>12. UNCHANGED <<published, late>>
  BY <1>2, Zenon
<1> QED  BY <1>3, <1>8, <1>9, <1>11, <1>12, WriterKeeps, ZenonT(30)

-----------------------------------------------------------------------------
LEMMA InitHolds == Init => IInv
<1> SUFFICES ASSUME Init PROVE IInv
  BY Zenon
<1> USE DEF Init
<1>1. /\ DOMAIN NoHandle = HandleFields /\ NoHandle.at = "new" /\ NoHandle.epoch = 0 /\ NoHandle.next = 1
      /\ NoHandle.ckpt = NoCkpt /\ NoHandle.point = NoPoint
  BY ZenonT(30) DEF NoHandle, HandleFields
<1>2. "landed" \in DOMAIN NoPoint /\ "step" \in DOMAIN NoCkpt
  BY Zenon DEF NoPoint, NoCkpt
<1>3. \A h \in Handles : handle[h] = NoHandle
  BY Zenon
<1>4. Shapes
  BY <1>1, <1>2, <1>3 DEF Shapes
<1>5. DOMAIN published = {}
  OBVIOUS
<1>6. Fresh
  BY <1>1, <1>3, <1>5, BoundsAssumption, Zenon DEF Fresh, Of
<1>7. Epoched /\ Past /\ Late
  BY <1>1, <1>3, <1>5, Zenon DEF Epoched, Past, Late, Of
<1>8. \A h \in Handles : Unput(h)
  BY <1>1, <1>3, Zenon DEF Unput
<1> QED  BY <1>4, <1>6, <1>7, <1>8, Zenon DEF IInv

LEMMA StepKeeps == IInv /\ [Next]_vars => IInv'
<1> SUFFICES ASSUME IInv, [Next]_vars PROVE IInv'
  BY Zenon
<1>1. ASSUME NEW h \in Handles, HandleNext(h) PROVE IInv'
  <2>1. ASSUME NEW v \in VMs, CreateRoot(h, v) \/ Open(h, v) \/ Inherit(h, v) \/ Fork(h, v) PROVE IInv'
    BY <2>1, CreateRootKeeps, OpenKeeps, OthersKeep, ForkKeeps, Zenon
  <2>2. CASE CreateRecord(h) \/ OpenIndex(h) \/ Capture(h) \/ Commit(h) \/ Select(h)
    BY <2>2, CreateRecordKeeps, OpenIndexKeeps, CaptureKeeps, CommitKeeps, SelectKeeps, Zenon
  <2>3. CASE SelectLost(h) \/ Deliver(h) \/ Abandon(h) \/ ForkPoint(h) \/ PublishPoint(h)
    BY <2>3, LateKeeps, AbandonKeeps, ForkPointKeeps, PublishPointKeeps, Zenon
  <2>4. CASE PinPoint(h) \/ RetirePoint(h) \/ Close(h) \/ Crash(h)
    BY <2>4, PinPointKeeps, RetirePointKeeps, CloseKeeps, CrashKeeps, Zenon
  <2> QED  BY <1>1, <2>1, <2>2, <2>3, <2>4, Zenon DEF HandleNext
<1>2. CASE \E v \in VMs : Release(v) \/ Delete(v)
  BY <1>2, OthersKeep, Zenon
<1>3. CASE \E s \in sweeps : SweepNext(s)
  BY <1>3, OthersKeep, Zenon
<1>4. CASE UNCHANGED vars
  <2>1. UNCHANGED <<rec, published, handle, late, bound>>
    BY <1>4, Zenon DEF vars
  <2>2. DOMAIN handle' = Handles /\ \A g \in Handles : Steady(g)
    BY <2>1, SameSteady, Zenon DEF IInv, Shapes
  <2> QED  BY <2>1, <2>2, SameRest, CalmKeeps, Zenon
<1> QED  BY <1>1, <1>2, <1>3, <1>4, Zenon DEF Next

\* An index object once put is never put again with another content, whichever
\* publications fail, are retried or are taken over, for any number of VMs,
\* handles, pages and checkpoints (captureLocked takes a sequence and release
\* burns it; sequences are epoch-major).
THEOREM ContentsStay == Spec => OneContentPerReference
<1> DEFINE Keeps == \A ref \in DOMAIN published : published'[ref] = published[ref]
<1>1. Init => IInv
  BY InitHolds, Zenon
<1>2. IInv /\ [Next]_vars => IInv'
  BY StepKeeps, Zenon
<1>3. ASSUME IInv, [Next]_vars PROVE [Keeps]_published
  <2>1. ASSUME NEW h \in Handles, Commit(h) PROVE Keeps
    BY <1>3, <2>1, CommitIs, ZenonT(30)
  <2>2. ASSUME NEW h \in Handles, NEW v \in VMs, CreateRoot(h, v) PROVE Keeps
    <3>1. PICK epoch \in 1 .. MaximumCreateEpoch : published' = Put(<<v, <<epoch, 1>>>>, Root(<<v, <<epoch, 1>>>>))
      BY <2>2, Zenon DEF CreateRoot
    <3>2. <<v, <<epoch, 1>>>> \notin DOMAIN published
      BY <1>3, <2>2, SpendsName, Zenon DEF CreateRoot, VmOf
    <3> QED  BY <3>1, <3>2, Zenon DEF Put
  <2>3. ASSUME NEW h \in Handles, HandleNext(h), ~Commit(h), \A v \in VMs : ~CreateRoot(h, v) PROVE UNCHANGED published
    BY <2>3, ZenonT(30) DEF HandleNext, Open, Inherit, Fork, CreateRecord, OpenIndex, Capture, Select, SelectLost, Deliver, Abandon,
                ForkPoint, PublishPoint, PinPoint, RetirePoint, Close, Crash
  <2>4. ASSUME \/ \E v \in VMs : Release(v) \/ Delete(v)
               \/ \E s \in sweeps : SweepNext(s)
               \/ UNCHANGED vars
        PROVE  UNCHANGED published
    BY <2>4, ZenonT(30) DEF Release, Delete, SweepNext, Plan, SweepStops, DeleteCheckpoint, vars
  <2> HIDE DEF Keeps
  <2> QED  BY <1>3, <2>1, <2>2, <2>3, <2>4, Zenon DEF Next
<1> QED  BY <1>1, <1>2, <1>3, PTL DEF Spec, OneContentPerReference
=============================================================================
