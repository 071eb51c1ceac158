---------------------------- MODULE Checkpoints -----------------------------
(***************************************************************************)
(* Checkpoints as checkpoint/ publishes and reclaims them: what an index   *)
(* names, the index a publication makes of its parent's, and what a sweep  *)
(* deletes.                                                                *)
(*                                                                         *)
(* A checkpoint is two kinds of object under one reference: parts, which   *)
(* hold its members (pages and the VMM state), and the index object, which *)
(* holds its root and the page tables of the segments it rewrote. A page's *)
(* location is the checkpoint whose parts hold it. Encoded lengths are not *)
(* told apart, so any proper part of a checkpoint's members may be less    *)
(* than half of its bytes.                                                 *)
(***************************************************************************)
EXTENDS Records

CONSTANTS
    VMs,        \* VM identities
    Pages,      \* pages of a VM's volumes
    Segments,   \* segments of its page tables
    SegmentOf,  \* [Pages -> Segments], Geometry.SegmentOf
    State,      \* the member that is the VMM state
    NoRef       \* a hole: a page that reads as zeroes, no state

ASSUME SegmentOfAssumption == SegmentOf \in [Pages -> Segments]

Refs == VMs \X Sequences
VmOf(ref) == ref[1]
SequenceOf(ref) == ref[2]

ASSUME NoRefAssumption == NoRef \notin Refs /\ State \notin Pages

Locations == Refs \cup {NoRef}

\* at is where a page or the state is, tables the checkpoint whose index object
\* holds a segment's page table; drained are the checkpoints this one's own
\* compaction emptied, and emptied every named one some compaction did.
Index ==
    [ref: Refs, at: [Pages \cup {State} -> Locations], tables: [Segments -> Locations],
     drained: SUBSET Refs, emptied: SUBSET Refs]

\* Store.Root: every volume absent, so every page a hole.
Root(ref) ==
    [ref |-> ref, at |-> [m \in Pages \cup {State} |-> NoRef],
     tables |-> [s \in Segments |-> NoRef], drained |-> {}, emptied |-> {}]

-----------------------------------------------------------------------------
(* What an index reads and names.                                          *)

\* The members a publication wrote into its own parts.
Members(i) == {m \in Pages \cup {State} : i.at[m] = i.ref}

\* The members of a checkpoint that an index still reads (liveBytes).
Live(i, ref) == {m \in Pages \cup {State} : i.at[m] = ref}

ReadCheckpoints(i) ==
    {i.ref} \cup ({i.at[m] : m \in Pages \cup {State}} \ {NoRef})
            \cup ({i.tables[s] : s \in Segments} \ {NoRef})

\* retainReferencedCheckpoints leaves the entries this index reads and the ones
\* its own compaction emptied.
Named(i) == ReadCheckpoints(i) \cup i.drained

\* protectedBy: a protected checkpoint and everything its index names.
ProtectedBy(i) == {i.ref} \cup Named(i)

-----------------------------------------------------------------------------
(* Publication.Commit over a parent index.                                 *)

\* writeState and writeEdits: the state written or dropped, else inherited;
\* a page of zeroes leaves the index.
Edited(parent, ref, written, zeroed) ==
    [m \in Pages \cup {State} |->
        IF m \in zeroed THEN NoRef ELSE IF m \in written THEN ref ELSE parent.at[m]]

\* The checkpoints compact may rewrite: this VM's, not protected, not emptied
\* before, and with some of their members dead and some live. wrote gives the
\* members a checkpoint was published with.
Eligible(i, protected, wrote) ==
    {ref \in ReadCheckpoints(i) :
        /\ VmOf(ref) = VmOf(i.ref) /\ ref # i.ref
        /\ ref \notin protected /\ ref \notin i.emptied
        /\ Live(i, ref) # {} /\ Live(i, ref) # wrote[ref]}

\* A segment is written again when a page of it was: one left with no pages
\* loses its table.
Rewritten(tables, at, ref, touched) ==
    [s \in Segments |->
        LET held == {p \in Pages : SegmentOf[p] = s}
        IN  IF held \cap touched = {} THEN tables[s]
            ELSE IF \A p \in held : at[p] = NoRef THEN NoRef ELSE ref]

\* The index before compaction; a page zeroed that was a hole touches nothing.
EditedIndex(parent, ref, written, zeroed) ==
    LET at == Edited(parent, ref, written, zeroed)
        touched == (written \ zeroed) \cup {m \in zeroed : parent.at[m] # NoRef}
    IN  [ref |-> ref, at |-> at,
         tables |-> Rewritten(parent.tables, at, ref, touched),
         drained |-> {}, emptied |-> parent.emptied]

\* Mutant: the checkpoints a compaction empties are forgotten at once.
CompactedNoGrace(i, rewriting) ==
    LET moving == {m \in Pages \cup {State} : i.at[m] \in rewriting}
        at == [m \in Pages \cup {State} |-> IF m \in moving THEN i.ref ELSE i.at[m]]
    IN  [ref |-> i.ref, at |-> at, tables |-> Rewritten(i.tables, at, i.ref, moving),
         drained |-> {}, emptied |-> {}]

\* compact moves every live member of the checkpoints it rewrites into this
\* one's parts; retainReferencedCheckpoints then drops what nothing reads.
Compacted(i, rewriting) ==
    LET moving == {m \in Pages \cup {State} : i.at[m] \in rewriting}
        at == [m \in Pages \cup {State} |-> IF m \in moving THEN i.ref ELSE i.at[m]]
        made == [ref |-> i.ref, at |-> at,
                 tables |-> Rewritten(i.tables, at, i.ref, moving),
                 drained |-> rewriting, emptied |-> i.emptied \cup rewriting]
    IN  [made EXCEPT !.emptied = @ \cap Named(made)]

-----------------------------------------------------------------------------
(* What a sweep deletes.                                                   *)

\* Mutant: what the previous compaction emptied is never let go.
DeadKeepingDrained(previous, current, spared) ==
    {ref \in ReadCheckpoints(previous) :
        /\ VmOf(ref) = VmOf(previous.ref)
        /\ ref \notin Named(current) /\ ref \notin spared}

\* Reclaim: what previous named, less what current names and what is spared,
\* and only this VM's own.
Dead(previous, current, spared) ==
    {ref \in {previous.ref} \cup Named(previous) :
        /\ VmOf(ref) = VmOf(previous.ref)
        /\ ref \notin Named(current) /\ ref \notin spared}
=============================================================================
