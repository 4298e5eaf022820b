--------------------------------- MODULE GC ---------------------------------
(***************************************************************************)
(* The heap of the Dis machine: reference counts (interp/heap.c), the      *)
(* incremental mark and sweep collector that finds the cycles they leave   *)
(* (interp/gc.c), and the instructions that move pointers                  *)
(* (interp/xec.c).                                                         *)
(*                                                                         *)
(* The heap is a row of Cells in address order; rungc walks it a Quanta of *)
(* blocks at a time between the instructions of the progs.  A block is     *)
(* marked by giving it the colour propagator, scanned by giving it the     *)
(* colour of the epoch, mutator, and freed when it is found with the       *)
(* colour of two epochs ago, sweeper.  An epoch ends after a pass over the *)
(* whole heap in which nothing was marked.                                 *)
(*                                                                         *)
(* A pointer lives in a Loc: a slot, which is a pointer in a frame or the  *)
(* pointer of a module to its data, or a field of a block.  A block has    *)
(* two pointer fields: "data" is the element of an array, the head of a    *)
(* list or a field of an adt, "link" the root of a slice, the tail of a    *)
(* list or another field of an adt; the data of a module is an adt.        *)
(***************************************************************************)
EXTENDS Integers, FiniteSets

CONSTANTS
  N,            \* number of blocks in the arena
  Slot,         \* the pointer slots of the frames of all progs, and Module.mp
  NoBlock,      \* H, the nil pointer
  MaxRef,       \* bound: a count goes no higher (see Below)
  Quanta,       \* blocks looked at in one call of rungc
  SliceInHeap   \* programs assign a slice of a variable to the variable
                \* itself where that is a global or a field

ASSUME SizesAssumption == /\ N \in Nat \ {0}
                          /\ Quanta \in Nat \ {0}
                          /\ MaxRef \in Nat \ {0}
ASSUME SlotsAssumption == /\ IsFiniteSet(Slot)
                          /\ Slot \cap ((1..N) \X {"data", "link"}) = {}
                          /\ NoBlock \notin 1..N
ASSUME SliceAssumption == SliceInHeap \in BOOLEAN

Cell  == 1..N
Field == {"data", "link"}
Kind  == {"adt", "list", "array"}
Loc   == Slot \cup (Cell \X Field)

propagator == 3

VARIABLES
  status,   \* of a block: "free", "used", or "dying" while destroy is at it
  kind,     \* of a block: its Type
  color,    \* Heap.color
  ref,      \* Heap.ref
  val,      \* the pointer in each location
  mutator,  \* colour of blocks that have been scanned in this epoch
  nprop,    \* something has been marked in this pass
  ptr,      \* next block to look at, 0 for none (base == nil)
  prev,     \* block before ptr in this call of rungc, 0 for none
  visit     \* blocks rungc may still look at, 0 when it is not running

vars == <<status, kind, color, ref, val, mutator, nprop, ptr, prev, visit>>

\* The colours of the last epoch and of the one before; gccolor itself
\* only counts, so the model keeps it modulo 3.
marker  == (mutator + 2) % 3
sweeper == (mutator + 1) % 3

Used(c) == status[c] = "used"

Init ==
  /\ status  = [c \in Cell |-> "free"]
  /\ kind    = [c \in Cell |-> "adt"]
  /\ color   = [c \in Cell |-> 0]
  /\ ref     = [c \in Cell |-> 0]
  /\ val     = [l \in Loc |-> NoBlock]
  /\ mutator = 0
  /\ nprop   = FALSE
  /\ ptr     = 0
  /\ prev    = 0
  /\ visit   = 0

----------------------------------------------------------------------------
(* Instructions.  They run to their end between two calls of rungc.        *)

\* The interpreter executes an instruction: no rungc, no destroy under way.
Running == visit = 0 /\ \A c \in Cell : status[c] # "dying"

\* Where the elements of an array are: a slice has those of its root.
Elements(c) == <<IF kind[c] = "array" /\ val[<<c, "link">>] # NoBlock
                   THEN val[<<c, "link">>] ELSE c, "data">>

\* What an operand can address: a slot, or a field of a block that one
\* points to.
Held    == {val[l] : l \in Slot} \ {NoBlock}
Operand == Slot \cup {Elements(c) : c \in Held}
                  \cup {<<c, "link">> : c \in {x \in Held : kind[x] # "array"}}
\* Lists do not change once they are made.
Assignable == Operand \ {<<c, f>> : c \in {x \in Cell : kind[x] = "list"}, f \in Field}

\* Setmark(h), for every h in B.
Marked(B, col)    == [c \in Cell |-> IF c \in B /\ col[c] # mutator THEN propagator
                                                                     ELSE col[c]]
SetsNprop(B, col) == \E c \in B \cap Cell : col[c] # mutator

\* destroy(v) as far as the count of v goes; the pointers in a block whose
\* count falls to zero are destroyed by FreePtr and FreeBlock.
Dropped(v, r)    == IF v = NoBlock THEN r ELSE [r EXCEPT ![v] = @ - 1]
Killed(v, r, st) == IF v # NoBlock /\ r[v] = 1 THEN [st EXCEPT ![v] = "dying"] ELSE st
\* The counts of blocks to which swept blocks pointed stay too high, so
\* nothing bounds them but this.
Below(v) == v # NoBlock => ref[v] < MaxRef
Taken(v, r)      == IF v = NoBlock THEN r ELSE [r EXCEPT ![v] = @ + 1]

\* heap(), nheap(): any free block may be the best fit, and it starts as if
\* it had been scanned.
Alloc(c, k) ==
  /\ status[c] = "free"
  /\ kind' = [kind EXCEPT ![c] = k]

\* poolfree(): what was in the block is not looked at again.
Forget(c) ==
  /\ status' = [status EXCEPT ![c] = "free"]
  /\ kind'   = [kind EXCEPT ![c] = "adt"]
  /\ color'  = [color EXCEPT ![c] = 0]
  /\ ref'    = [ref EXCEPT ![c] = 0]

\* new, newa: a block with nil pointers replaces what d held.
New(d, k, c) ==
  /\ Running
  /\ Alloc(c, k)
  /\ status' = Killed(val[d], ref, [status EXCEPT ![c] = "used"])
  /\ color'  = [color EXCEPT ![c] = mutator]
  /\ ref'    = Dropped(val[d], [ref EXCEPT ![c] = 1])
  /\ val'    = [val EXCEPT ![d] = c]
  /\ UNCHANGED <<mutator, nprop, ptr, prev, visit>>

(* Mutant: the count of the root is not raised. *)
SliceOfSliceUncounted(d, c) ==
  /\ Running
  /\ val[d] # NoBlock /\ kind[val[d]] = "array" /\ val[<<val[d], "link">>] # NoBlock
  /\ LET root == val[<<val[d], "link">>] IN
       /\ Alloc(c, "array")
       /\ color'  = Marked({root}, [color EXCEPT ![c] = mutator])
       /\ nprop'  = (nprop \/ SetsNprop({root}, color))
       /\ status' = Killed(val[d], ref, [status EXCEPT ![c] = "used"])
       /\ ref'    = Dropped(val[d], [ref EXCEPT ![c] = 1])
       /\ val'    = [val EXCEPT ![d] = c, ![<<c, "link">>] = root]
  /\ UNCHANGED <<mutator, ptr, prev, visit>>

(* Mutant: the pointer that is stored is not marked. *)
MovpUnmarked(d, v) ==
  /\ Running /\ Below(v)
  /\ status' = Killed(val[d], Taken(v, ref), status)
  /\ ref'    = Dropped(val[d], Taken(v, ref))
  /\ val'    = [val EXCEPT ![d] = v]
  /\ UNCHANGED <<kind, color, mutator, nprop, ptr, prev, visit>>

\* movp, and with it headp, tail, a send or a receive of a pointer and the
\* assignment of nil: v is counted and marked before the old value goes.
Movp(d, v) ==
  /\ Running /\ Below(v)
  /\ color'  = Marked({v}, color)
  /\ nprop'  = (nprop \/ SetsNprop({v}, color))
  /\ status' = Killed(val[d], Taken(v, ref), status)
  /\ ref'    = Dropped(val[d], Taken(v, ref))
  /\ val'    = [val EXCEPT ![d] = v]
  /\ UNCHANGED <<kind, mutator, ptr, prev, visit>>

\* consp: the list in d becomes the tail of a new block, its count moving
\* from d to the link.
Consp(d, v, c) ==
  /\ Running /\ Below(v)
  /\ val[d] # NoBlock => kind[val[d]] = "list"
  /\ Alloc(c, "list")
  /\ status' = [status EXCEPT ![c] = "used"]
  /\ color'  = Marked({val[d], v}, [color EXCEPT ![c] = mutator])
  /\ nprop'  = (nprop \/ SetsNprop({val[d], v}, color))
  /\ ref'    = Taken(v, [ref EXCEPT ![c] = 1])
  /\ val'    = [val EXCEPT ![d] = c, ![<<c, "data">>] = v, ![<<c, "link">>] = val[d]]
  /\ UNCHANGED <<mutator, ptr, prev, visit>>

\* slicea on a slice: the new block shares its root.
SliceOfSlice(d, c) ==
  /\ Running
  /\ val[d] # NoBlock /\ kind[val[d]] = "array" /\ val[<<val[d], "link">>] # NoBlock
  /\ LET root == val[<<val[d], "link">>] IN
       /\ Below(root)
       /\ Alloc(c, "array")
       /\ color'  = Marked({root}, [color EXCEPT ![c] = mutator])
       /\ nprop'  = (nprop \/ SetsNprop({root}, color))
       /\ status' = Killed(val[d], Taken(root, ref), [status EXCEPT ![c] = "used"])
       /\ ref'    = Dropped(val[d], Taken(root, [ref EXCEPT ![c] = 1]))
       /\ val'    = [val EXCEPT ![d] = c, ![<<c, "link">>] = root]
  /\ UNCHANGED <<mutator, ptr, prev, visit>>

\* slicea on a whole array: the new block takes over the pointer to the
\* array from d, which is not marked.
SliceOfArray(d, c) ==
  /\ Running
  /\ d \notin Slot => SliceInHeap
  /\ val[d] # NoBlock /\ kind[val[d]] = "array" /\ val[<<val[d], "link">>] = NoBlock
  /\ Alloc(c, "array")
  /\ color'  = [color EXCEPT ![c] = mutator]
  /\ status' = [status EXCEPT ![c] = "used"]
  /\ ref'    = [ref EXCEPT ![c] = 1]
  /\ val'    = [val EXCEPT ![d] = c, ![<<c, "link">>] = val[d]]
  /\ UNCHANGED <<mutator, nprop, ptr, prev, visit>>

\* freeptrs on a block whose count has fallen to zero: one pointer of it.
FreePtr(c, f) ==
  /\ status[c] = "dying"
  /\ val[<<c, f>>] # NoBlock
  /\ status' = Killed(val[<<c, f>>], ref, status)
  /\ ref'    = Dropped(val[<<c, f>>], ref)
  /\ val'    = [val EXCEPT ![<<c, f>>] = NoBlock]
  /\ UNCHANGED <<kind, color, mutator, nprop, ptr, prev, visit>>

\* poolfree, when its pointers are gone.
FreeBlock(c) ==
  /\ status[c] = "dying"
  /\ \A f \in Field : val[<<c, f>>] = NoBlock
  /\ Forget(c)
  /\ UNCHANGED <<val, mutator, nprop, ptr, prev, visit>>

Instruction ==
  \/ \E d \in Assignable :
       \/ \E k \in {"adt", "array"}, c \in Cell : New(d, k, c)
       \/ \E v \in {val[l] : l \in Operand} \cup {NoBlock} :
            \/ Movp(d, v)
            \/ \E c \in Cell : Consp(d, v, c)
       \/ \E c \in Cell : SliceOfSlice(d, c) \/ SliceOfArray(d, c)

Destroy == \E c \in Cell : FreeBlock(c) \/ \E f \in Field : FreePtr(c, f)

----------------------------------------------------------------------------
(* rungc, block by block.                                                  *)

\* A call of rungc begins: at the start of the heap, or where the last one
\* stopped.
Rungc ==
  /\ Running
  /\ visit' = Quanta
  /\ ptr'   = IF ptr = 0 THEN 1 ELSE ptr
  /\ prev'  = 0
  /\ UNCHANGED <<status, kind, color, ref, val, mutator, nprop>>

\* The block it stopped at has been freed meanwhile and joined to the one
\* before it: its header is gone and the pass starts again.
ChainBroken ==
  /\ Running
  /\ ptr > 1
  /\ status[ptr] = "free" /\ status[ptr - 1] = "free"
  /\ ptr' = 0
  /\ UNCHANGED <<status, kind, color, ref, val, mutator, nprop, prev, visit>>

\* rootset: what the frames and the module list point to.
Roots == Held

(* Mutant: the limit of the arena is looked at one block too late. *)
AdvancePast(v, col, np) ==
  /\ ptr'   = ptr + 1
  /\ visit' = IF v > 0 THEN v ELSE 0
  /\ prev'  = IF v > 0 THEN ptr ELSE 0
  /\ color' = col
  /\ nprop' = np
  /\ UNCHANGED mutator

(* Mutant: the epoch ends with the first pass, whatever was marked in it. *)
AdvanceEager(v, col, np) ==
  IF ptr < N
    THEN /\ ptr'   = ptr + 1
         /\ visit' = IF v > 0 THEN v ELSE 0
         /\ prev'  = IF v > 0 THEN ptr ELSE 0
         /\ color' = col
         /\ nprop' = np
         /\ UNCHANGED mutator
    ELSE /\ ptr' = 0 /\ visit' = 0 /\ prev' = 0
         /\ mutator' = (mutator + 1) % 3
         /\ color'   = [c \in Cell |-> IF c \in Roots /\ col[c] # (mutator + 1) % 3
                                         THEN propagator ELSE col[c]]
         /\ nprop'   = (\E c \in Roots : col[c] # (mutator + 1) % 3)

\* To the next block, v more to go, given the colours and the nprop that
\* the visit leaves.  After the last block the pass is over; if nothing
\* was marked in it the epoch is too, and the roots are marked for the next.
Advance(v, col, np) ==
  IF ptr < N
    THEN /\ ptr'   = ptr + 1
         /\ visit' = IF v > 0 THEN v ELSE 0
         /\ prev'  = IF v > 0 THEN ptr ELSE 0
         /\ color' = col
         /\ nprop' = np
         /\ UNCHANGED mutator
    ELSE /\ ptr' = 0 /\ visit' = 0 /\ prev' = 0
         /\ IF np
              THEN color' = col /\ nprop' = FALSE /\ UNCHANGED mutator
              ELSE /\ mutator' = (mutator + 1) % 3
                   /\ color'   = [c \in Cell |-> IF c \in Roots /\ col[c] # (mutator + 1) % 3
                                                   THEN propagator ELSE col[c]]
                   /\ nprop'   = (\E c \in Roots : col[c] # (mutator + 1) % 3)

\* A free block, or one with nothing to be done.
Pass ==
  /\ visit > 0
  /\ Used(ptr) => color[ptr] \notin {propagator, sweeper}
  /\ Advance(visit - 1, color, nprop)
  /\ UNCHANGED <<status, kind, ref, val>>

\* What the mark function of an adt (markheap) or an array (markarray) marks.
Children(c) == IF kind[c] = "array" THEN {val[<<c, "link">>], val[Elements(c)]}
                                    ELSE {val[<<c, f>>] : f \in Field}

\* A block to be scanned that is no list.
Scan ==
  /\ visit > 0
  /\ Used(ptr) /\ color[ptr] = propagator /\ kind[ptr] # "list"
  /\ LET col == [color EXCEPT ![ptr] = mutator] IN
       Advance(visit - 1, Marked(Children(ptr), col),
               nprop \/ SetsNprop(Children(ptr), col))
  /\ UNCHANGED <<status, kind, ref, val>>

\* The list that starts with block c, of which there is one: entry i is the
\* i-th tail.
Tails(c) == {t \in [0..Quanta + 1 -> Cell \cup {NoBlock}] :
               /\ t[0] = c
               /\ \A i \in 0..Quanta :
                    t[i + 1] = IF t[i] = NoBlock THEN NoBlock ELSE val[<<t[i], "link">>]}

\* marklist: as many tails as rungc has blocks left are marked with their
\* heads; the tail after those is marked whatever its colour.
ScanList ==
  /\ visit > 0
  /\ Used(ptr) /\ color[ptr] = propagator /\ kind[ptr] = "list"
  /\ \E t \in Tails(ptr) :
       LET near  == {t[i] : i \in 0..visit} \ {NoBlock}
           heads == {val[<<c, "data">>] : c \in near}
           far   == {t[visit + 1]} \ {NoBlock}
           col   == [color EXCEPT ![ptr] = mutator]
           marks == heads \cup (near \ {ptr})
           col2  == Marked(marks, col)
       IN  Advance(visit - Cardinality(near),
                   [c \in Cell |-> IF c \in far THEN propagator ELSE col2[c]],
                   nprop \/ SetsNprop(marks, col) \/ far # {})
  /\ UNCHANGED <<status, kind, ref, val>>

\* A block of the colour of two epochs ago goes; its pointers are cleared,
\* not destroyed (initmem).  The walk goes back to the block before it, or,
\* if that was in an earlier call, to the start of the heap.
Sweep ==
  /\ visit > 0
  /\ Used(ptr) /\ color[ptr] = sweeper
  /\ Forget(ptr)
  /\ val'    = [l \in Loc |-> IF l \in {ptr} \X Field THEN NoBlock ELSE val[l]]
  /\ ptr'    = prev
  /\ visit'  = IF prev = 0 THEN 0 ELSE visit - 1
  /\ prev'   = IF prev = 0 \/ visit = 1 THEN 0 ELSE prev
  /\ UNCHANGED <<mutator, nprop>>

Collect == Rungc \/ ChainBroken \/ Pass \/ Scan \/ ScanList \/ Sweep

Next == Instruction \/ Destroy \/ Collect

Spec == Init /\ [][Next]_vars

----------------------------------------------------------------------------
(* Properties.                                                             *)

TypeOK ==
  /\ status \in [Cell -> {"free", "used", "dying"}]
  /\ kind \in [Cell -> Kind]
  /\ color \in [Cell -> 0..3]
  /\ ref \in [Cell -> Nat]
  /\ val \in [Loc -> Cell \cup {NoBlock}]
  /\ mutator \in 0..2
  /\ nprop \in BOOLEAN
  /\ ptr \in 0..N /\ prev \in 0..N /\ visit \in 0..Quanta

\* What the program can get at from its frames and its module data.
ClosedSet(S) ==
  /\ Roots \subseteq S
  /\ \A c \in S, f \in Field : val[<<c, f>>] # NoBlock => val[<<c, f>>] \in S
Reachable == {c \in Cell : \A S \in SUBSET Cell : ClosedSet(S) => c \in S}

\* A block that the program can get at is neither freed nor being freed,
\* whether by destroy, because its count fell to zero, or by the sweep of
\* rungc, because the marking missed it.
ReachableUsed == \A c \in Reachable : Used(c)

\* The count of a block never falls short of the pointers to it that will
\* still be destroyed, those in slots and in blocks that the program can
\* get at or that destroy is taking apart; the sweep clears the pointers of
\* a block without counting them down, so it may exceed them.
Counted == Slot \cup ((Reachable \cup {c \in Cell : status[c] = "dying"}) \X Field)
CountCovers ==
  \A c \in Reachable : Cardinality({l \in Counted : val[l] = c}) =< ref[c]

\* An epoch ends only when the marking and the sweeping are complete:
\* nothing is left that was marked and not scanned, or that was to be swept
\* and would now, since the colours are used again, pass for scanned; and
\* nothing the program can get at is to be swept in the next epoch.
EpochClean ==
  [][mutator' # mutator =>
       \A c \in Cell : Used(c)' =>
          /\ color'[c] # mutator'
          /\ color'[c] = propagator => c \in Roots'
          /\ color'[c] = sweeper' => c \notin Reachable']_vars
----------------------------------------------------------------------------
(* The inductive invariant.                                                *)

Dying == {c \in Cell : status[c] = "dying"}

\* What can be got at from the slots and from the blocks in D when the
\* locations hold v.
ClosedFrom(v, D, S) ==
  /\ \A l \in Slot : v[l] # NoBlock => v[l] \in S
  /\ \A c \in S \cup D, f \in Field : v[<<c, f>>] # NoBlock => v[<<c, f>>] \in S
From(v, D)        == {c \in Cell : \A S \in SUBSET Cell : ClosedFrom(v, D, S) => c \in S}
Counting(v, D)    == Slot \cup ((From(v, D) \cup D) \X Field)
Pointing(v, D, c) == {l \in Counting(v, D) : v[l] = c}

\* What the program can get at or destroy is yet to count down, and the
\* pointers that are counted: those of garbage are not.
Live        == From(val, Dying)
Pointers(c) == Pointing(val, Dying, c)

CountInv ==
  /\ \A c \in Live : Used(c)
  /\ \A c \in Live \cup Dying : Cardinality(Pointers(c)) =< ref[c]
  /\ \A c \in Dying : ref[c] = 0

\* A slice has no elements of its own, and its root is a whole array.
SliceInv ==
  \A c \in Live : kind[c] = "array" /\ val[<<c, "link">>] # NoBlock =>
    /\ val[<<c, "data">>] = NoBlock
    /\ LET root == val[<<c, "link">>] IN
         kind[root] = "array" /\ val[<<root, "link">>] = NoBlock

\* Marked or scanned in this epoch.
Seen(c) == color[c] \in {mutator, propagator}

\* What a slot or a scanned block points to has been seen.
ColorInv ==
  /\ \A c \in Roots : Seen(c)
  /\ \A c \in Live :
       /\ color[c] # sweeper
       /\ color[c] = mutator =>
            \A f \in Field : val[<<c, f>>] # NoBlock => Seen(val[<<c, f>>])

\* What this pass has left behind.
PassInv ==
  \A c \in Cell : Used(c) /\ c < ptr =>
    /\ color[c] # sweeper
    /\ color[c] = propagator => nprop

WalkInv ==
  /\ prev =< ptr
  /\ visit > 0 => ptr > 0 /\ Dying = {}
  /\ visit = 0 => prev = 0
  /\ \A c \in Cell, f \in Field : status[c] = "free" => val[<<c, f>>] = NoBlock

IndInv == TypeOK /\ CountInv /\ SliceInv /\ ColorInv /\ PassInv /\ WalkInv
=============================================================================
