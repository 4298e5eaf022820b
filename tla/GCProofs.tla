------------------------------ MODULE GCProofs ------------------------------
(***************************************************************************)
(* Proofs about GC, for any heap, slots and quantum, as long as a program  *)
(* does not slice a variable outside a frame into itself (SliceInHeap):    *)
(* nothing is freed that the program can get at, whether counts fall to    *)
(* zero or the marking misses it.                                          *)
(***************************************************************************)
EXTENDS GC, FiniteSetTheorems, TLAPS

LEMMA Sizes ==
  /\ NoBlock \notin Cell
  /\ IsFiniteSet(Loc)
  /\ \A l \in Slot : l \notin Cell \X Field
<1>1. IsFiniteSet(Cell)
  BY SizesAssumption, FS_Interval DEF Cell
<1>3. IsFiniteSet({"data"} \cup {"link"})
  BY FS_Singleton, FS_AddElement
<1>4. Field = {"data"} \cup {"link"}
  BY DEF Field
<1>2. IsFiniteSet(Loc)
  BY <1>1, <1>3, <1>4, SlotsAssumption, FS_Product, FS_Union DEF Loc
<1> QED
  BY <1>2, SlotsAssumption DEF Cell, Field

LEMMA Colors ==
  ASSUME mutator \in 0..2
  PROVE  /\ sweeper \in 0..2 /\ marker \in 0..2 /\ propagator = 3
         /\ sweeper # mutator /\ marker # mutator /\ marker # sweeper
         /\ (mutator + 1) % 3 = sweeper /\ (((mutator + 1) % 3) + 1) % 3 = marker
         /\ \A x \in 0..3 : x \in {mutator, marker, sweeper, propagator}
<1>1. mutator = 0 \/ mutator = 1 \/ mutator = 2
  OBVIOUS
<1> QED
  BY <1>1 DEF sweeper, marker, propagator

-----------------------------------------------------------------------------
(* What can be got at. *)

Values == [Loc -> Cell \cup {NoBlock}]

LEMMA Least ==
  ASSUME NEW v, NEW D, NEW S \in SUBSET Cell, ClosedFrom(v, D, S)
  PROVE  From(v, D) \subseteq S
BY DEF From

LEMMA FromClosed ==
  ASSUME NEW v \in Values, NEW D \in SUBSET Cell
  PROVE  /\ From(v, D) \subseteq Cell
         /\ Counting(v, D) \subseteq Loc
         /\ \A l \in Counting(v, D) : v[l] # NoBlock => v[l] \in From(v, D)
<1>1. From(v, D) \subseteq Cell
  BY DEF From
<1>2. \A l \in Loc : v[l] # NoBlock => v[l] \in Cell
  BY DEF Values
<1>3. \A c \in Cell, f \in Field : <<c, f>> \in Loc
  BY DEF Loc
<1>4. \A l \in Slot : l \in Loc
  BY DEF Loc
<1>5. ASSUME NEW l \in Slot, v[l] # NoBlock
      PROVE  v[l] \in From(v, D)
  BY <1>2, <1>4, <1>5 DEF From, ClosedFrom
<1>6. ASSUME NEW c \in From(v, D) \cup D, NEW f \in Field, v[<<c, f>>] # NoBlock
      PROVE  v[<<c, f>>] \in From(v, D)
  <2>1. v[<<c, f>>] \in Cell
    BY <1>1, <1>2, <1>3, <1>6
  <2>2. ASSUME NEW S \in SUBSET Cell, ClosedFrom(v, D, S)
        PROVE  v[<<c, f>>] \in S
    BY <1>6, <2>2, Least DEF ClosedFrom
  <2> QED
    BY <2>1, <2>2 DEF From
<1> QED
  BY <1>1, <1>3, <1>4, <1>5, <1>6 DEF Counting

LEMMA PointersFinite ==
  ASSUME NEW v \in Values, NEW D \in SUBSET Cell, NEW x
  PROVE  /\ Pointing(v, D, x) \subseteq Loc
         /\ IsFiniteSet(Pointing(v, D, x)) /\ Cardinality(Pointing(v, D, x)) \in Nat
<1>1. Pointing(v, D, x) \subseteq Loc
  BY FromClosed DEF Pointing
<1>2. IsFiniteSet(Pointing(v, D, x))
  BY <1>1, Sizes, FS_Subset
<1> QED
  BY <1>1, <1>2, FS_CardinalityType

(* Nobody can get at a block without counted pointers.                     *)
LEMMA Unreached ==
  ASSUME NEW v \in Values, NEW D \in SUBSET Cell, NEW x \in Cell, Pointing(v, D, x) = {}
  PROVE  x \notin From(v, D)
<1> DEFINE S == From(v, D) \ {x}
<1>1. \A l \in Counting(v, D) : v[l] # x
  BY DEF Pointing
<1>2. \A l \in Counting(v, D) : v[l] # NoBlock => v[l] \in S
  BY <1>1, FromClosed
<1>3. ClosedFrom(v, D, S)
  BY <1>2 DEF ClosedFrom, Counting
<1>4. S \in SUBSET Cell
  BY FromClosed
<1> QED
  BY <1>3, <1>4, Least

LEMMA NoCount ==
  ASSUME NEW v \in Values, NEW D \in SUBSET Cell, NEW x \in Cell,
         Cardinality(Pointing(v, D, x)) =< 0
  PROVE  x \notin From(v, D)
<1>1. Cardinality(Pointing(v, D, x)) = 0 /\ IsFiniteSet(Pointing(v, D, x))
  BY PointersFinite
<1>2. Pointing(v, D, x) = {}
  BY <1>1, FS_EmptySet
<1> QED
  BY <1>2, Unreached

(* Fewer pointers, and fewer blocks to start from. *)
LEMMA Shrinks ==
  ASSUME NEW v \in Values, NEW u \in Values, NEW D \in SUBSET Cell, NEW E \in SUBSET Cell,
         E \subseteq D,
         \A l \in Counting(v, D) : u[l] \in {v[l], NoBlock}
  PROVE  /\ From(u, E) \subseteq From(v, D)
         /\ \A x \in Cell : Pointing(u, E, x) \subseteq Pointing(v, D, x)
<1>1. \A l \in Counting(v, D) : u[l] # NoBlock => u[l] \in From(v, D)
  BY FromClosed
<1>2. ClosedFrom(u, E, From(v, D))
  BY <1>1 DEF ClosedFrom, Counting
<1>3. From(u, E) \subseteq From(v, D)
  BY <1>2, FromClosed, Least
<1>4. Counting(u, E) \subseteq Counting(v, D)
  BY <1>3 DEF Counting
<1>5. ASSUME NEW x \in Cell
      PROVE  Pointing(u, E, x) \subseteq Pointing(v, D, x)
  BY <1>4, Sizes DEF Pointing
<1> QED
  BY <1>3, <1>5

(* The locations W get other values, one of them is d, which counted, and  *)
(* the others are in the fresh blocks F.                                   *)
Stored(v, u, D, E, F, W, d) ==
  /\ v \in Values /\ u \in Values /\ D \in SUBSET Cell /\ E \in SUBSET Cell
  /\ F \in SUBSET Cell /\ W \in SUBSET Loc
  /\ d \in Counting(v, D) /\ d \in W
  /\ \A e \in E : e \in D \/ e = v[d]
  /\ \A s \in F, f \in Field : <<s, f>> \in W
  /\ \A l \in W : u[l] \in From(v, D) \cup F \cup {NoBlock}
  /\ \A l \in Loc : l \in W \/ u[l] = v[l]

LEMMA Stores ==
  ASSUME NEW v, NEW u, NEW D, NEW E, NEW F, NEW W, NEW d, Stored(v, u, D, E, F, W, d)
  PROVE  /\ From(u, E) \subseteq From(v, D) \cup F
         /\ \A x \in Cell : \A l \in Pointing(u, E, x) :
              l \in Pointing(v, D, x) \ {d} \/ (l \in W /\ u[l] = x)
<1> USE DEF Stored
<1> DEFINE S == From(v, D) \cup F
<1>1. From(v, D) \subseteq Cell /\ Counting(v, D) \subseteq Loc
  BY FromClosed
<1>2. \A l \in Counting(v, D) \cup W : u[l] # NoBlock => u[l] \in S
  BY <1>1, FromClosed
<1>3. E \subseteq D \cup S
  BY FromClosed, Sizes
<1>4. \A s \in S \cup E, f \in Field : <<s, f>> \in Counting(v, D) \cup W
  BY <1>3 DEF Counting
<1>5. Slot \subseteq Counting(v, D)
  BY DEF Counting
<1>6. ClosedFrom(u, E, S)
  BY <1>2, <1>4, <1>5 DEF ClosedFrom
<1>7. From(u, E) \subseteq S
  BY <1>1, <1>6, Least
<1>8. Counting(u, E) \subseteq Counting(v, D) \cup W
  BY <1>4, <1>5, <1>7 DEF Counting
<1>9. ASSUME NEW x \in Cell, NEW l \in Pointing(u, E, x)
      PROVE  l \in Pointing(v, D, x) \ {d} \/ (l \in W /\ u[l] = x)
  BY <1>1, <1>8, <1>9 DEF Pointing
<1> QED
  BY <1>7, <1>9

(* What remains of the pointers to a block when one is lost. *)
LEMMA Loses ==
  ASSUME NEW v \in Values, NEW D \in SUBSET Cell, NEW d \in Counting(v, D), NEW x \in Cell
  PROVE  LET n == Cardinality(Pointing(v, D, x)) IN
         /\ IsFiniteSet(Pointing(v, D, x) \ {d}) /\ n \in Nat
         /\ v[d] = x => n >= 1 /\ Cardinality(Pointing(v, D, x) \ {d}) = n - 1
         /\ v[d] # x => Cardinality(Pointing(v, D, x) \ {d}) = n
<1> DEFINE P == Pointing(v, D, x)
<1>1. d \in P <=> v[d] = x
  BY DEF Pointing
<1>2. IsFiniteSet(P) /\ Cardinality(P) \in Nat
  BY PointersFinite
<1>3. /\ IsFiniteSet(P \ {d})
      /\ Cardinality(P \ {d}) = IF d \in P THEN Cardinality(P) - 1 ELSE Cardinality(P)
  BY <1>2, FS_RemoveElement
<1>4. Cardinality(P \ {d}) \in Nat
  BY <1>3, FS_CardinalityType
<1> QED
  BY <1>1, <1>2, <1>3, <1>4

(* A set that gains at most the elements of another.                       *)
LEMMA Gains ==
  ASSUME NEW A, NEW B, NEW C, A \subseteq B \cup C, IsFiniteSet(B), IsFiniteSet(C)
  PROVE  /\ Cardinality(A) \in Nat /\ Cardinality(B) \in Nat /\ Cardinality(C) \in Nat
         /\ Cardinality(A) =< Cardinality(B) + Cardinality(C)
<1>1. /\ IsFiniteSet(B \cup C)
      /\ Cardinality(B \cup C) = Cardinality(B) + Cardinality(C) - Cardinality(B \cap C)
  BY FS_Union
<1>2. IsFiniteSet(B \cap C)
  BY FS_Intersection
<1>3. IsFiniteSet(A) /\ Cardinality(A) =< Cardinality(B \cup C)
  BY <1>1, FS_Subset
<1>4. /\ Cardinality(A) \in Nat /\ Cardinality(B) \in Nat /\ Cardinality(C) \in Nat
      /\ Cardinality(B \cap C) \in Nat
  BY <1>2, <1>3, FS_CardinalityType
<1> QED
  BY <1>1, <1>3, <1>4

-----------------------------------------------------------------------------
(* Counts. *)

LEMMA Types ==
  ASSUME TypeOK
  PROVE  /\ val \in Values /\ Dying \in SUBSET Cell /\ Live \subseteq Cell
         /\ Counting(val, Dying) \subseteq Loc
         /\ \A l \in Counting(val, Dying) : val[l] # NoBlock => val[l] \in Live
         /\ \A l \in Slot : l \in Counting(val, Dying)
         /\ \A c \in Live \cup Dying, f \in Field : <<c, f>> \in Counting(val, Dying)
<1>1. val \in Values /\ Dying \in SUBSET Cell
  BY DEF TypeOK, Values, Dying
<1> QED
  BY <1>1, FromClosed DEF Live, Counting

(* An instruction stores in d and in the fields of the fresh blocks F; W   *)
(* are all these locations, and r the counts before that of the old value  *)
(* of d goes down.                                                         *)
Assigns(F, W, d, r) ==
  /\ F \in SUBSET Cell /\ \A c \in F : status[c] = "free"
  /\ W \in SUBSET Loc /\ d \in W /\ d \in Counting(val, Dying)
  /\ \A c \in F, f \in Field : <<c, f>> \in W
  /\ val' \in Values
  /\ \A l \in W : val'[l] \in Live \cup F \cup {NoBlock}
  /\ \A l \in Loc : l \in W \/ val'[l] = val[l]
  /\ r \in [Cell -> Nat]
  /\ \A x \in Dying : r[x] = ref[x]
  /\ \A x \in Live \cup F :
       /\ IsFiniteSet({l \in W : val'[l] = x})
       /\ Cardinality({l \in W : val'[l] = x}) + (IF x \in F THEN 0 ELSE ref[x]) =< r[x]
  /\ ref' = Dropped(val[d], r)
  /\ status' \in [Cell -> {"free", "used", "dying"}]
  /\ \A x \in Cell : status'[x] = IF x \in F THEN "used"
                                 ELSE IF x = val[d] /\ r[x] = 1 THEN "dying"
                                 ELSE status[x]

LEMMA AssignsCounts ==
  ASSUME TypeOK, CountInv, NEW F, NEW W, NEW d, NEW r, Assigns(F, W, d, r)
  PROVE  /\ Live' \subseteq Live \cup F
         /\ CountInv' /\ ref' \in [Cell -> Nat]
<1> USE DEF Assigns
<1> DEFINE G(x) == {l \in W : val'[l] = x}
<1>1. /\ val \in Values /\ Dying \in SUBSET Cell /\ Live \subseteq Cell
      /\ Live = From(val, Dying)
      /\ val[d] # NoBlock => val[d] \in Live
  BY Types DEF Live
<1>2. \A x \in Live : x \notin Dying /\ x \notin F /\ status[x] = "used"
  BY DEF CountInv, Used, Dying
<1>3. Dying' \in SUBSET Cell /\ Dying' \subseteq Dying \cup {val[d]}
  BY DEF Dying
<1>4. /\ From(val', Dying') \subseteq Live \cup F
      /\ \A x \in Cell : Pointing(val', Dying', x) \subseteq (Pointing(val, Dying, x) \ {d}) \cup G(x)
  <2>1. \A l \in W : val'[l] \in From(val, Dying) \cup F \cup {NoBlock}
    BY <1>1
  <2>2. \A e \in Dying' : e \in Dying \/ e = val[d]
    BY <1>3
  <2>3. /\ From(val', Dying') \subseteq From(val, Dying) \cup F
        /\ \A x \in Cell : \A l \in Pointing(val', Dying', x) :
             l \in Pointing(val, Dying, x) \ {d} \/ (l \in W /\ val'[l] = x)
    <3>1. Stored(val, val', Dying, Dying', F, W, d)
      BY <1>1, <1>3, <2>1, <2>2 DEF Stored
    <3> QED
      BY <3>1, Stores
  <2> QED
    BY <1>1, <2>3
<1>5. Live' = From(val', Dying') /\ \A x : Pointers(x)' = Pointing(val', Dying', x)
  BY DEF Live, Pointers
<1>6. \A x \in Live \cup Dying : /\ Cardinality(Pointing(val, Dying, x)) \in Nat
                                 /\ Cardinality(Pointing(val, Dying, x)) =< ref[x]
  BY <1>1, PointersFinite DEF CountInv, Pointers
<1>7. /\ ref \in [Cell -> Nat]
      /\ ref' = IF val[d] = NoBlock THEN r ELSE [r EXCEPT ![val[d]] = @ - 1]
      /\ \A x \in Cell : ref'[x] = IF x = val[d] THEN r[x] - 1 ELSE r[x]
  <2>1. ref' = IF val[d] = NoBlock THEN r ELSE [r EXCEPT ![val[d]] = @ - 1]
    BY DEF Dropped
  <2> QED
    BY <1>1, <2>1, Sizes DEF TypeOK
<1>8. ASSUME val[d] # NoBlock
      PROVE  ref[val[d]] >= 1 /\ r[val[d]] >= 1
  <2>1. Cardinality(Pointing(val, Dying, val[d])) >= 1
    BY <1>1, <1>8, Loses
  <2>2. ref[val[d]] >= 1
    <3>1. val[d] \in Live /\ val[d] \in Cell
      BY <1>1, <1>8
    <3>2. ref[val[d]] \in Nat /\ r[val[d]] \in Nat
      BY <1>7, <3>1
    <3>3. /\ Cardinality(Pointing(val, Dying, val[d])) \in Nat
          /\ Cardinality(Pointing(val, Dying, val[d])) =< ref[val[d]]
      BY <1>6, <3>1
    <3> QED
      BY <2>1, <3>2, <3>3
  <2>3. Cardinality(G(val[d])) + ref[val[d]] =< r[val[d]] /\ IsFiniteSet(G(val[d]))
    BY <1>1, <1>2, <1>8
  <2>4. Cardinality(G(val[d])) \in Nat
    BY <2>3, FS_CardinalityType
  <2>5. ref[val[d]] \in Nat /\ r[val[d]] \in Nat
    BY <1>1, <1>7, <1>8
  <2> HIDE DEF G
  <2> QED
    BY <2>2, <2>3, <2>4, <2>5
<1>9. ref' \in [Cell -> Nat]
  BY <1>1, <1>7, <1>8, Sizes
<1>10. ASSUME NEW x \in Live
       PROVE  Cardinality(Pointers(x)') =< ref'[x]
  <2> DEFINE n == Cardinality(Pointing(val, Dying, x))
             m == Cardinality(Pointing(val, Dying, x) \ {d})
             g == Cardinality(G(x))
  <2>1. x \in Cell /\ x \notin F
    BY <1>1, <1>2
  <2>2. IsFiniteSet(G(x)) /\ g + ref[x] =< r[x]
    BY <2>1
  <2>3. IsFiniteSet(Pointing(val, Dying, x) \ {d}) /\ n \in Nat
        /\ m = IF val[d] = x THEN n - 1 ELSE n
    BY <1>1, <2>1, Loses
  <2>4. g \in Nat /\ m \in Nat /\ Cardinality(Pointers(x)') =< m + g
        /\ Cardinality(Pointers(x)') \in Nat
    BY <1>4, <1>5, <2>1, <2>2, <2>3, Gains
  <2>5. n =< ref[x] /\ ref[x] \in Nat /\ r[x] \in Nat
    BY <1>6, <1>7, <2>1
  <2>6. ref'[x] = IF x = val[d] THEN r[x] - 1 ELSE r[x]
    BY <1>7, <2>1
  <2> HIDE DEF n, m, g, G
  <2> QED
    BY <2>2, <2>3, <2>4, <2>5, <2>6
<1>11. ASSUME NEW x \in F
       PROVE  Cardinality(Pointers(x)') =< ref'[x]
  <2>1. x \notin Live /\ x # val[d] /\ x \in Cell
    BY <1>1, <1>2, Sizes
  <2>2. Pointing(val, Dying, x) = {}
    BY <1>1, <2>1, Types, Sizes DEF Pointing
  <2>3. Pointers(x)' \subseteq {} \cup G(x)
    BY <1>4, <1>5, <2>1, <2>2
  <2>4. IsFiniteSet(G(x)) /\ Cardinality(G(x)) + 0 =< r[x]
    OBVIOUS
  <2>5. Cardinality(Pointers(x)') =< Cardinality({}) + Cardinality(G(x))
        /\ Cardinality(Pointers(x)') \in Nat /\ Cardinality(G(x)) \in Nat
    BY <2>3, <2>4, FS_EmptySet, Gains
  <2>6. Cardinality({}) = 0
    BY FS_EmptySet
  <2>7. ref'[x] = r[x] /\ r[x] \in Nat
    BY <1>7, <2>1
  <2> HIDE DEF G
  <2> QED
    BY <2>4, <2>5, <2>6, <2>7
<1>12. ASSUME NEW x \in Dying'
       PROVE  ref'[x] = 0 /\ Cardinality(Pointers(x)') =< 0
  <2>1. x \in Cell /\ ((x = val[d] /\ r[x] = 1) \/ x \in Dying)
    BY DEF Dying
  <2>2. CASE x = val[d] /\ r[x] = 1
    <3>1. x \in Live /\ ref'[x] = 0
      BY <1>1, <1>7, <2>1, <2>2, Sizes
    <3> QED
      BY <1>10, <3>1
  <2>3. CASE x \in Dying /\ ~(x = val[d] /\ r[x] = 1)
    <3>1. x \in Cell /\ x \notin F /\ x \notin Live /\ x # NoBlock /\ x # val[d]
      BY <1>1, <1>2, <2>3, Sizes DEF Dying
    <3>2. ref'[x] = 0
      BY <1>7, <2>3, <3>1 DEF CountInv
    <3>3. Pointing(val, Dying, x) = {}
      <4>1. Cardinality(Pointing(val, Dying, x)) = 0
        BY <1>6, <2>3 DEF CountInv
      <4> QED
        BY <1>1, <4>1, PointersFinite, FS_EmptySet
    <3>4. G(x) = {}
      BY <3>1
    <3>5. Pointers(x)' = {}
      BY <1>4, <1>5, <3>1, <3>3, <3>4
    <3> QED
      BY <3>2, <3>5, FS_EmptySet
  <2> QED
    BY <2>1, <2>2, <2>3
<1>13. ASSUME NEW x \in Live'
       PROVE  Used(x)'
  <2>1. x \in Live \cup F /\ x \in Cell
    BY <1>1, <1>4, <1>5
  <2>2. x \notin Dying'
    BY <1>3, <1>5, <1>12, <2>1, NoCount
  <2>3. status'[x] # "dying"
    BY <2>1, <2>2 DEF Dying
  <2> QED
    BY <1>2, <2>1, <2>3 DEF Used
<1>14. CountInv'
  <2>1. \A x \in Live' \cup Dying' : Cardinality(Pointers(x)') =< ref'[x]
    BY <1>4, <1>5, <1>10, <1>11, <1>12
  <2>2. (\A x \in Live \cup Dying : Cardinality(Pointers(x)) =< ref[x])'
    BY <2>1
  <2> QED
    BY <1>12, <1>13, <2>2 DEF CountInv
<1> QED
  BY <1>4, <1>5, <1>9, <1>14

(* Its kinds and colours: what it stores it marks, and fresh blocks are as *)
(* if scanned.                                                             *)
Paints(F, W, d) ==
  /\ kind' \in [Cell -> Kind] /\ color' \in [Cell -> 0..3] /\ nprop' \in BOOLEAN
  /\ \A l \in W : l = d \/ l \in F \X Field
  /\ \A x \in Live : kind[x] = "array" =>
       /\ <<x, "link">> \notin W
       /\ val[<<x, "link">>] # NoBlock => <<x, "data">> \notin W
  /\ \A x \in Cell : x \in F \/ kind'[x] = kind[x]
  /\ \A x \in F : kind'[x] = "array" /\ val'[<<x, "link">>] # NoBlock =>
       /\ val'[<<x, "data">>] = NoBlock
       /\ val'[<<x, "link">>] \in Live
       /\ kind[val'[<<x, "link">>]] = "array"
       /\ val[<<val'[<<x, "link">>], "link">>] = NoBlock
  /\ \A x \in F : color'[x] = mutator
  /\ \A x \in Cell : x \in F \/ color'[x] = color[x] \/ (color'[x] = propagator /\ nprop')
  /\ nprop => nprop'
  /\ \A l \in W : val'[l] # NoBlock => color'[val'[l]] \in {mutator, propagator}
  /\ mutator' = mutator /\ ptr' = ptr /\ prev' = prev /\ visit' = visit /\ visit = 0

LEMMA AssignsKeeps ==
  ASSUME IndInv, NEW F, NEW W, NEW d, NEW r, Assigns(F, W, d, r), Paints(F, W, d)
  PROVE  IndInv'
<1>1. Live' \subseteq Live \cup F /\ CountInv' /\ ref' \in [Cell -> Nat]
  BY AssignsCounts DEF IndInv
<1> USE DEF Assigns, Paints
<1>2. TypeOK'
  <2>1. /\ status' \in [Cell -> {"free", "used", "dying"}] /\ val' \in [Loc -> Cell \cup {NoBlock}]
    BY DEF Values
  <2>2. kind' \in [Cell -> Kind] /\ color' \in [Cell -> 0..3] /\ nprop' \in BOOLEAN
    OBVIOUS
  <2>3. mutator' = mutator /\ ptr' = ptr /\ prev' = prev /\ visit' = visit
    OBVIOUS
  <2> QED
    BY <1>1, <2>1, <2>2, <2>3 DEF IndInv, TypeOK
<1>3. /\ val \in Values /\ Live \subseteq Cell
      /\ \A l \in Counting(val, Dying) : val[l] # NoBlock => val[l] \in Live
      /\ \A l \in Slot : l \in Counting(val, Dying) /\ l \in Loc
      /\ \A c \in Live \cup Dying, f \in Field : <<c, f>> \in Counting(val, Dying)
  BY Types DEF IndInv, Loc
<1>4. \A x \in Live : x \in Cell /\ x \notin F /\ status[x] = "used"
  BY <1>3 DEF IndInv, CountInv, Used
<1>5. \A c \in Cell, f \in Field : <<c, f>> \in Loc
  BY DEF Loc
<1>6. "data" \in Field /\ "link" \in Field
  BY DEF Field
<1>7. SliceInv'
  <2> SUFFICES ASSUME NEW c \in Live', kind'[c] = "array", val'[<<c, "link">>] # NoBlock
               PROVE  /\ val'[<<c, "data">>] = NoBlock
                      /\ kind'[val'[<<c, "link">>]] = "array"
                      /\ val'[<<val'[<<c, "link">>], "link">>] = NoBlock
    BY DEF SliceInv
  <2>1. CASE c \in F
    <3>1. val'[<<c, "link">>] \in Live /\ kind[val'[<<c, "link">>]] = "array"
      BY <2>1
    <3>2. <<val'[<<c, "link">>], "link">> \notin W
      BY <3>1
    <3> QED
      BY <1>4, <1>5, <1>6, <2>1, <3>1, <3>2
  <2>2. CASE c \in Live
    <3>0. c \in Cell /\ c \notin F /\ <<c, "link">> \in Loc
      BY <1>4, <1>5, <1>6, <2>2
    <3>a. kind[c] = "array"
      BY <3>0
    <3>b. <<c, "link">> \notin W
      BY <2>2, <3>a
    <3>1. kind[c] = "array" /\ val'[<<c, "link">>] = val[<<c, "link">>]
      BY <3>0, <3>a, <3>b
    <3>2. val[<<c, "data">>] = NoBlock /\ val'[<<c, "data">>] = val[<<c, "data">>]
      BY <1>4, <1>5, <1>6, <2>2, <3>1 DEF IndInv, SliceInv
    <3>3. val[<<c, "link">>] \in Live
      BY <1>3, <1>6, <2>2, <3>1
    <3>4. kind[val[<<c, "link">>]] = "array" /\ val[<<val[<<c, "link">>], "link">>] = NoBlock
      BY <2>2, <3>1 DEF IndInv, SliceInv
    <3>5. <<val[<<c, "link">>], "link">> \notin W
      BY <3>3, <3>4
    <3>6. kind'[val[<<c, "link">>]] = "array" /\ val'[<<val[<<c, "link">>], "link">>] = NoBlock
      BY <1>4, <1>5, <1>6, <3>3, <3>4, <3>5
    <3> QED
      BY <3>1, <3>2, <3>6
  <2> QED
    BY <1>1, <2>1, <2>2
<1>8. \A x \in Cell : Seen(x) /\ x \notin F => color'[x] \in {mutator, propagator}
  BY DEF Seen
<1>9. \A l \in Loc : l \notin W /\ val[l] # NoBlock /\ val[l] \in Live /\ Seen(val[l]) => color'[val'[l]] \in {mutator, propagator}
  BY <1>4, <1>8
<1>10. ColorInv'
  <2>1. ASSUME NEW c \in Roots'
        PROVE  color'[c] \in {mutator, propagator}
    <3>1. PICK l \in Slot : val'[l] = c /\ c # NoBlock
      BY DEF Roots, Held
    <3>2. CASE l \in W
      BY <3>1, <3>2
    <3>3. CASE l \notin W
      <4>1. val'[l] = val[l] /\ val[l] \in Live /\ l \in Loc
        BY <1>3, <3>1, <3>3
      <4>2. Seen(val[l])
        BY <3>1, <4>1 DEF IndInv, ColorInv, Roots, Held
      <4> QED
        BY <1>9, <3>1, <3>3, <4>1, <4>2
    <3> QED
      BY <3>2, <3>3
  <2>2. ASSUME NEW c \in Live'
        PROVE  color'[c] # sweeper'
    BY <1>1, <1>4, Colors DEF IndInv, TypeOK, ColorInv, sweeper
  <2>3. ASSUME NEW c \in Live', color'[c] = mutator, NEW f \in Field, val'[<<c, f>>] # NoBlock
        PROVE  color'[val'[<<c, f>>]] \in {mutator, propagator}
    <3>1. CASE <<c, f>> \in W
      BY <2>3, <3>1
    <3>2. CASE <<c, f>> \notin W
      <4>1. c \in Live /\ color[c] = mutator
        BY <1>1, <1>4, <2>3, <3>2, Colors DEF IndInv, TypeOK
      <4>2. val'[<<c, f>>] = val[<<c, f>>] /\ val[<<c, f>>] \in Live
        BY <1>3, <1>4, <1>5, <2>3, <3>2, <4>1
      <4>3. Seen(val[<<c, f>>])
        BY <2>3, <4>1, <4>2 DEF IndInv, ColorInv
      <4> QED
        BY <1>4, <1>8, <4>2, <4>3
    <3> QED
      BY <3>1, <3>2
  <2> QED
    BY <2>1, <2>2, <2>3 DEF ColorInv, Seen
<1>11. PassInv'
  <2> SUFFICES ASSUME NEW c \in Cell, status'[c] = "used", c < ptr
               PROVE  color'[c] # sweeper /\ (color'[c] = propagator => nprop')
    BY DEF PassInv, Used, sweeper
  <2>1. mutator \in 0..2 /\ mutator # sweeper /\ mutator # propagator /\ propagator # sweeper
    BY Colors DEF IndInv, TypeOK
  <2>2. CASE c \in F
    BY <2>1, <2>2
  <2>3. CASE c \notin F
    <3>1. status[c] = "used"
      BY <2>3
    <3>2. color[c] # sweeper /\ (color[c] = propagator => nprop)
      BY <3>1 DEF IndInv, PassInv, Used
    <3> QED
      BY <2>1, <2>3, <3>2
  <2> QED
    BY <2>2, <2>3
<1>12. WalkInv'
  <2>1. ASSUME NEW c \in Cell, NEW f \in Field, status'[c] = "free"
        PROVE  val'[<<c, f>>] = NoBlock
    <3>1. c \notin F /\ status[c] = "free"
      BY <2>1
    <3>2. c \notin Live /\ c \notin Dying
      BY <1>4, <3>1 DEF Dying
    <3>3. <<c, f>> \notin W
      <4>1. <<c, f>> \notin Counting(val, Dying)
        BY <3>2, Sizes DEF Counting, Live
      <4> QED
        BY <3>1, <4>1
    <3> QED
      BY <1>5, <3>1, <3>3 DEF IndInv, WalkInv
  <2> QED
    BY <2>1 DEF IndInv, WalkInv
<1> QED
  BY <1>1, <1>2, <1>7, <1>10, <1>11, <1>12 DEF IndInv
-----------------------------------------------------------------------------
(* Instructions. *)

(* What operands address is live, and they do not address the elements or  *)
(* the root of a slice.                                                    *)
LEMMA Operands ==
  ASSUME IndInv
  PROVE  /\ \A d \in Operand : d \in Counting(val, Dying) /\ d \in Loc
         /\ \A v \in {val[l] : l \in Operand} \cup {NoBlock} : v # NoBlock => v \in Live
         /\ \A x \in Live : kind[x] = "array" =>
              /\ <<x, "link">> \notin Operand
              /\ val[<<x, "link">>] # NoBlock => <<x, "data">> \notin Operand
<1>1. /\ Live \subseteq Cell /\ Counting(val, Dying) \subseteq Loc
      /\ \A l \in Counting(val, Dying) : val[l] # NoBlock => val[l] \in Live
      /\ \A l \in Slot : l \in Counting(val, Dying) /\ l \notin Cell \X Field
      /\ \A c \in Live \cup Dying, f \in Field : <<c, f>> \in Counting(val, Dying)
  BY Types, Sizes DEF IndInv
<1>2. "data" \in Field /\ "link" \in Field
  BY DEF Field
<1>3. \A c \in Held : c \in Live
  BY <1>1 DEF Held
<1>4. ASSUME NEW c \in Held
      PROVE  \E x \in Live : /\ Elements(c) = <<x, "data">>
                             /\ kind[x] = "array" => val[<<x, "link">>] = NoBlock
  <2>1. CASE kind[c] = "array" /\ val[<<c, "link">>] # NoBlock
    <3>1. Elements(c) = <<val[<<c, "link">>], "data">>
      BY <2>1 DEF Elements
    <3>2. val[<<c, "link">>] \in Live
      BY <1>1, <1>2, <1>3, <2>1
    <3>3. val[<<val[<<c, "link">>], "link">>] = NoBlock
      BY <1>3, <2>1 DEF IndInv, SliceInv
    <3> QED
      BY <3>1, <3>2, <3>3
  <2>2. CASE ~(kind[c] = "array" /\ val[<<c, "link">>] # NoBlock)
    <3>1. Elements(c) = <<c, "data">>
      BY <2>2 DEF Elements
    <3> QED
      BY <1>3, <2>2, <3>1
  <2> QED
    BY <2>1, <2>2
<1>5. ASSUME NEW d \in Operand
      PROVE  \/ d \in Slot
             \/ \E x \in Live : d = <<x, "data">> /\ (kind[x] = "array" => val[<<x, "link">>] = NoBlock)
             \/ \E x \in Live : d = <<x, "link">> /\ kind[x] # "array"
  <2>1. CASE d \in Slot
    BY <2>1
  <2>2. CASE d \in {Elements(c) : c \in Held}
    <3>1. PICK c \in Held : d = Elements(c)
      BY <2>2
    <3> QED
      BY <1>4, <3>1
  <2>3. CASE d \in {<<c, "link">> : c \in {x \in Held : kind[x] # "array"}}
    <3>0. \E c \in {x \in Held : kind[x] # "array"} : d = <<c, "link">>
      BY <2>3
    <3>1. PICK c \in Held : kind[c] # "array" /\ d = <<c, "link">>
      BY <3>0
    <3> QED
      BY <1>3, <3>1
  <2> QED
    BY <2>1, <2>2, <2>3 DEF Operand
<1>6. ASSUME NEW d \in Operand
      PROVE  d \in Counting(val, Dying)
  <2>1. \A x \in Live : /\ <<x, "data">> \in Counting(val, Dying)
                        /\ <<x, "link">> \in Counting(val, Dying)
    BY <1>1, <1>2
  <2> QED
    BY <1>1, <1>5, <2>1
<1>7. ASSUME NEW x \in Live, kind[x] = "array"
      PROVE  /\ <<x, "link">> \notin Operand
             /\ val[<<x, "link">>] # NoBlock => <<x, "data">> \notin Operand
  <2>1. <<x, "link">> \notin Slot /\ <<x, "data">> \notin Slot
    BY <1>1, <1>2
  <2> QED
    BY <1>5, <1>7, <2>1
<1> QED
  BY <1>1, <1>6, <1>7

(* Setmark. *)
LEMMA Marks ==
  ASSUME TypeOK, NEW B, NEW col \in [Cell -> 0..3]
  PROVE  /\ Marked(B, col) \in [Cell -> 0..3]
         /\ \A c \in Cell : c \in B => Marked(B, col)[c] \in {mutator, propagator}
         /\ \A c \in Cell : Marked(B, col)[c] # col[c] =>
              c \in B /\ Marked(B, col)[c] = propagator /\ SetsNprop(B, col)
         /\ \A c \in Cell : c \in B /\ ~SetsNprop(B, col) => col[c] = mutator
BY DEF TypeOK, Marked, SetsNprop, propagator

LEMMA MovpInv ==
  ASSUME IndInv, NEW d \in Assignable, NEW v \in {val[l] : l \in Operand} \cup {NoBlock},
         Movp(d, v)
  PROVE  IndInv'
<1> DEFINE r == Taken(v, ref)
<1>1. /\ d \in Operand /\ d \in Counting(val, Dying) /\ d \in Loc
      /\ v # NoBlock => v \in Live
  BY Operands DEF Assignable
<1>2. /\ val \in Values /\ Live \subseteq Cell /\ Dying \subseteq Cell
      /\ ref \in [Cell -> Nat] /\ color \in [Cell -> 0..3]
      /\ val[d] # NoBlock => val[d] \in Live
  BY <1>1, Types DEF IndInv, TypeOK
<1>3. v # NoBlock => v \in Cell
  BY <1>1, <1>2
<1>4. val' = [val EXCEPT ![d] = v] /\ val' \in Values /\ val'[d] = v
  BY <1>1, <1>2, <1>3 DEF Movp, Values
<1>5. r \in [Cell -> Nat] /\ \A x \in Cell : r[x] = IF x = v THEN ref[x] + 1 ELSE ref[x]
  BY <1>2, <1>3, Sizes DEF Taken
<1>6. Dying = {}
  BY DEF Movp, Running, Dying
<1>7. Assigns({}, {d}, d, r)
  <2>1. ASSUME NEW x \in Live
        PROVE  /\ IsFiniteSet({l \in {d} : val'[l] = x})
               /\ Cardinality({l \in {d} : val'[l] = x}) + ref[x] =< r[x]
    <3>1. {l \in {d} : val'[l] = x} = IF x = v THEN {d} ELSE {}
      BY <1>4
    <3>2. x \in Cell /\ ref[x] \in Nat
      BY <1>2
    <3>3. IsFiniteSet({d}) /\ Cardinality({d}) = 1 /\ IsFiniteSet({}) /\ Cardinality({}) = 0
      BY FS_EmptySet, FS_Singleton
    <3>4. CASE x = v
      BY <1>5, <3>1, <3>2, <3>3, <3>4
    <3>5. CASE x # v
      BY <1>5, <3>1, <3>2, <3>3, <3>5
    <3> QED
      BY <3>4, <3>5
  <2>2. /\ status' \in [Cell -> {"free", "used", "dying"}]
        /\ \A x \in Cell : status'[x] = IF x = val[d] /\ r[x] = 1 THEN "dying" ELSE status[x]
    <3>1. status' = IF val[d] # NoBlock /\ r[val[d]] = 1
                      THEN [status EXCEPT ![val[d]] = "dying"] ELSE status
      BY DEF Movp, Killed
    <3>2. status \in [Cell -> {"free", "used", "dying"}] /\ (val[d] # NoBlock => val[d] \in Cell)
      BY <1>2 DEF IndInv, TypeOK
    <3> QED
      BY <3>1, <3>2, Sizes
  <2>3. ref' = Dropped(val[d], r)
    BY DEF Movp
  <2> QED
    BY <1>1, <1>2, <1>4, <1>5, <1>6, <2>1, <2>2, <2>3 DEF Assigns
<1>8. Paints({}, {d}, d)
  <2>1. color' = Marked({v}, color) /\ nprop' = (nprop \/ SetsNprop({v}, color))
    BY DEF Movp
  <2>2. val'[d] # NoBlock => color'[val'[d]] \in {mutator, propagator}
    <3>1. v # NoBlock => color'[v] \in {mutator, propagator}
      BY <1>2, <1>3, <2>1, Marks DEF IndInv
    <3> QED
      BY <1>4, <3>1
  <2>3. /\ color' \in [Cell -> 0..3]
        /\ \A x \in Cell : color'[x] = color[x] \/ (color'[x] = propagator /\ nprop')
    <3>1. SetsNprop({v}, color) => nprop'
      BY <2>1
    <3> QED
      BY <1>2, <2>1, <3>1, Marks DEF IndInv
  <2>4. /\ kind' = kind /\ mutator' = mutator /\ ptr' = ptr /\ prev' = prev /\ visit' = visit
        /\ visit = 0
    BY DEF Movp, Running
  <2>5. kind' \in [Cell -> Kind] /\ nprop' \in BOOLEAN /\ (nprop => nprop')
    BY <2>1, <2>4 DEF IndInv, TypeOK, SetsNprop
  <2>6. \A x \in Live : kind[x] = "array" =>
          /\ <<x, "link">> \notin {d}
          /\ val[<<x, "link">>] # NoBlock => <<x, "data">> \notin {d}
    BY <1>1, Operands
  <2>7. \A l \in {d} : val'[l] # NoBlock => color'[val'[l]] \in {mutator, propagator}
    BY <2>2
  <2>8. /\ \A l \in {d} : l = d \/ l \in {} \X Field
        /\ \A x \in Cell : kind'[x] = kind[x]
    BY <2>4
  <2> QED
    BY <2>3, <2>4, <2>5, <2>6, <2>7, <2>8 DEF Paints
<1> QED
  BY <1>7, <1>8, AssignsKeeps

LEMMA Pair ==
  ASSUME NEW x, NEW y
  PROVE  /\ IsFiniteSet({}) /\ IsFiniteSet({x}) /\ IsFiniteSet({x, y})
         /\ Cardinality({}) = 0 /\ Cardinality({x}) = 1
         /\ Cardinality({x, y}) \in Nat /\ Cardinality({x, y}) =< 2
<1>1. IsFiniteSet({}) /\ IsFiniteSet({x}) /\ Cardinality({}) = 0 /\ Cardinality({x}) = 1
  BY FS_EmptySet, FS_Singleton
<1>2. /\ IsFiniteSet({x} \cup {y})
      /\ Cardinality({x} \cup {y}) = IF y \in {x} THEN 1 ELSE 1 + 1
  BY <1>1, FS_AddElement
<1>3. {x} \cup {y} = {x, y}
  OBVIOUS
<1> QED
  BY <1>1, <1>2, <1>3

(* A fresh block c of kind k with the fields a and b replaces what d held. *)
Makes(d, c, k, a, b, t) ==
  /\ d \in Assignable /\ Running
  /\ c \in Cell /\ status[c] = "free" /\ k \in Kind
  /\ a \in Live \cup {NoBlock} /\ b \in Live \cup {NoBlock}
  /\ k = "array" /\ b # NoBlock =>
       a = NoBlock /\ kind[b] = "array" /\ val[<<b, "link">>] = NoBlock
  /\ val' \in Values
  /\ val'[d] = c /\ val'[<<c, "data">>] = a /\ val'[<<c, "link">>] = b
  /\ \A l \in Loc : l \in {d, <<c, "data">>, <<c, "link">>} \/ val'[l] = val[l]
  /\ kind' = [kind EXCEPT ![c] = k]
  /\ t = Taken(b, Taken(a, [ref EXCEPT ![c] = 1]))
  /\ ref' = Dropped(val[d], t)
  /\ status' = Killed(val[d], t, [status EXCEPT ![c] = "used"])
  /\ color' \in [Cell -> 0..3] /\ color'[c] = mutator /\ nprop' \in BOOLEAN /\ (nprop => nprop')
  /\ \A x \in Cell : x = c \/ color'[x] = color[x] \/ (color'[x] = propagator /\ nprop')
  /\ a # NoBlock => color'[a] \in {mutator, propagator}
  /\ b # NoBlock => color'[b] \in {mutator, propagator}
  /\ mutator' = mutator /\ ptr' = ptr /\ prev' = prev /\ visit' = visit

LEMMA MakesInv ==
  ASSUME IndInv, NEW d, NEW c, NEW k, NEW a, NEW b, NEW t, Makes(d, c, k, a, b, t)
  PROVE  IndInv'
<1> DEFINE W == {d, <<c, "data">>, <<c, "link">>}
<1>1. /\ d \in Operand /\ d \in Counting(val, Dying) /\ d \in Loc /\ c \in Cell
  BY Operands DEF Assignable, Makes
<1>2. /\ val \in Values /\ Live \subseteq Cell /\ Dying \subseteq Cell
      /\ ref \in [Cell -> Nat] /\ color \in [Cell -> 0..3] /\ kind \in [Cell -> Kind]
      /\ status \in [Cell -> {"free", "used", "dying"}]
      /\ val[d] # NoBlock => val[d] \in Live
  BY <1>1, Types DEF IndInv, TypeOK
<1>3. c \notin Live /\ Dying = {} /\ c # NoBlock /\ a # c /\ b # c /\ val[d] # c
  BY <1>1, <1>2, Sizes DEF Dying, Running, IndInv, CountInv, Used, Makes
<1>4. "data" \in Field /\ "link" \in Field /\ \A f \in Field : f = "data" \/ f = "link"
  BY DEF Field
<1>5. <<c, "data">> \in Loc /\ <<c, "link">> \in Loc
  BY <1>1, <1>4 DEF Loc
<1>6. <<c, "data">> \notin Counting(val, Dying) /\ <<c, "link">> \notin Counting(val, Dying)
  BY <1>1, <1>3, <1>4, Sizes DEF Counting, Live
<1>7. /\ a \in Live \cup {NoBlock} /\ b \in Live \cup {NoBlock}
      /\ a \in Cell \cup {NoBlock} /\ b \in Cell \cup {NoBlock}
  BY <1>2 DEF Makes
<1>8. /\ t \in [Cell -> Nat] /\ t[c] = 1
      /\ \A x \in Cell : x # c =>
           t[x] = ref[x] + (IF x = a THEN 1 ELSE 0) + (IF x = b THEN 1 ELSE 0)
  <2> DEFINE s == [ref EXCEPT ![c] = 1]
             u == Taken(a, s)
  <2>1. s \in [Cell -> Nat] /\ s[c] = 1 /\ \A x \in Cell : x # c => s[x] = ref[x]
    BY <1>1, <1>2
  <2> HIDE DEF s
  <2>2. u \in [Cell -> Nat] /\ \A x \in Cell : u[x] = IF x = a THEN s[x] + 1 ELSE s[x]
    BY <1>7, <2>1, Sizes DEF Taken
  <2>3. t = Taken(b, u)
    BY DEF s, Makes
  <2> HIDE DEF u
  <2>4. t \in [Cell -> Nat] /\ \A x \in Cell : t[x] = IF x = b THEN u[x] + 1 ELSE u[x]
    BY <1>7, <2>2, <2>3, Sizes DEF Taken
  <2> QED
    BY <1>1, <1>2, <1>3, <2>1, <2>2, <2>4
<1>11. val' \in Values /\ val'[d] = c /\ val'[<<c, "data">>] = a /\ val'[<<c, "link">>] = b
  BY DEF Makes
<1>9. Assigns({c}, W, d, t)
  <2>1. ASSUME NEW x \in Live \cup {c}
        PROVE  /\ IsFiniteSet({l \in W : val'[l] = x})
               /\ Cardinality({l \in W : val'[l] = x}) + (IF x \in {c} THEN 0 ELSE ref[x]) =< t[x]
    <3> DEFINE G == {l \in W : val'[l] = x}
    <3>1. x \in Cell
      BY <1>1, <1>2
    <3>2. /\ x = c => G = {d}
          /\ x # c /\ x = a /\ x = b => G = {<<c, "data">>, <<c, "link">>}
          /\ x # c /\ x = a /\ x # b => G = {<<c, "data">>}
          /\ x # c /\ x # a /\ x = b => G = {<<c, "link">>}
          /\ x # c /\ x # a /\ x # b => G = {}
      BY <1>3, <1>11
    <3> HIDE DEF G
    <3>3. /\ x = c => IsFiniteSet(G) /\ Cardinality(G) = 1
          /\ x # c /\ x = a /\ x = b => IsFiniteSet(G) /\ Cardinality(G) \in Nat /\ Cardinality(G) =< 2
          /\ x # c /\ x = a /\ x # b => IsFiniteSet(G) /\ Cardinality(G) = 1
          /\ x # c /\ x # a /\ x = b => IsFiniteSet(G) /\ Cardinality(G) = 1
          /\ x # c /\ x # a /\ x # b => IsFiniteSet(G) /\ Cardinality(G) = 0
      BY <3>2, Pair
    <3>4. t[x] = IF x = c THEN 1
                 ELSE ref[x] + (IF x = a THEN 1 ELSE 0) + (IF x = b THEN 1 ELSE 0)
      BY <1>8, <3>1
    <3>5. ref[x] \in Nat
      BY <1>2, <3>1
    <3>6. IsFiniteSet(G) /\ Cardinality(G) + (IF x \in {c} THEN 0 ELSE ref[x]) =< t[x]
      BY <3>3, <3>4, <3>5
    <3> QED
      BY <3>6 DEF G
  <2>2. /\ status' \in [Cell -> {"free", "used", "dying"}]
        /\ \A x \in Cell : status'[x] = IF x \in {c} THEN "used"
                                       ELSE IF x = val[d] /\ t[x] = 1 THEN "dying"
                                       ELSE status[x]
    <3>1. status' = IF val[d] # NoBlock /\ t[val[d]] = 1
                      THEN [[status EXCEPT ![c] = "used"] EXCEPT ![val[d]] = "dying"]
                      ELSE [status EXCEPT ![c] = "used"]
      BY DEF Killed, Makes
    <3>2. val[d] # NoBlock => val[d] \in Cell /\ val[d] # c
      BY <1>2, <1>3
    <3>3. status' \in [Cell -> {"free", "used", "dying"}]
      BY <1>1, <1>2, <3>1, <3>2
    <3>4. ASSUME NEW x \in Cell
          PROVE  status'[x] = IF x \in {c} THEN "used"
                              ELSE IF x = val[d] /\ t[x] = 1 THEN "dying" ELSE status[x]
      BY <1>1, <1>2, <3>1, <3>2, Sizes
    <3> QED
      BY <3>3, <3>4
  <2>3. /\ {c} \in SUBSET Cell /\ W \in SUBSET Loc /\ d \in W
        /\ \A x \in {c}, f \in Field : <<x, f>> \in W
    BY <1>1, <1>4, <1>5
  <2>4. \A l \in W : val'[l] \in Live \cup {c} \cup {NoBlock}
    BY <1>7, <1>11
  <2> QED
    BY <1>1, <1>3, <1>8, <2>1, <2>2, <2>3, <2>4 DEF Assigns, Makes
<1>10. Paints({c}, W, d)
  <2>1. \A l \in W : l = d \/ l \in {c} \X Field
    BY <1>4
  <2>2. ASSUME NEW x \in Live, kind[x] = "array"
        PROVE  /\ <<x, "link">> \notin W
               /\ val[<<x, "link">>] # NoBlock => <<x, "data">> \notin W
    BY <1>1, <1>3, <2>2, Operands
  <2>3. kind' \in [Cell -> Kind] /\ kind'[c] = k /\ \A x \in Cell : x = c \/ kind'[x] = kind[x]
    BY <1>1, <1>2 DEF Makes
  <2>4. \A l \in W : val'[l] # NoBlock => color'[val'[l]] \in {mutator, propagator}
    BY <1>11 DEF Makes
  <2>5. visit = 0
    BY DEF Running, Makes
  <2> QED
    BY <1>7, <2>1, <2>2, <2>3, <2>4, <2>5 DEF Paints, Makes
<1> QED
  BY <1>9, <1>10, AssignsKeeps

(* The value that d had, and that a fresh block has nil pointers. *)
LEMMA Before ==
  ASSUME IndInv, NEW d \in Assignable, NEW c \in Cell, status[c] = "free"
  PROVE  /\ val[d] # NoBlock => val[d] \in Live /\ val[d] # c /\ val[d] \in Cell /\ ref[val[d]] >= 1
         /\ val[<<c, "data">>] = NoBlock /\ val[<<c, "link">>] = NoBlock
         /\ d \in Loc /\ d # <<c, "data">> /\ d # <<c, "link">>
         /\ <<c, "data">> \in Loc /\ <<c, "link">> \in Loc
         /\ c \notin Live /\ c # NoBlock
<1>1. /\ d \in Counting(val, Dying) /\ d \in Loc
      /\ val[d] # NoBlock => val[d] \in Live
  BY Operands, Types DEF Assignable, IndInv
<1>2. val \in Values /\ Dying \in SUBSET Cell /\ Live \subseteq Cell /\ ref \in [Cell -> Nat]
  BY Types DEF IndInv, TypeOK
<1>3. c \notin Live /\ c \notin Dying
  BY DEF IndInv, CountInv, Used, Dying
<1>4. "data" \in Field /\ "link" \in Field
  BY DEF Field
<1>5. <<c, "data">> \notin Counting(val, Dying) /\ <<c, "link">> \notin Counting(val, Dying)
  BY <1>3, <1>4, Sizes DEF Counting, Live
<1>6. ASSUME val[d] # NoBlock
      PROVE  ref[val[d]] >= 1
  <2> DEFINE n == Cardinality(Pointing(val, Dying, val[d]))
  <2>1. n \in Nat /\ n >= 1
    BY <1>1, <1>2, <1>6, Loses
  <2>2. n =< ref[val[d]] /\ ref[val[d]] \in Nat
    BY <1>1, <1>2, <1>6 DEF IndInv, CountInv, Pointers
  <2> QED
    BY <2>1, <2>2
<1> QED
  BY <1>1, <1>2, <1>3, <1>4, <1>5, <1>6, Sizes DEF IndInv, WalkInv, Loc

LEMMA NewInv ==
  ASSUME IndInv, NEW d \in Assignable, NEW k \in {"adt", "array"}, NEW c \in Cell, New(d, k, c)
  PROVE  IndInv'
<1> DEFINE t == [ref EXCEPT ![c] = 1]
<1>1. status[c] = "free"
  BY DEF New, Alloc
<1>2. /\ val \in Values /\ Live \subseteq Cell /\ ref \in [Cell -> Nat]
      /\ color \in [Cell -> 0..3] /\ mutator \in 0..2
  BY Types DEF IndInv, TypeOK
<1>3. val' = [val EXCEPT ![d] = c] /\ val' \in Values
  BY <1>2 DEF New, Values
<1>4. t = Taken(NoBlock, Taken(NoBlock, t))
  BY DEF Taken
<1>5. Killed(val[d], ref, [status EXCEPT ![c] = "used"])
        = Killed(val[d], t, [status EXCEPT ![c] = "used"])
  BY <1>1, <1>2, Before DEF Killed
<1>6. kind' = [kind EXCEPT ![c] = k] /\ k \in Kind
  BY DEF New, Alloc, Kind
<1>7. color' \in [Cell -> 0..3] /\ color'[c] = mutator /\ \A x \in Cell : x = c \/ color'[x] = color[x]
  BY <1>2 DEF New
<1>8. nprop' \in BOOLEAN /\ (nprop => nprop')
  BY DEF New, IndInv, TypeOK
<1>9. Makes(d, c, k, NoBlock, NoBlock, t)
  BY <1>1, <1>2, <1>3, <1>4, <1>5, <1>6, <1>7, <1>8, Before DEF New, Makes, Values
<1> QED
  BY <1>9, MakesInv

(* A count that goes up and down again. *)
LEMMA TakenDropped ==
  ASSUME NEW s \in [Cell -> Nat], NEW u \in Cell \cup {NoBlock}
  PROVE  Dropped(u, Taken(u, s)) = s
<1>1. CASE u = NoBlock
  BY <1>1 DEF Dropped, Taken
<1>2. CASE u # NoBlock
  <2> DEFINE t == [s EXCEPT ![u] = s[u] + 1]
             q == [t EXCEPT ![u] = t[u] - 1]
  <2>1. Taken(u, s) = t /\ Dropped(u, t) = q
    BY <1>2 DEF Taken, Dropped
  <2>2. /\ u \in Cell /\ t \in [Cell -> Nat] /\ t[u] - 1 = s[u]
        /\ \A x \in Cell : x # u => t[x] = s[x]
    BY <1>2
  <2> HIDE DEF t
  <2>3. q \in [Cell -> Nat] /\ \A x \in Cell : q[x] = s[x]
    BY <2>2
  <2> HIDE DEF q
  <2>4. q = s
    BY <2>3
  <2> QED
    BY <2>1, <2>4
<1> QED
  BY <1>1, <1>2

LEMMA ConspInv ==
  ASSUME IndInv, NEW d \in Assignable, NEW v \in {val[l] : l \in Operand} \cup {NoBlock},
         NEW c \in Cell, Consp(d, v, c)
  PROVE  IndInv'
<1> DEFINE s == Taken(v, [ref EXCEPT ![c] = 1])
           t == Taken(val[d], s)
<1>1. status[c] = "free"
  BY DEF Consp, Alloc
<1>2. /\ val \in Values /\ Live \subseteq Cell /\ ref \in [Cell -> Nat]
      /\ color \in [Cell -> 0..3] /\ mutator \in 0..2 /\ status \in [Cell -> {"free", "used", "dying"}]
  BY Types DEF IndInv, TypeOK
<1>3. v \in Live \cup {NoBlock} /\ val[d] \in Live \cup {NoBlock}
  BY <1>1, Operands, Before
<1>4. /\ val' \in Values /\ val'[d] = c /\ val'[<<c, "data">>] = v /\ val'[<<c, "link">>] = val[d]
      /\ \A l \in Loc : l \in {d, <<c, "data">>, <<c, "link">>} \/ val'[l] = val[l]
  <2>1. val' = [val EXCEPT ![d] = c, ![<<c, "data">>] = v, ![<<c, "link">>] = val[d]]
    BY DEF Consp
  <2> QED
    BY <1>1, <1>2, <1>3, <2>1, Before DEF Values
<1>5. s \in [Cell -> Nat] /\ \A x \in Cell : x # c => s[x] >= ref[x]
  BY <1>2, <1>3, Sizes DEF Taken
<1>6. ref' = Dropped(val[d], t) /\ status' = Killed(val[d], t, [status EXCEPT ![c] = "used"])
  <2>1. ref' = s /\ status' = [status EXCEPT ![c] = "used"]
    BY DEF Consp
  <2> HIDE DEF s
  <2>2. CASE val[d] = NoBlock
    BY <2>1, <2>2 DEF Dropped, Killed, Taken
  <2>3. CASE val[d] # NoBlock
    <3>0. val[d] \in Cell /\ val[d] # c /\ ref[val[d]] >= 1
      BY <1>1, <2>3, Before
    <3>1. val[d] \in Cell /\ s[val[d]] \in Nat /\ s[val[d]] >= 1
      <4>1. s[val[d]] \in Nat /\ ref[val[d]] \in Nat /\ s[val[d]] >= ref[val[d]]
        BY <1>2, <1>5, <3>0
      <4> QED
        BY <3>0, <4>1
    <3>2. t = [s EXCEPT ![val[d]] = s[val[d]] + 1]
      BY <2>3 DEF Taken
    <3>3. Dropped(val[d], t) = s
      BY <1>5, <3>1, TakenDropped
    <3>4. t[val[d]] # 1
      BY <1>5, <3>1, <3>2
    <3> QED
      BY <2>1, <3>3, <3>4 DEF Killed
  <2> QED
    BY <2>2, <2>3
<1>7. kind' = [kind EXCEPT ![c] = "list"] /\ "list" \in Kind
  BY DEF Consp, Alloc, Kind
<1> DEFINE col == [color EXCEPT ![c] = mutator]
<1>8. col \in [Cell -> 0..3] /\ col[c] = mutator
  BY <1>2
<1>9. color' = Marked({val[d], v}, col) /\ nprop' = (nprop \/ SetsNprop({val[d], v}, col))
  <2>1. SetsNprop({val[d], v}, color) = SetsNprop({val[d], v}, col)
    BY <1>1, <1>2, <1>3, Before DEF SetsNprop
  <2> QED
    BY <2>1 DEF Consp
<1>10. /\ color' \in [Cell -> 0..3] /\ color'[c] = mutator
       /\ \A x \in Cell : x = c \/ color'[x] = color[x] \/ (color'[x] = propagator /\ nprop')
       /\ v # NoBlock => color'[v] \in {mutator, propagator}
       /\ val[d] # NoBlock => color'[val[d]] \in {mutator, propagator}
  <2>1. SetsNprop({val[d], v}, col) => nprop'
    BY <1>9
  <2>2. c \notin {val[d], v}
    BY <1>1, <1>3, Before
  <2> HIDE DEF col
  <2>3. \A x \in Cell : x # c => col[x] = color[x]
    BY <1>2 DEF col
  <2>4. /\ color' \in [Cell -> 0..3]
        /\ \A x \in Cell : x \in {val[d], v} => color'[x] \in {mutator, propagator}
        /\ \A x \in Cell : color'[x] # col[x] =>
             x \in {val[d], v} /\ color'[x] = propagator /\ nprop'
    <3> DEFINE B == {val[d], v}
    <3>1. color' = Marked(B, col) /\ TypeOK /\ (SetsNprop(B, col) => nprop')
      BY <1>9, <2>1 DEF IndInv
    <3> HIDE DEF B
    <3>2. /\ color' \in [Cell -> 0..3]
          /\ \A x \in Cell : x \in B => color'[x] \in {mutator, propagator}
          /\ \A x \in Cell : color'[x] # col[x] => x \in B /\ color'[x] = propagator /\ nprop'
      BY <1>8, <3>1, Marks
    <3> QED
      BY <3>2 DEF B
  <2>5. v \in Cell \cup {NoBlock} /\ val[d] \in Cell \cup {NoBlock}
    BY <1>2, <1>3
  <2>6. color'[c] = mutator
    BY <1>8, <2>2, <2>4
  <2> QED
    BY <2>3, <2>4, <2>5, <2>6
<1>11. nprop' \in BOOLEAN /\ (nprop => nprop')
  BY DEF Consp, IndInv, TypeOK, SetsNprop
<1>12. Makes(d, c, "list", v, val[d], t)
  <2> HIDE DEF s, t, col
  <2>1. t = Taken(val[d], Taken(v, [ref EXCEPT ![c] = 1]))
    BY DEF s, t
  <2> QED
    BY <1>1, <1>3, <1>4, <1>6, <1>7, <1>10, <1>11, <2>1 DEF Consp, Makes
<1> QED
  BY <1>12, MakesInv

LEMMA SliceOfSliceInv ==
  ASSUME IndInv, NEW d \in Assignable, NEW c \in Cell, SliceOfSlice(d, c)
  PROVE  IndInv'
<1> DEFINE root == val[<<val[d], "link">>]
           t    == Taken(root, [ref EXCEPT ![c] = 1])
           col  == [color EXCEPT ![c] = mutator]
<1>1. /\ status[c] = "free" /\ kind' = [kind EXCEPT ![c] = "array"] /\ "array" \in Kind
      /\ val[d] # NoBlock /\ kind[val[d]] = "array" /\ root # NoBlock
  BY DEF SliceOfSlice, Alloc, Kind
<1>2. /\ val \in Values /\ Live \subseteq Cell /\ ref \in [Cell -> Nat]
      /\ color \in [Cell -> 0..3] /\ mutator \in 0..2
      /\ \A x \in Live, f \in Field : <<x, f>> \in Counting(val, Dying)
      /\ \A l \in Counting(val, Dying) : val[l] # NoBlock => val[l] \in Live
  BY Types DEF IndInv, TypeOK
<1>3. val[d] \in Live /\ val[d] # c /\ val[d] \in Cell
  BY <1>1, Before
<1>4. root \in Live /\ kind[root] = "array" /\ val[<<root, "link">>] = NoBlock
  BY <1>1, <1>2, <1>3 DEF IndInv, SliceInv, Field
<1>5. root \in Cell /\ root # c
  BY <1>1, <1>2, <1>4, Before
<1>6. val' = [val EXCEPT ![d] = c, ![<<c, "link">>] = root]
  BY DEF SliceOfSlice
<1>7. /\ val' \in Values /\ val'[d] = c /\ val'[<<c, "data">>] = NoBlock /\ val'[<<c, "link">>] = root
      /\ \A l \in Loc : l \in {d, <<c, "data">>, <<c, "link">>} \/ val'[l] = val[l]
  <2>1. /\ val[<<c, "data">>] = NoBlock
        /\ d \in Loc /\ d # <<c, "data">> /\ d # <<c, "link">>
        /\ <<c, "data">> \in Loc /\ <<c, "link">> \in Loc
    BY <1>1, Before
  <2> HIDE DEF root
  <2> QED
    BY <1>2, <1>5, <1>6, <2>1 DEF Values
<1>8. /\ ref' = Dropped(val[d], t)
      /\ status' = Killed(val[d], t, [status EXCEPT ![c] = "used"])
  <2>1. /\ ref' = Dropped(val[d], t)
        /\ status' = Killed(val[d], Taken(root, ref), [status EXCEPT ![c] = "used"])
    BY DEF SliceOfSlice
  <2>2. Taken(root, ref)[val[d]] = t[val[d]]
    <3> HIDE DEF root
    <3> QED
      BY <1>2, <1>3, <1>5 DEF Taken
  <2> QED
    BY <2>1, <2>2 DEF Killed
<1>9. /\ color' = Marked({root}, col) /\ nprop' = (nprop \/ SetsNprop({root}, col))
      /\ SetsNprop({root}, col) => nprop'
  <2>1. SetsNprop({root}, color) = SetsNprop({root}, col)
    <3> HIDE DEF root
    <3> QED
      BY <1>2, <1>5 DEF SetsNprop
  <2>2. color' = Marked({root}, col) /\ nprop' = (nprop \/ SetsNprop({root}, color))
    BY DEF SliceOfSlice
  <2> QED
    BY <2>1, <2>2
<1>10. /\ color' \in [Cell -> 0..3] /\ color'[c] = mutator
       /\ \A x \in Cell : x = c \/ color'[x] = color[x] \/ (color'[x] = propagator /\ nprop')
       /\ color'[root] \in {mutator, propagator}
  <2>1. col \in [Cell -> 0..3] /\ col[c] = mutator /\ \A x \in Cell : x # c => col[x] = color[x]
    BY <1>2
  <2> HIDE DEF col, root
  <2> QED
    BY <1>5, <1>9, <2>1, Marks DEF IndInv
<1>11. nprop' \in BOOLEAN /\ (nprop => nprop')
  BY DEF SliceOfSlice, IndInv, TypeOK, SetsNprop
<1>12. Makes(d, c, "array", NoBlock, root, t)
  <2>1. t = Taken(root, Taken(NoBlock, [ref EXCEPT ![c] = 1]))
    BY DEF Taken
  <2> HIDE DEF root, t, col
  <2> QED
    BY <1>1, <1>4, <1>7, <1>8, <1>10, <1>11, <2>1 DEF SliceOfSlice, Makes
<1> QED
  BY <1>12, MakesInv

LEMMA SliceOfArrayInv ==
  ASSUME IndInv, SliceInHeap = FALSE, NEW d \in Assignable, NEW c \in Cell, SliceOfArray(d, c)
  PROVE  IndInv'
<1> DEFINE s == [ref EXCEPT ![c] = 1]
           t == Taken(val[d], s)
<1>1. /\ status[c] = "free" /\ kind' = [kind EXCEPT ![c] = "array"] /\ "array" \in Kind
      /\ val[d] # NoBlock /\ kind[val[d]] = "array" /\ val[<<val[d], "link">>] = NoBlock
      /\ d \in Slot
  BY DEF SliceOfArray, Alloc, Kind
<1>2. /\ val \in Values /\ Live \subseteq Cell /\ ref \in [Cell -> Nat]
      /\ color \in [Cell -> 0..3] /\ mutator \in 0..2
  BY Types DEF IndInv, TypeOK
<1>3. val[d] \in Live /\ val[d] # c /\ val[d] \in Cell /\ ref[val[d]] >= 1
  BY <1>1, Before
<1>4. val' = [val EXCEPT ![d] = c, ![<<c, "link">>] = val[d]]
  BY DEF SliceOfArray
<1>5. /\ val' \in Values /\ val'[d] = c /\ val'[<<c, "data">>] = NoBlock /\ val'[<<c, "link">>] = val[d]
      /\ \A l \in Loc : l \in {d, <<c, "data">>, <<c, "link">>} \/ val'[l] = val[l]
  <2>1. /\ val[<<c, "data">>] = NoBlock
        /\ d \in Loc /\ d # <<c, "data">> /\ d # <<c, "link">>
        /\ <<c, "data">> \in Loc /\ <<c, "link">> \in Loc
    BY <1>1, Before
  <2> QED
    BY <1>2, <1>3, <1>4, <2>1 DEF Values
<1>6. ref' = Dropped(val[d], t) /\ status' = Killed(val[d], t, [status EXCEPT ![c] = "used"])
  <2>1. ref' = s /\ status' = [status EXCEPT ![c] = "used"]
    BY DEF SliceOfArray
  <2>2. s \in [Cell -> Nat] /\ s[val[d]] = ref[val[d]]
    BY <1>2, <1>3
  <2> HIDE DEF s
  <2>3. Dropped(val[d], t) = s
    BY <1>3, <2>2, TakenDropped
  <2>4. t[val[d]] # 1
    BY <1>1, <1>2, <1>3, <2>2 DEF Taken
  <2> QED
    BY <2>1, <2>3, <2>4 DEF Killed
<1>7. /\ color' \in [Cell -> 0..3] /\ color'[c] = mutator
      /\ \A x \in Cell : x = c \/ color'[x] = color[x]
  BY <1>2 DEF SliceOfArray
<1>8. color'[val[d]] \in {mutator, propagator}
  <2>1. Seen(val[d])
    BY <1>1 DEF IndInv, ColorInv, Roots, Held
  <2> QED
    BY <1>3, <1>7, <2>1 DEF Seen
<1>9. nprop' \in BOOLEAN /\ (nprop => nprop')
  BY DEF SliceOfArray, IndInv, TypeOK
<1>10. Makes(d, c, "array", NoBlock, val[d], t)
  <2>1. t = Taken(val[d], Taken(NoBlock, [ref EXCEPT ![c] = 1]))
    BY DEF Taken
  <2> HIDE DEF s, t
  <2> QED
    BY <1>1, <1>3, <1>5, <1>6, <1>7, <1>8, <1>9, <2>1 DEF SliceOfArray, Makes
<1> QED
  BY <1>10, MakesInv

-----------------------------------------------------------------------------
(* Destroying. *)

LEMMA FreePtrInv ==
  ASSUME IndInv, NEW c \in Cell, NEW f \in Field, FreePtr(c, f)
  PROVE  IndInv'
<1> DEFINE d == <<c, f>>
<1>1. c \in Dying /\ val[d] # NoBlock /\ visit = 0
  <2>1. c \in Dying /\ val[d] # NoBlock
    BY DEF FreePtr, Dying
  <2> QED
    BY <2>1 DEF IndInv, TypeOK, WalkInv
<1>2. /\ val \in Values /\ Live \subseteq Cell /\ Dying \subseteq Cell
      /\ ref \in [Cell -> Nat] /\ color \in [Cell -> 0..3] /\ kind \in [Cell -> Kind]
      /\ status \in [Cell -> {"free", "used", "dying"}] /\ nprop \in BOOLEAN
      /\ d \in Counting(val, Dying) /\ d \in Loc
      /\ val[d] \in Live
  BY <1>1, Types DEF IndInv, TypeOK
<1>3. c \notin Live
  BY <1>1 DEF IndInv, CountInv, Used, Dying
<1>4. val' = [val EXCEPT ![d] = NoBlock] /\ val' \in Values /\ val'[d] = NoBlock
  BY <1>2 DEF FreePtr, Values
<1>5. NoBlock \notin Live
  BY <1>2, Sizes
<1>6. Assigns({}, {d}, d, ref)
  <2>1. ASSUME NEW x \in Live
        PROVE  /\ IsFiniteSet({l \in {d} : val'[l] = x})
               /\ Cardinality({l \in {d} : val'[l] = x}) + ref[x] =< ref[x]
    <3>1. {l \in {d} : val'[l] = x} = {}
      BY <1>4, <1>5
    <3>2. ref[x] \in Nat
      BY <1>2
    <3> QED
      BY <3>1, <3>2, FS_EmptySet
  <2>2. /\ status' \in [Cell -> {"free", "used", "dying"}]
        /\ \A x \in Cell : status'[x] = IF x = val[d] /\ ref[x] = 1 THEN "dying" ELSE status[x]
    <3>1. status' = IF val[d] # NoBlock /\ ref[val[d]] = 1
                      THEN [status EXCEPT ![val[d]] = "dying"] ELSE status
      BY DEF FreePtr, Killed
    <3>2. val[d] \in Cell
      BY <1>2
    <3> QED
      BY <1>2, <3>1, <3>2, Sizes
  <2>3. ref' = Dropped(val[d], ref)
    BY DEF FreePtr
  <2> QED
    BY <1>2, <1>4, <2>1, <2>2, <2>3 DEF Assigns
<1>7. Paints({}, {d}, d)
  <2>1. \A x \in Live : /\ <<x, "link">> \notin {d}
                        /\ <<x, "data">> \notin {d}
    BY <1>3
  <2>2. /\ kind' = kind /\ color' = color /\ nprop' = nprop
        /\ mutator' = mutator /\ ptr' = ptr /\ prev' = prev /\ visit' = visit
    BY DEF FreePtr
  <2>3. /\ \A l \in {d} : l = d \/ l \in {} \X Field
        /\ \A l \in {d} : val'[l] # NoBlock => color'[val'[l]] \in {mutator, propagator}
    BY <1>4
  <2> QED
    BY <1>1, <1>2, <2>1, <2>2, <2>3 DEF Paints
<1> QED
  BY <1>6, <1>7, AssignsKeeps

(* Fewer pointers and blocks. *)
Dwindles ==
  /\ val' \in Values /\ \A l \in Counting(val, Dying) : val'[l] \in {val[l], NoBlock}
  /\ Dying' \subseteq Dying
  /\ \A c \in Live \cup Dying' : status'[c] = status[c] /\ ref'[c] = ref[c] /\ kind'[c] = kind[c]
  /\ \A c \in Live, f \in Field : val'[<<c, f>>] = val[<<c, f>>]
  /\ \A l \in Slot : val'[l] = val[l]

LEMMA DwindlesKeeps ==
  ASSUME TypeOK, CountInv, SliceInv, Dwindles
  PROVE  /\ Live' \subseteq Live /\ CountInv' /\ SliceInv' /\ Roots' = Roots
<1> USE DEF Dwindles
<1>1. /\ val \in Values /\ Dying \in SUBSET Cell /\ Live \subseteq Cell
      /\ Live = From(val, Dying) /\ Dying' \in SUBSET Cell
      /\ \A c \in Live \cup Dying, f \in Field : <<c, f>> \in Counting(val, Dying)
      /\ \A l \in Counting(val, Dying) : val[l] # NoBlock => val[l] \in Live
      /\ ref \in [Cell -> Nat]
  BY Types DEF Live, TypeOK
<1>2. Live' = From(val', Dying') /\ \A x : Pointers(x)' = Pointing(val', Dying', x)
  BY DEF Live, Pointers
<1>3. /\ From(val', Dying') \subseteq From(val, Dying)
      /\ \A x \in Cell : Pointing(val', Dying', x) \subseteq Pointing(val, Dying, x)
  BY <1>1, Shrinks
<1>4. Live' \subseteq Live
  BY <1>1, <1>2, <1>3
<1>5. ASSUME NEW x \in Live' \cup Dying'
      PROVE  Cardinality(Pointers(x)') =< ref'[x]
  <2>1. x \in Live \cup Dying /\ x \in Cell /\ ref'[x] = ref[x]
    BY <1>1, <1>4
  <2>2. IsFiniteSet(Pointing(val, Dying, x)) /\ Cardinality(Pointing(val, Dying, x)) \in Nat
    BY <1>1, PointersFinite
  <2>3. /\ IsFiniteSet(Pointing(val', Dying', x))
        /\ Cardinality(Pointing(val', Dying', x)) =< Cardinality(Pointing(val, Dying, x))
    BY <1>3, <2>1, <2>2, FS_Subset
  <2>4. Cardinality(Pointing(val', Dying', x)) \in Nat
    BY <2>3, FS_CardinalityType
  <2>5. Cardinality(Pointing(val, Dying, x)) =< ref[x] /\ ref[x] \in Nat
    BY <1>1, <2>1 DEF CountInv, Pointers
  <2> QED
    BY <1>2, <2>1, <2>2, <2>3, <2>4, <2>5
<1>6. CountInv'
  <2>1. (\A x \in Live \cup Dying : Cardinality(Pointers(x)) =< ref[x])'
    BY <1>5
  <2>2. \A c \in Dying' : ref'[c] = 0
    BY DEF CountInv
  <2>3. \A c \in Live' : Used(c)'
    BY <1>4 DEF CountInv, Used
  <2> QED
    BY <2>1, <2>2, <2>3 DEF CountInv
<1>7. SliceInv'
  <2> SUFFICES ASSUME NEW c \in Live', kind'[c] = "array", val'[<<c, "link">>] # NoBlock
               PROVE  /\ val'[<<c, "data">>] = NoBlock
                      /\ kind'[val'[<<c, "link">>]] = "array"
                      /\ val'[<<val'[<<c, "link">>], "link">>] = NoBlock
    BY DEF SliceInv
  <2>1. "data" \in Field /\ "link" \in Field
    BY DEF Field
  <2>2. c \in Live /\ kind[c] = "array" /\ val'[<<c, "link">>] = val[<<c, "link">>]
        /\ val'[<<c, "data">>] = val[<<c, "data">>]
    BY <1>4, <2>1
  <2>3. val[<<c, "link">>] \in Live
    BY <1>1, <2>1, <2>2
  <2>4. val[<<c, "data">>] = NoBlock /\ kind[val[<<c, "link">>]] = "array"
        /\ val[<<val[<<c, "link">>], "link">>] = NoBlock
    BY <2>2 DEF SliceInv
  <2> QED
    BY <2>1, <2>2, <2>3, <2>4
<1>8. Roots' = Roots
  BY DEF Roots, Held
<1> QED
  BY <1>4, <1>6, <1>7, <1>8

LEMMA FreeBlockInv ==
  ASSUME IndInv, NEW c \in Cell, FreeBlock(c)
  PROVE  IndInv'
<1>1. c \in Dying /\ c \notin Live /\ visit = 0
  <2>1. c \in Dying
    BY DEF FreeBlock, Dying
  <2> QED
    BY <2>1 DEF IndInv, TypeOK, WalkInv, CountInv, Used, Dying
<1>2. /\ status' = [status EXCEPT ![c] = "free"] /\ kind' = [kind EXCEPT ![c] = "adt"]
      /\ color' = [color EXCEPT ![c] = 0] /\ ref' = [ref EXCEPT ![c] = 0]
      /\ val' = val /\ mutator' = mutator /\ nprop' = nprop
      /\ ptr' = ptr /\ prev' = prev /\ visit' = visit
  BY DEF FreeBlock, Forget
<1>3. TypeOK'
  BY <1>2 DEF IndInv, TypeOK, Kind
<1>4. /\ val \in Values /\ Live \subseteq Cell /\ Dying \subseteq Cell
      /\ status \in [Cell -> {"free", "used", "dying"}] /\ kind \in [Cell -> Kind]
      /\ color \in [Cell -> 0..3] /\ ref \in [Cell -> Nat]
      /\ \A l \in Counting(val, Dying) : val[l] # NoBlock => val[l] \in Live
      /\ \A x \in Live, f \in Field : <<x, f>> \in Counting(val, Dying)
      /\ \A l \in Slot : l \in Counting(val, Dying)
  BY Types DEF IndInv, TypeOK
<1>5. Dying' \subseteq Dying /\ c \notin Dying'
  BY <1>2, <1>4 DEF Dying
<1>6. \A x \in Cell : x # c => /\ status'[x] = status[x] /\ kind'[x] = kind[x]
                               /\ color'[x] = color[x] /\ ref'[x] = ref[x]
  BY <1>2, <1>4
<1>7. Dwindles
  BY <1>1, <1>2, <1>4, <1>5, <1>6 DEF Dwindles
<1>8. Live' \subseteq Live /\ CountInv' /\ SliceInv' /\ Roots' = Roots
  BY <1>7, DwindlesKeeps DEF IndInv
<1>9. ColorInv'
  <2>1. \A x \in Roots : x \in Live
    BY <1>4 DEF Roots, Held
  <2>2. \A x \in Roots' : color'[x] \in {mutator, propagator}
    BY <1>1, <1>2, <1>4, <1>6, <1>8, <2>1 DEF IndInv, ColorInv, Seen
  <2>3. ASSUME NEW x \in Live'
        PROVE  /\ color'[x] # sweeper
               /\ color'[x] = mutator =>
                    \A f \in Field : val[<<x, f>>] # NoBlock =>
                      color'[val[<<x, f>>]] \in {mutator, propagator}
    <3>1. x \in Live /\ x # c /\ x \in Cell /\ color'[x] = color[x] /\ color[x] # sweeper
      BY <1>1, <1>4, <1>6, <1>8 DEF IndInv, ColorInv
    <3>2. ASSUME color[x] = mutator, NEW f \in Field, val[<<x, f>>] # NoBlock
          PROVE  color'[val[<<x, f>>]] \in {mutator, propagator}
      <4>1. val[<<x, f>>] \in Live /\ Seen(val[<<x, f>>])
        BY <1>4, <3>1, <3>2 DEF IndInv, ColorInv
      <4> QED
        BY <1>1, <1>4, <1>6, <4>1 DEF Seen
    <3> QED
      BY <3>1, <3>2
  <2> QED
    BY <1>2, <2>2, <2>3 DEF ColorInv, Seen, sweeper
<1>10. PassInv'
  <2>1. ASSUME NEW x \in Cell, Used(x)'
        PROVE  x # c /\ Used(x)
    BY <1>2, <1>4, <1>6, <2>1 DEF Used
  <2> QED
    BY <1>2, <1>6, <2>1 DEF IndInv, PassInv, sweeper
<1>11. WalkInv'
  <2>1. \A f \in Field : val[<<c, f>>] = NoBlock
    BY DEF FreeBlock
  <2>2. \A x \in Cell, f \in Field : status'[x] = "free" => val'[<<x, f>>] = NoBlock
    BY <1>2, <1>6, <2>1 DEF IndInv, WalkInv
  <2> QED
    BY <1>1, <1>2, <2>2 DEF IndInv, WalkInv
<1> QED
  BY <1>3, <1>8, <1>9, <1>10, <1>11 DEF IndInv

-----------------------------------------------------------------------------
(* rungc. *)

LEMMA SameHeap ==
  ASSUME TypeOK, CountInv, SliceInv, UNCHANGED <<status, kind, ref, val>>
  PROVE  /\ Live' = Live /\ Dying' = Dying /\ Roots' = Roots
         /\ CountInv' /\ SliceInv'
<1>1. Dying' = Dying /\ status' = status /\ kind' = kind /\ ref' = ref /\ val' = val
  BY DEF Dying
<1>2. Live' = Live /\ \A c : Pointers(c)' = Pointers(c)
  BY <1>1 DEF Live, Pointers
<1>3. Roots' = Roots
  BY <1>1 DEF Roots, Held
<1>4. \A c \in Live' \cup Dying' : Cardinality(Pointers(c)') =< ref'[c]
  BY <1>1, <1>2 DEF CountInv
<1>5. (\A c \in Live \cup Dying : Cardinality(Pointers(c)) =< ref[c])'
  BY <1>4
<1>6. \A c \in Live' : Used(c)'
  BY <1>1, <1>2 DEF CountInv, Used
<1>7. CountInv'
  BY <1>1, <1>5, <1>6 DEF CountInv
<1>8. SliceInv'
  BY <1>1, <1>2 DEF SliceInv
<1> QED
  BY <1>1, <1>2, <1>3, <1>7, <1>8

LEMMA SameColors ==
  ASSUME IndInv, UNCHANGED <<status, kind, ref, val, color, mutator, nprop>>,
         ptr' \in 0..N, \A c \in Cell : c < ptr' => c < ptr,
         prev' \in 0..N, visit' \in 0..Quanta, prev' =< ptr',
         visit' > 0 => ptr' > 0 /\ Dying = {}, visit' = 0 => prev' = 0
  PROVE  IndInv'
<1>1. Live' = Live /\ Dying' = Dying /\ Roots' = Roots /\ CountInv' /\ SliceInv'
  BY SameHeap DEF IndInv
<1>2. TypeOK'
  BY DEF IndInv, TypeOK
<1>3. ColorInv'
  BY <1>1 DEF IndInv, ColorInv, Seen, sweeper
<1>4. PassInv'
  BY DEF IndInv, PassInv, Used, sweeper
<1>5. WalkInv'
  BY <1>1 DEF IndInv, WalkInv
<1> QED
  BY <1>1, <1>2, <1>3, <1>4, <1>5 DEF IndInv

LEMMA RungcInv ==
  ASSUME IndInv, Rungc
  PROVE  IndInv'
<1>1. /\ UNCHANGED <<status, kind, ref, val, color, mutator, nprop>>
      /\ visit' = Quanta /\ prev' = 0 /\ ptr' = IF ptr = 0 THEN 1 ELSE ptr
      /\ Dying = {}
  BY DEF Rungc, Running, Dying
<1>2. ptr \in 0..N /\ N \in Nat \ {0} /\ Quanta \in Nat \ {0}
  BY SizesAssumption DEF IndInv, TypeOK
<1>3. \A c \in Cell : c < ptr' => c < ptr
  BY <1>1, <1>2 DEF Cell
<1> QED
  BY <1>1, <1>2, <1>3, SameColors

LEMMA ChainBrokenInv ==
  ASSUME IndInv, ChainBroken
  PROVE  IndInv'
<1>1. /\ UNCHANGED <<status, kind, ref, val, color, mutator, nprop>>
      /\ visit' = 0 /\ prev' = prev /\ ptr' = 0 /\ visit = 0
  BY DEF ChainBroken, Running
<1>2. prev' = 0 /\ N \in Nat \ {0} /\ Quanta \in Nat \ {0}
  BY <1>1, SizesAssumption DEF IndInv, WalkInv
<1>3. \A c \in Cell : c < ptr' => c < ptr
  BY <1>1 DEF Cell
<1> QED
  BY <1>1, <1>2, <1>3, SameColors

(* What a visit to block ptr does to the colours. *)
Visits(v, col, np) ==
  /\ UNCHANGED <<status, kind, ref, val>> /\ visit > 0
  /\ v \in Int /\ v =< Quanta
  /\ col \in [Cell -> 0..3] /\ np \in BOOLEAN /\ (nprop => np)
  /\ \A x \in Cell : \/ col[x] = color[x]
                     \/ col[x] = propagator /\ np
                     \/ x = ptr /\ color[x] = propagator /\ col[x] = mutator
  /\ ptr \in Live /\ col[ptr] = mutator =>
       \A f \in Field : val[<<ptr, f>>] # NoBlock =>
         col[val[<<ptr, f>>]] \in {mutator, propagator}
  /\ Used(ptr) => col[ptr] # sweeper /\ (col[ptr] = propagator => np)

LEMMA Visited ==
  ASSUME IndInv, NEW v, NEW col, NEW np, Visits(v, col, np)
  PROVE  /\ ptr \in Cell /\ mutator # sweeper /\ propagator # sweeper /\ mutator # propagator
         /\ \A x \in Roots : x \in Live /\ col[x] \in {mutator, propagator}
         /\ \A x \in Live : col[x] # sweeper
         /\ \A x \in Live : col[x] = mutator =>
              \A f \in Field : val[<<x, f>>] # NoBlock =>
                val[<<x, f>>] \in Live /\ col[val[<<x, f>>]] \in {mutator, propagator}
         /\ \A x \in Cell : Used(x) /\ x =< ptr =>
              col[x] # sweeper /\ (col[x] = propagator => np)
<1> USE DEF Visits
<1>1. /\ Live \subseteq Cell
      /\ \A l \in Counting(val, Dying) : val[l] # NoBlock => val[l] \in Live
      /\ \A l \in Slot : l \in Counting(val, Dying)
      /\ \A c \in Live, f \in Field : <<c, f>> \in Counting(val, Dying)
  BY Types DEF IndInv
<1>2. ptr \in Cell /\ mutator # sweeper /\ propagator # sweeper /\ mutator # propagator
  <2>1. ptr \in 0..N /\ ptr > 0
    BY DEF IndInv, TypeOK, WalkInv
  <2> QED
    BY <2>1, Colors, SizesAssumption DEF IndInv, TypeOK, Cell
<1>3. \A x \in Cell : color[x] \in {mutator, propagator} => col[x] \in {mutator, propagator}
  OBVIOUS
<1>4. \A x \in Roots : x \in Live /\ col[x] \in {mutator, propagator}
  BY <1>1, <1>3 DEF IndInv, ColorInv, Seen, Roots, Held
<1>5. \A x \in Live : col[x] # sweeper
  BY <1>1, <1>2 DEF IndInv, ColorInv
<1>6. ASSUME NEW x \in Live, col[x] = mutator, NEW f \in Field, val[<<x, f>>] # NoBlock
      PROVE  val[<<x, f>>] \in Live /\ col[val[<<x, f>>]] \in {mutator, propagator}
  <2>1. val[<<x, f>>] \in Live
    BY <1>1, <1>6
  <2>2. CASE x = ptr
    BY <1>6, <2>1, <2>2
  <2>3. CASE x # ptr
    <3>1. color[x] = mutator
      BY <1>1, <1>2, <1>6, <2>3
    <3>2. Seen(val[<<x, f>>])
      BY <1>6, <3>1 DEF IndInv, ColorInv
    <3> QED
      BY <1>1, <1>3, <2>1, <3>2 DEF Seen
  <2> QED
    BY <2>2, <2>3
<1>7. ASSUME NEW x \in Cell, Used(x), x =< ptr
      PROVE  col[x] # sweeper /\ (col[x] = propagator => np)
  <2>1. CASE x = ptr
    BY <1>7, <2>1
  <2>2. CASE x # ptr
    <3>1. x < ptr
      BY <1>2, <1>7, <2>2 DEF Cell
    <3>2. color[x] # sweeper /\ (color[x] = propagator => nprop)
      BY <1>7, <3>1 DEF IndInv, PassInv
    <3> QED
      BY <1>2, <2>2, <3>2
  <2> QED
    BY <2>1, <2>2
<1> QED
  BY <1>2, <1>4, <1>5, <1>6, <1>7

(* After a pass in which nothing was marked, all that is live has been     *)
(* scanned: the scanned blocks hold what the slots hold, and are closed    *)
(* under the pointers in them.                                             *)
LEMMA AllScanned ==
  ASSUME IndInv, NEW v, NEW col, NEW np, Visits(v, col, np), ptr = N, ~np
  PROVE  /\ \A x \in Cell : Used(x) => col[x] # sweeper /\ col[x] # propagator
         /\ \A x \in Live : col[x] = mutator
<1> DEFINE S == {x \in Live : col[x] = mutator}
<1>1. \A x \in Cell : Used(x) => col[x] # sweeper /\ col[x] # propagator
  <2>1. \A x \in Cell : x =< ptr
    BY SizesAssumption DEF Cell
  <2> QED
    BY <2>1, Visited
<1>2. \A x \in Live : col[x] # propagator
  BY <1>1, Types DEF IndInv, CountInv
<1>3. /\ \A x \in Roots : x \in S
      /\ \A x \in S, f \in Field : val[<<x, f>>] # NoBlock => val[<<x, f>>] \in S
  BY <1>2, Visited
<1>4. Dying = {} /\ val \in Values /\ S \in SUBSET Cell
  BY Types DEF IndInv, WalkInv, Visits
<1>5. ClosedFrom(val, Dying, S)
  BY <1>3, <1>4 DEF ClosedFrom, Roots, Held
<1>6. Live \subseteq S
  BY <1>4, <1>5, Least DEF Live
<1> QED
  BY <1>1, <1>6

(* What holds of the colours when an epoch ends. *)
Clean ==
  \A c \in Cell : status'[c] = "used" =>
    /\ color'[c] # mutator'
    /\ color'[c] = propagator => c \in Roots
    /\ color'[c] = sweeper' => c \notin Live

LEMMA EpochEnd ==
  ASSUME IndInv, NEW v, NEW col, NEW np, Visits(v, col, np), Advance(v, col, np),
         ptr = N, ~np
  PROVE  /\ mutator' = sweeper /\ sweeper' = marker
         /\ color' \in [Cell -> 0..3] /\ nprop' \in BOOLEAN
         /\ \A x \in Live : color'[x] \in {mutator, propagator}
         /\ \A x \in Roots : color'[x] = propagator
         /\ Clean
<1>1. /\ mutator' = (mutator + 1) % 3
      /\ color' = [c \in Cell |-> IF c \in Roots /\ col[c] # (mutator + 1) % 3
                                    THEN propagator ELSE col[c]]
      /\ nprop' = (\E c \in Roots : col[c] # (mutator + 1) % 3)
  <2>1. ~(ptr < N)
    BY SizesAssumption
  <2> QED
    BY <2>1, Zenon DEF Advance
<1>2. /\ (mutator + 1) % 3 = sweeper /\ mutator' = sweeper /\ sweeper' = marker
      /\ marker # sweeper /\ marker # mutator /\ marker # propagator
      /\ propagator \in 0..3
  <2>1. /\ (mutator + 1) % 3 = sweeper /\ (((mutator + 1) % 3) + 1) % 3 = marker
        /\ marker \in 0..2 /\ marker # sweeper /\ marker # mutator /\ propagator = 3
    BY Colors DEF IndInv, TypeOK
  <2>2. sweeper' = (((mutator + 1) % 3) + 1) % 3
    BY <1>1 DEF sweeper
  <2> QED
    BY <1>1, <2>1, <2>2
<1>3. /\ \A x \in Cell : Used(x) => col[x] # sweeper /\ col[x] # propagator
      /\ \A x \in Live : col[x] = mutator
      /\ \A x \in Roots : x \in Live
      /\ Live \subseteq Cell
      /\ mutator # sweeper
  BY AllScanned, Visited, Types DEF IndInv
<1>4. col \in [Cell -> 0..3] /\ status' = status
  BY DEF Visits
<1>5. /\ color' \in [Cell -> 0..3]
      /\ \A x \in Cell : color'[x] = IF x \in Roots /\ col[x] # sweeper THEN propagator ELSE col[x]
  BY <1>1, <1>2, <1>4
<1>6. /\ \A x \in Live : color'[x] \in {mutator, propagator}
      /\ \A x \in Roots : color'[x] = propagator
  BY <1>3, <1>5
<1>7. Clean
  <2>1. ASSUME NEW c \in Cell, Used(c)
        PROVE  /\ color'[c] # sweeper
               /\ color'[c] = propagator => c \in Roots
               /\ color'[c] = marker => c \notin Live
    BY <1>2, <1>3, <1>5, <1>6, <2>1, Visited
  <2> QED
    BY <1>2, <1>4, <2>1 DEF Clean, Used
<1> QED
  BY <1>1, <1>2, <1>5, <1>6, <1>7

LEMMA AdvanceInv ==
  ASSUME IndInv, NEW v, NEW col, NEW np, Visits(v, col, np), Advance(v, col, np)
  PROVE  IndInv' /\ (mutator' # mutator => Clean)
<1>1. /\ Live' = Live /\ Dying' = Dying /\ Roots' = Roots /\ CountInv' /\ SliceInv'
      /\ status' = status /\ kind' = kind /\ ref' = ref /\ val' = val
      /\ Dying = {} /\ v \in Int /\ v =< Quanta
      /\ col \in [Cell -> 0..3] /\ np \in BOOLEAN
  BY SameHeap DEF IndInv, WalkInv, Visits
<1>2. /\ ptr \in Nat /\ 1 =< ptr /\ ptr =< N /\ N \in Nat /\ Quanta \in Nat
      /\ mutator \in 0..2 /\ Live \subseteq Cell
  <2>1. ptr \in Cell
    BY Visited
  <2> QED
    BY <2>1, Types, SizesAssumption DEF Cell, IndInv, TypeOK
<1>3. CASE ptr < N
  <2>1. /\ ptr' = ptr + 1 /\ visit' = (IF v > 0 THEN v ELSE 0) /\ prev' = (IF v > 0 THEN ptr ELSE 0)
        /\ color' = col /\ nprop' = np /\ mutator' = mutator
    BY <1>3 DEF Advance
  <2>2. ptr' \in 0..N /\ prev' \in 0..N /\ visit' \in 0..Quanta
    BY <1>1, <1>2, <1>3, <2>1
  <2>3. TypeOK'
    BY <1>1, <2>1, <2>2 DEF IndInv, TypeOK
  <2>4. ColorInv'
    BY <1>1, <2>1, Visited DEF ColorInv, Seen, sweeper
  <2>5. PassInv'
    <3>1. \A x \in Cell : x < ptr' => x =< ptr
      BY <1>2, <2>1 DEF Cell
    <3> QED
      BY <1>1, <2>1, <3>1, Visited DEF PassInv, Used, sweeper
  <2>6. WalkInv'
    <3>1. prev' =< ptr' /\ (visit' > 0 => ptr' > 0) /\ (visit' = 0 => prev' = 0)
      BY <1>1, <1>2, <2>1
    <3> QED
      BY <1>1, <3>1 DEF IndInv, WalkInv
  <2> QED
    BY <1>1, <2>1, <2>3, <2>4, <2>5, <2>6 DEF IndInv
<1>4. CASE ~(ptr < N)
  <2>1. ptr = N /\ ptr' = 0 /\ visit' = 0 /\ prev' = 0
    BY <1>2, <1>4 DEF Advance
  <2>2. PassInv'
    BY <2>1 DEF PassInv, Cell
  <2>3. WalkInv'
    BY <1>1, <2>1 DEF IndInv, WalkInv
  <2>4. ptr' \in 0..N /\ prev' \in 0..N /\ visit' \in 0..Quanta
    BY <1>2, <2>1
  <2>5. CASE np
    <3>1. color' = col /\ nprop' = FALSE /\ mutator' = mutator
      BY <1>4, <2>5 DEF Advance
    <3>2. TypeOK'
      BY <1>1, <2>4, <3>1 DEF IndInv, TypeOK
    <3>3. ColorInv'
      BY <1>1, <3>1, Visited DEF ColorInv, Seen, sweeper
    <3> QED
      BY <1>1, <2>2, <2>3, <3>1, <3>2, <3>3 DEF IndInv
  <2>6. CASE ~np
    <3>1. /\ mutator' = sweeper /\ sweeper' = marker
          /\ color' \in [Cell -> 0..3] /\ nprop' \in BOOLEAN
          /\ \A x \in Live : color'[x] \in {mutator, propagator}
          /\ \A x \in Roots : color'[x] = propagator
          /\ Clean
      BY <2>1, <2>6, EpochEnd
    <3>2. /\ sweeper \in 0..2 /\ sweeper # mutator /\ sweeper # propagator
          /\ marker # mutator /\ marker # propagator
      BY <1>2, Colors
    <3>3. TypeOK'
      BY <1>1, <2>4, <3>1, <3>2 DEF IndInv, TypeOK
    <3>4. ColorInv'
      <4>1. \A x \in Roots' : color'[x] \in {mutator', propagator}
        BY <1>1, <3>1
      <4>2. \A x \in Live' : color'[x] # sweeper' /\ color'[x] # mutator'
        BY <1>1, <3>1, <3>2
      <4> QED
        BY <4>1, <4>2 DEF ColorInv, Seen
    <3> QED
      BY <1>1, <2>2, <2>3, <3>1, <3>3, <3>4 DEF IndInv
  <2> QED
    BY <1>1, <2>5, <2>6
<1> QED
  BY <1>3, <1>4

LEMMA VisitedPass ==
  ASSUME IndInv, Pass
  PROVE  IndInv' /\ (mutator' # mutator => Clean)
<1>1. /\ visit > 0 /\ visit \in Int /\ visit =< Quanta
      /\ Used(ptr) => color[ptr] \notin {propagator, sweeper}
      /\ Advance(visit - 1, color, nprop) /\ UNCHANGED <<status, kind, ref, val>>
  BY SizesAssumption DEF Pass, IndInv, TypeOK
<1>2. visit - 1 \in Int /\ visit - 1 =< Quanta
  BY <1>1, SizesAssumption
<1>3. ptr \in Live /\ color[ptr] = mutator =>
        \A f \in Field : val[<<ptr, f>>] # NoBlock =>
          color[val[<<ptr, f>>]] \in {mutator, propagator}
  BY DEF IndInv, ColorInv, Seen
<1>4. Visits(visit - 1, color, nprop)
  BY <1>1, <1>2, <1>3 DEF Visits, IndInv, TypeOK
<1> QED
  BY <1>1, <1>4, AdvanceInv

(* Everything to which a block points is among what its mark function      *)
(* marks.                                                                  *)
LEMMA ChildrenOf ==
  ASSUME IndInv, NEW c \in Live, NEW f \in Field, val[<<c, f>>] # NoBlock
  PROVE  val[<<c, f>>] \in Children(c)
<1>1. CASE kind[c] = "array" /\ val[<<c, "link">>] # NoBlock
  <2>1. f = "link"
    BY <1>1 DEF IndInv, SliceInv, Field
  <2> QED
    BY <1>1, <2>1 DEF Children
<1>2. CASE kind[c] = "array" /\ val[<<c, "link">>] = NoBlock
  <2>1. f = "data" /\ Elements(c) = <<c, "data">>
    BY <1>2 DEF Field, Elements
  <2> QED
    BY <1>2, <2>1 DEF Children
<1>3. CASE kind[c] # "array"
  BY <1>3 DEF Children
<1> QED
  BY <1>1, <1>2, <1>3

(* The colours when a block has been scanned and B marked. *)
LEMMA Scanned ==
  ASSUME IndInv, ptr \in Cell, color[ptr] = propagator, NEW B
  PROVE  LET s   == [color EXCEPT ![ptr] = mutator]
             col == Marked(B, s)
             np  == nprop \/ SetsNprop(B, s)
         IN /\ col \in [Cell -> 0..3] /\ np \in BOOLEAN /\ (nprop => np)
            /\ \A x \in Cell : \/ col[x] = color[x]
                               \/ col[x] = propagator /\ np
                               \/ x = ptr /\ color[x] = propagator /\ col[x] = mutator
            /\ \A x \in Cell : x \in B => col[x] \in {mutator, propagator}
            /\ col[ptr] = mutator
<1> DEFINE s   == [color EXCEPT ![ptr] = mutator]
           col == Marked(B, s)
           np  == nprop \/ SetsNprop(B, s)
<1>1. /\ s \in [Cell -> 0..3] /\ s[ptr] = mutator
      /\ \A x \in Cell : x # ptr => s[x] = color[x]
  BY DEF IndInv, TypeOK
<1>2. nprop \in BOOLEAN /\ SetsNprop(B, s) \in BOOLEAN /\ np \in BOOLEAN
      /\ (nprop => np) /\ (SetsNprop(B, s) => np)
  BY DEF IndInv, TypeOK, SetsNprop
<1> HIDE DEF s
<1>3. /\ Marked(B, s) \in [Cell -> 0..3]
      /\ \A c \in Cell : c \in B => Marked(B, s)[c] \in {mutator, propagator}
      /\ \A c \in Cell : Marked(B, s)[c] # s[c] =>
           c \in B /\ Marked(B, s)[c] = propagator /\ SetsNprop(B, s)
  BY <1>1, Marks DEF IndInv
<1>4. col[ptr] = mutator
  BY <1>1 DEF Marked
<1> HIDE DEF np
<1>5. ASSUME NEW x \in Cell
      PROVE  \/ col[x] = color[x]
             \/ col[x] = propagator /\ np
             \/ x = ptr /\ color[x] = propagator /\ col[x] = mutator
  BY <1>1, <1>2, <1>3, <1>4
<1> QED
  BY <1>2, <1>3, <1>4, <1>5 DEF s, np

LEMMA VisitedScan ==
  ASSUME IndInv, Scan
  PROVE  IndInv' /\ (mutator' # mutator => Clean)
<1> DEFINE s   == [color EXCEPT ![ptr] = mutator]
           col == Marked(Children(ptr), s)
           np  == nprop \/ SetsNprop(Children(ptr), s)
<1>1. /\ visit > 0 /\ Used(ptr) /\ color[ptr] = propagator
      /\ UNCHANGED <<status, kind, ref, val>>
      /\ Advance(visit - 1, col, np)
  BY DEF Scan
<1>2. /\ visit - 1 \in Int /\ visit - 1 =< Quanta /\ ptr \in Cell
      /\ mutator # sweeper /\ mutator # propagator
  BY <1>1, SizesAssumption, Colors DEF IndInv, TypeOK, WalkInv, Cell
<1>3. /\ col \in [Cell -> 0..3] /\ np \in BOOLEAN /\ (nprop => np)
      /\ \A x \in Cell : \/ col[x] = color[x]
                         \/ col[x] = propagator /\ np
                         \/ x = ptr /\ color[x] = propagator /\ col[x] = mutator
      /\ \A x \in Cell : x \in Children(ptr) => col[x] \in {mutator, propagator}
      /\ col[ptr] = mutator
  BY <1>1, <1>2, Scanned
<1> HIDE DEF col, np
<1>4. ASSUME ptr \in Live, NEW f \in Field, val[<<ptr, f>>] # NoBlock
      PROVE  col[val[<<ptr, f>>]] \in {mutator, propagator}
  <2>1. val[<<ptr, f>>] \in Children(ptr)
    BY <1>4, ChildrenOf
  <2>2. val[<<ptr, f>>] \in Cell
    BY <1>4, Types DEF IndInv
  <2> QED
    BY <1>3, <2>1, <2>2
<1>5. Visits(visit - 1, col, np)
  BY <1>1, <1>2, <1>3, <1>4 DEF Visits
<1> QED
  BY <1>1, <1>5, AdvanceInv

LEMMA VisitedScanList ==
  ASSUME IndInv, ScanList
  PROVE  IndInv' /\ (mutator' # mutator => Clean)
<1>1. PICK t \in Tails(ptr) :
        LET near  == {t[i] : i \in 0..visit} \ {NoBlock}
            heads == {val[<<c, "data">>] : c \in near}
            far   == {t[visit + 1]} \ {NoBlock}
            col   == [color EXCEPT ![ptr] = mutator]
            marks == heads \cup (near \ {ptr})
            col2  == Marked(marks, col)
        IN  Advance(visit - Cardinality(near),
                    [c \in Cell |-> IF c \in far THEN propagator ELSE col2[c]],
                    nprop \/ SetsNprop(marks, col) \/ far # {})
  BY DEF ScanList
<1> DEFINE near  == {t[i] : i \in 0..visit} \ {NoBlock}
           heads == {val[<<c, "data">>] : c \in near}
           far   == {t[visit + 1]} \ {NoBlock}
           s     == [color EXCEPT ![ptr] = mutator]
           marks == heads \cup (near \ {ptr})
           col2  == Marked(marks, s)
           np2   == nprop \/ SetsNprop(marks, s)
           col   == [c \in Cell |-> IF c \in far THEN propagator ELSE col2[c]]
           np    == nprop \/ SetsNprop(marks, s) \/ far # {}
           v     == visit - Cardinality(near)
<1>2. /\ visit > 0 /\ Used(ptr) /\ color[ptr] = propagator
      /\ UNCHANGED <<status, kind, ref, val>>
      /\ Advance(v, col, np)
  BY <1>1 DEF ScanList
<1>3. /\ visit \in Nat /\ visit >= 1 /\ visit =< Quanta /\ ptr \in Cell /\ Quanta \in Nat
      /\ mutator # sweeper /\ mutator # propagator /\ propagator # sweeper
      /\ propagator \in 0..3
  BY <1>2, SizesAssumption, Colors DEF IndInv, TypeOK, WalkInv, Cell
<1>4. /\ t \in [0..Quanta + 1 -> Cell \cup {NoBlock}]
      /\ t[0] = ptr /\ t[1] = val[<<ptr, "link">>]
  <2>1. /\ t[0] = ptr
        /\ t[0 + 1] = IF t[0] = NoBlock THEN NoBlock ELSE val[<<t[0], "link">>]
    BY <1>3 DEF Tails
  <2>2. ptr # NoBlock
    BY <1>3, Sizes
  <2> QED
    BY <2>1, <2>2 DEF Tails
<1>5. v \in Int /\ v =< Quanta
  <2>1. near \subseteq Cell
    <3>1. \A i \in 0..visit : i \in 0..Quanta + 1
      BY <1>3
    <3> QED
      BY <1>4, <3>1
  <2>2. IsFiniteSet(Cell)
    BY SizesAssumption, FS_Interval DEF Cell
  <2>3. IsFiniteSet(near)
    BY <2>1, <2>2, FS_Subset
  <2>4. Cardinality(near) \in Nat
    BY <2>3, FS_CardinalityType
  <2> HIDE DEF near
  <2> QED
    BY <1>3, <2>4
<1>6. /\ ptr \in near
      /\ val[<<ptr, "link">>] # NoBlock => val[<<ptr, "link">>] \in near
  <2>1. 0 \in 0..visit /\ 1 \in 0..visit
    BY <1>3
  <2>2. ptr # NoBlock
    BY <1>3, Sizes
  <2> QED
    BY <1>4, <2>1, <2>2
<1>7. /\ val[<<ptr, "data">>] \in marks
      /\ val[<<ptr, "link">>] # NoBlock => val[<<ptr, "link">>] \in marks \cup {ptr}
  BY <1>6
<1> HIDE DEF near, marks
<1>8. /\ col2 \in [Cell -> 0..3] /\ np2 \in BOOLEAN /\ (nprop => np2)
      /\ \A x \in Cell : \/ col2[x] = color[x]
                         \/ col2[x] = propagator /\ np2
                         \/ x = ptr /\ color[x] = propagator /\ col2[x] = mutator
      /\ \A x \in Cell : x \in marks => col2[x] \in {mutator, propagator}
      /\ col2[ptr] = mutator
  BY <1>2, <1>3, Scanned
<1> HIDE DEF col2, s
<1>9. /\ np \in BOOLEAN /\ (np2 => np) /\ (nprop => np) /\ (far # {} => np)
  BY <1>8
<1> HIDE DEF np2, np
<1>10. /\ col \in [Cell -> 0..3]
       /\ \A x \in Cell : col[x] = IF x \in far THEN propagator ELSE col2[x]
  BY <1>3, <1>8
<1> HIDE DEF far, col
<1>11. \A x \in Cell : \/ col[x] = color[x]
                       \/ col[x] = propagator /\ np
                       \/ x = ptr /\ color[x] = propagator /\ col[x] = mutator
  BY <1>8, <1>9, <1>10
<1>12. ASSUME ptr \in Live, NEW f \in Field, val[<<ptr, f>>] # NoBlock
       PROVE  col[val[<<ptr, f>>]] \in {mutator, propagator}
  <2>1. val[<<ptr, f>>] \in Cell
    BY <1>12, Types DEF IndInv
  <2>2. val[<<ptr, f>>] \in marks \cup {ptr}
    BY <1>7, <1>12 DEF Field
  <2>3. col2[val[<<ptr, f>>]] \in {mutator, propagator}
    BY <1>8, <2>1, <2>2
  <2> QED
    BY <1>10, <2>1, <2>3
<1>13. col[ptr] # sweeper /\ (col[ptr] = propagator => np)
  BY <1>3, <1>8, <1>9, <1>10
<1>14. Visits(v, col, np)
  BY <1>2, <1>3, <1>5, <1>9, <1>10, <1>11, <1>12, <1>13 DEF Visits
<1> QED
  BY <1>2, <1>14, AdvanceInv

LEMMA SweepInv ==
  ASSUME IndInv, Sweep
  PROVE  IndInv'
<1>1. /\ visit > 0 /\ Used(ptr) /\ color[ptr] = sweeper
      /\ status' = [status EXCEPT ![ptr] = "free"] /\ kind' = [kind EXCEPT ![ptr] = "adt"]
      /\ color' = [color EXCEPT ![ptr] = 0] /\ ref' = [ref EXCEPT ![ptr] = 0]
      /\ val' = [l \in Loc |-> IF l \in {ptr} \X Field THEN NoBlock ELSE val[l]]
      /\ ptr' = prev /\ visit' = (IF prev = 0 THEN 0 ELSE visit - 1)
      /\ prev' = (IF prev = 0 \/ visit = 1 THEN 0 ELSE prev)
      /\ mutator' = mutator /\ nprop' = nprop
  BY DEF Sweep, Forget
<1>2. /\ ptr \in Cell /\ prev \in 0..N /\ prev =< ptr /\ visit \in 0..Quanta
      /\ N \in Nat /\ Quanta \in Nat /\ Dying = {}
  BY <1>1, SizesAssumption DEF IndInv, TypeOK, WalkInv, Cell
<1>3. /\ val \in Values /\ Live \subseteq Cell
      /\ status \in [Cell -> {"free", "used", "dying"}] /\ kind \in [Cell -> Kind]
      /\ color \in [Cell -> 0..3] /\ ref \in [Cell -> Nat]
      /\ Counting(val, Dying) \subseteq Loc
      /\ \A l \in Counting(val, Dying) : val[l] # NoBlock => val[l] \in Live
      /\ \A x \in Live, f \in Field : <<x, f>> \in Counting(val, Dying)
      /\ \A l \in Slot : l \in Counting(val, Dying)
  BY Types DEF IndInv, TypeOK
<1>4. ptr \notin Live
  BY <1>1 DEF IndInv, ColorInv
<1>5. /\ val' \in Values
      /\ \A l \in Loc : val'[l] \in {val[l], NoBlock}
      /\ \A l \in Slot : val'[l] = val[l]
      /\ \A x \in Cell, f \in Field : x # ptr => val'[<<x, f>>] = val[<<x, f>>]
      /\ \A f \in Field : val'[<<ptr, f>>] = NoBlock
  <2>1. \A l \in Slot : l \in Loc /\ l \notin {ptr} \X Field
    BY <1>2, Sizes DEF Loc
  <2>2. \A x \in Cell, f \in Field : <<x, f>> \in Loc
    BY DEF Loc
  <2> QED
    BY <1>1, <1>2, <1>3, <2>1, <2>2 DEF Values
<1>6. \A x \in Cell : x # ptr => /\ status'[x] = status[x] /\ kind'[x] = kind[x]
                                 /\ color'[x] = color[x] /\ ref'[x] = ref[x]
  BY <1>1, <1>3
<1>7. Dying' = {}
  BY <1>1, <1>2, <1>3, <1>6 DEF Dying
<1>8. Dwindles
  BY <1>2, <1>3, <1>4, <1>5, <1>6, <1>7 DEF Dwindles
<1>9. Live' \subseteq Live /\ CountInv' /\ SliceInv' /\ Roots' = Roots
  BY <1>8, DwindlesKeeps DEF IndInv
<1>10. TypeOK'
  <2>1. ptr' \in 0..N /\ prev' \in 0..N /\ visit' \in 0..Quanta
    BY <1>1, <1>2
  <2> QED
    BY <1>1, <1>2, <1>5, <2>1 DEF IndInv, TypeOK, Values, Kind
<1>11. ColorInv'
  <2>1. \A x \in Roots : x \in Live
    BY <1>3 DEF Roots, Held
  <2>2. \A x \in Roots' : color'[x] \in {mutator, propagator}
    BY <1>3, <1>4, <1>6, <1>9, <2>1 DEF IndInv, ColorInv, Seen
  <2>3. ASSUME NEW x \in Live'
        PROVE  /\ color'[x] # sweeper
               /\ color'[x] = mutator =>
                    \A f \in Field : val'[<<x, f>>] # NoBlock =>
                      color'[val'[<<x, f>>]] \in {mutator, propagator}
    <3>1. x \in Live /\ x # ptr /\ x \in Cell /\ color'[x] = color[x] /\ color[x] # sweeper
      BY <1>3, <1>4, <1>6, <1>9 DEF IndInv, ColorInv
    <3>2. ASSUME color[x] = mutator, NEW f \in Field, val[<<x, f>>] # NoBlock
          PROVE  color'[val[<<x, f>>]] \in {mutator, propagator}
      <4>1. val[<<x, f>>] \in Live /\ Seen(val[<<x, f>>])
        BY <1>3, <3>1, <3>2 DEF IndInv, ColorInv
      <4> QED
        BY <1>3, <1>4, <1>6, <4>1 DEF Seen
    <3> QED
      BY <1>5, <3>1, <3>2
  <2> QED
    BY <1>1, <2>2, <2>3 DEF ColorInv, Seen, sweeper
<1>12. PassInv'
  <2>1. ASSUME NEW x \in Cell, Used(x)', x < ptr'
        PROVE  x # ptr /\ Used(x) /\ x < ptr
    <3>1. status'[x] = "used" /\ x # ptr
      BY <1>1, <1>3, <2>1 DEF Used
    <3>2. x < ptr
      BY <1>1, <1>2, <2>1 DEF Cell
    <3> QED
      BY <1>6, <3>1, <3>2 DEF Used
  <2> QED
    BY <1>1, <1>6, <2>1 DEF IndInv, PassInv, sweeper
<1>13. WalkInv'
  <2>1. \A x \in Cell, f \in Field : status'[x] = "free" => val'[<<x, f>>] = NoBlock
    BY <1>5, <1>6 DEF IndInv, WalkInv
  <2>2. prev' =< ptr' /\ (visit' > 0 => ptr' > 0) /\ (visit' = 0 => prev' = 0)
    BY <1>1, <1>2
  <2> QED
    BY <1>7, <2>1, <2>2 DEF WalkInv
<1> QED
  BY <1>9, <1>10, <1>11, <1>12, <1>13 DEF IndInv

-----------------------------------------------------------------------------
(* Specification. *)

LEMMA InitInv ==
  ASSUME Init
  PROVE  IndInv
<1> USE DEF Init
<1>1. TypeOK
  <2>1. /\ status \in [Cell -> {"free", "used", "dying"}] /\ kind \in [Cell -> Kind]
        /\ color \in [Cell -> 0..3] /\ ref \in [Cell -> Nat]
        /\ val \in [Loc -> Cell \cup {NoBlock}]
    BY DEF Kind
  <2>2. mutator \in 0..2
    OBVIOUS
  <2>4. nprop \in BOOLEAN
    OBVIOUS
  <2>3. ptr \in 0..N /\ prev \in 0..N /\ visit \in 0..Quanta
    BY SizesAssumption
  <2> QED
    BY <2>1, <2>2, <2>3, <2>4 DEF TypeOK
<1>2. val \in Values /\ Dying = {} /\ \A l \in Loc : val[l] = NoBlock
  BY DEF Dying, Values
<1>3. \A l \in Slot : val[l] = NoBlock
  BY <1>2 DEF Loc
<1>4. ClosedFrom(val, Dying, {})
  BY <1>2, <1>3 DEF ClosedFrom
<1>5. Live = {}
  BY <1>4, Least DEF Live
<1>6. Roots = {}
  BY <1>3 DEF Roots, Held
<1>7. \A c \in Cell, f \in Field : val[<<c, f>>] = NoBlock
  BY <1>2 DEF Loc
<1>8. CountInv /\ SliceInv /\ ColorInv
  BY <1>2, <1>5, <1>6 DEF CountInv, SliceInv, ColorInv
<1>9. PassInv /\ WalkInv
  BY <1>2, <1>7 DEF PassInv, WalkInv, Used
<1> QED
  BY <1>1, <1>8, <1>9 DEF IndInv

LEMMA InstructionInv ==
  ASSUME IndInv, SliceInHeap = FALSE, Instruction
  PROVE  IndInv' /\ mutator' = mutator
<1>1. PICK d \in Assignable :
        \/ \E k \in {"adt", "array"}, c \in Cell : New(d, k, c)
        \/ \E v \in {val[l] : l \in Operand} \cup {NoBlock} :
             \/ Movp(d, v)
             \/ \E c \in Cell : Consp(d, v, c)
        \/ \E c \in Cell : SliceOfSlice(d, c) \/ SliceOfArray(d, c)
  BY DEF Instruction
<1>2. ASSUME NEW k \in {"adt", "array"}, NEW c \in Cell, New(d, k, c)
      PROVE  IndInv' /\ mutator' = mutator
  BY <1>2, NewInv DEF New
<1>3. ASSUME NEW v \in {val[l] : l \in Operand} \cup {NoBlock}, Movp(d, v)
      PROVE  IndInv' /\ mutator' = mutator
  BY <1>3, MovpInv DEF Movp
<1>4. ASSUME NEW v \in {val[l] : l \in Operand} \cup {NoBlock}, NEW c \in Cell, Consp(d, v, c)
      PROVE  IndInv' /\ mutator' = mutator
  BY <1>4, ConspInv DEF Consp
<1>5. ASSUME NEW c \in Cell, SliceOfSlice(d, c)
      PROVE  IndInv' /\ mutator' = mutator
  BY <1>5, SliceOfSliceInv DEF SliceOfSlice
<1>6. ASSUME NEW c \in Cell, SliceOfArray(d, c)
      PROVE  IndInv' /\ mutator' = mutator
  BY <1>6, SliceOfArrayInv DEF SliceOfArray
<1> QED
  BY <1>1, <1>2, <1>3, <1>4, <1>5, <1>6

LEMMA NextInv ==
  ASSUME IndInv, SliceInHeap = FALSE, [Next]_vars
  PROVE  IndInv' /\ (mutator' # mutator => Clean)
<1>1. CASE Instruction
  BY <1>1, InstructionInv
<1>2. CASE Destroy
  <2>1. PICK c \in Cell : FreeBlock(c) \/ \E f \in Field : FreePtr(c, f)
    BY <1>2 DEF Destroy
  <2>2. mutator' = mutator
    BY <2>1 DEF FreeBlock, FreePtr
  <2> QED
    BY <2>1, <2>2, FreeBlockInv, FreePtrInv
<1>3. CASE Rungc \/ ChainBroken \/ Sweep
  <2>1. mutator' = mutator
    BY <1>3 DEF Rungc, ChainBroken, Sweep
  <2> QED
    BY <1>3, <2>1, RungcInv, ChainBrokenInv, SweepInv
<1>4. CASE Pass \/ Scan \/ ScanList
  BY <1>4, VisitedPass, VisitedScan, VisitedScanList
<1>5. CASE UNCHANGED vars
  <2>1. UNCHANGED <<status, kind, ref, val, color, mutator, nprop, ptr, prev, visit>>
    BY <1>5 DEF vars
  <2> QED
    BY <2>1, SameColors DEF IndInv, TypeOK, WalkInv
<1> QED
  BY <1>1, <1>2, <1>3, <1>4, <1>5 DEF Next, Collect

(* The blocks that the program can get at are among the live ones.         *)
LEMMA ReachableLive ==
  ASSUME TypeOK
  PROVE  Reachable \subseteq Live
<1>1. /\ Live \subseteq Cell
      /\ \A l \in Counting(val, Dying) : val[l] # NoBlock => val[l] \in Live
      /\ \A l \in Slot : l \in Counting(val, Dying)
      /\ \A c \in Live \cup Dying, f \in Field : <<c, f>> \in Counting(val, Dying)
  BY Types
<1>2. ClosedSet(Live)
  BY <1>1 DEF ClosedSet, Roots, Held
<1> QED
  BY <1>1, <1>2 DEF Reachable

THEOREM Inductive ==
  ASSUME SliceInHeap = FALSE
  PROVE  Spec => []IndInv
<1>1. Init => IndInv
  BY InitInv
<1>2. IndInv /\ [Next]_vars => IndInv'
  BY NextInv
<1> QED
  BY <1>1, <1>2, PTL DEF Spec

(* The colours, counts and places of the walk stay in their ranges.        *)
THEOREM TypeCorrect ==
  ASSUME SliceInHeap = FALSE
  PROVE  Spec => []TypeOK
<1>1. IndInv => TypeOK
  BY DEF IndInv
<1> QED
  BY <1>1, Inductive, PTL

(* destroy and rungc free nothing that a frame or the data of a module     *)
(* still leads to, in whatever order blocks are allocated, assigned,       *)
(* counted down, marked and swept.                                         *)
THEOREM NothingLost ==
  ASSUME SliceInHeap = FALSE
  PROVE  Spec => []ReachableUsed
<1>1. IndInv => ReachableUsed
  BY ReachableLive DEF IndInv, CountInv, ReachableUsed
<1> QED
  BY <1>1, Inductive, PTL

(* D2H(h)->ref is never short of the pointers to the block that are still  *)
(* to be destroyed.                                                        *)
THEOREM CountsCover ==
  ASSUME SliceInHeap = FALSE
  PROVE  Spec => []CountCovers
<1>1. ASSUME IndInv, NEW c \in Reachable
      PROVE  Cardinality({l \in Counted : val[l] = c}) =< ref[c]
  <2>1. c \in Live /\ Live \subseteq Cell
    BY <1>1, ReachableLive, Types DEF IndInv
  <2>2. {l \in Counted : val[l] = c} \subseteq Pointers(c)
    BY <1>1, ReachableLive DEF IndInv, Counted, Pointers, Pointing, Counting, Dying, Live
  <2>3. IsFiniteSet(Pointers(c)) /\ Cardinality(Pointers(c)) \in Nat
    BY <1>1, Types, PointersFinite DEF IndInv, Pointers
  <2>4. /\ IsFiniteSet({l \in Counted : val[l] = c})
        /\ Cardinality({l \in Counted : val[l] = c}) =< Cardinality(Pointers(c))
    BY <2>2, <2>3, FS_Subset
  <2>5. Cardinality({l \in Counted : val[l] = c}) \in Nat
    BY <2>4, FS_CardinalityType
  <2>6. Cardinality(Pointers(c)) =< ref[c] /\ ref[c] \in Nat
    BY <1>1, <2>1 DEF IndInv, CountInv, TypeOK
  <2> QED
    BY <2>3, <2>4, <2>5, <2>6
<1>2. IndInv => CountCovers
  BY <1>1 DEF CountCovers
<1> QED
  BY <1>2, Inductive, PTL

(* rungc turns the colours only when nothing is left that was marked and   *)
(* not scanned, or condemned and not swept, and condemns nothing that the  *)
(* program can get at.                                                     *)
THEOREM EpochsClean ==
  ASSUME SliceInHeap = FALSE
  PROVE  Spec => EpochClean
<1>1. ASSUME IndInv, IndInv', [Next]_vars, mutator' # mutator, NEW c \in Cell, Used(c)'
      PROVE  /\ color'[c] # mutator'
             /\ color'[c] = propagator => c \in Roots'
             /\ color'[c] = sweeper' => c \notin Reachable'
  <2>1. Clean
    BY <1>1, NextInv
  <2>2. UNCHANGED <<status, kind, ref, val>>
    <3>1. CASE Instruction
      BY <1>1, <3>1, InstructionInv
    <3>2. CASE Destroy
      BY <1>1, <3>2 DEF Destroy, FreeBlock, FreePtr
    <3>3. CASE Rungc \/ ChainBroken \/ Sweep \/ UNCHANGED vars
      BY <1>1, <3>3 DEF Rungc, ChainBroken, Sweep, vars
    <3>4. CASE Pass \/ Scan \/ ScanList
      BY <3>4 DEF Pass, Scan, ScanList
    <3> QED
      BY <1>1, <3>1, <3>2, <3>3, <3>4 DEF Next, Collect
  <2>3. Live' = Live /\ Roots' = Roots
    BY <1>1, <2>2, SameHeap DEF IndInv
  <2>4. Reachable' = Reachable
    BY <2>2, <2>3 DEF Reachable, ClosedSet
  <2>5. Reachable \subseteq Live
    BY <1>1, ReachableLive DEF IndInv
  <2>6. status'[c] = "used"
    BY <1>1 DEF Used
  <2> QED
    BY <2>1, <2>3, <2>4, <2>5, <2>6 DEF Clean
<1>2. IndInv /\ IndInv' /\ [Next]_vars =>
        [mutator' # mutator =>
           \A c \in Cell : Used(c)' =>
              /\ color'[c] # mutator'
              /\ color'[c] = propagator => c \in Roots'
              /\ color'[c] = sweeper' => c \notin Reachable']_vars
  BY <1>1
<1> QED
  BY <1>2, Inductive, PTL DEF Spec, EpochClean
=============================================================================
