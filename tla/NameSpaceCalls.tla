--------------------------- MODULE NameSpaceCalls ---------------------------
(***************************************************************************)
(* Lemmas about NameSpace, for any progs, groups, files, channels, mounts  *)
(* and calls: what its operators on counts, lists of mounts and tables do, *)
(* and that each step of every call but a fork keeps the invariant.        *)
(***************************************************************************)
EXTENDS NameSpace, FiniteSetTheorems, WellFoundedInduction, TLAPS

-----------------------------------------------------------------------------
(* Numbers, finite sets and sequences. *)

(* Every nonempty set of natural numbers has a least element. *)
LEMMA LeastNat ==
  ASSUME NEW T, T \subseteq Nat, T # {}
  PROVE  \E m \in T : \A n \in T : m <= n
<1>1. \E m \in T : \A n \in T : ~ (<<n, m>> \in OpToRel(<, Nat))
  BY NatLessThanWellFounded, WFMin
<1>2. PICK m \in T : \A n \in T : ~ (<<n, m>> \in OpToRel(<, Nat))
  BY <1>1
<1>3. \A n \in T : ~(n < m)
  BY <1>2, Zenon DEF OpToRel
<1>4. \A n \in T : m <= n
  BY <1>3
<1> QED
  BY <1>4

(* A set of numbers that has 0 and with each number below n the next has   *)
(* all up to n.                                                            *)
LEMMA Upto ==
  ASSUME NEW n \in Nat, NEW T, 0 \in T, \A i \in 0..(n - 1) : i \in T => i + 1 \in T
  PROVE  \A i \in 0..n : i \in T
<1> DEFINE Bad == {i \in 0..n : i \notin T}
<1>0. SUFFICES ASSUME Bad # {}
               PROVE  FALSE
  OBVIOUS
<1>1. PICK m \in Bad : \A k \in Bad : m <= k
  <2>1. Bad \subseteq Nat
    OBVIOUS
  <2> HIDE DEF Bad
  <2> QED
    BY <1>0, <2>1, LeastNat
<1>2. m \in 0..n /\ m # 0 /\ m - 1 \in 0..(n - 1) /\ m - 1 \in 0..n
  BY <1>1
<1>3. m - 1 \in T
  BY <1>1, <1>2
<1>4. (m - 1) + 1 = m
  BY <1>2
<1> QED
  BY <1>1, <1>2, <1>3, <1>4

(* n steps in S, and what they lead to from a. *)
Steps(S, n) == [1..n -> [S -> S]]
Leads(f, S, n, a, step) == /\ f \in [0..n -> S]
                           /\ f[0] = a /\ \A i \in 1..n : f[i] = step[i][f[i - 1]]

(* A recursion along the indices of a sequence of steps has a solution.    *)
LEMMA Recursion ==
  ASSUME NEW S, NEW n \in Nat, NEW a \in S, NEW step \in Steps(S, n)
  PROVE  \E f : Leads(f, S, n, a, step)
<1> USE DEF Steps, Leads
<1> DEFINE Good(k) == \E f \in [0..n -> S] :
                        f[0] = a /\ \A i \in 1..k : f[i] = step[i][f[i - 1]]
           T == {k \in 0..n : Good(k)}
<1>1. 0 \in T
  <2>1. [i \in 0..n |-> a] \in [0..n -> S] /\ [i \in 0..n |-> a][0] = a
    OBVIOUS
  <2>2. 0 \in 0..n /\ \A i \in 1..0 : FALSE
    OBVIOUS
  <2>3. Good(0)
    BY <2>1, <2>2
  <2> QED
    BY <2>2, <2>3
<1>2. ASSUME NEW k \in 0..(n - 1), k \in T
      PROVE  k + 1 \in T
  <2>1. PICK f \in [0..n -> S] : f[0] = a /\ \A i \in 1..k : f[i] = step[i][f[i - 1]]
    BY <1>2
  <2> DEFINE g == [f EXCEPT ![k + 1] = step[k + 1][f[k]]]
  <2>2. k + 1 \in 1..n /\ k \in 0..n /\ k + 1 \in 0..n /\ k \in Nat
    OBVIOUS
  <2>3. step[k + 1] \in [S -> S] /\ f[k] \in S
    BY <2>2
  <2>4. g \in [0..n -> S] /\ g[0] = a
    BY <2>1, <2>2, <2>3
  <2>5. ASSUME NEW i \in 1..(k + 1)
        PROVE  g[i] = step[i][g[i - 1]]
    <3>1. i - 1 \in 0..n /\ i - 1 # k + 1 /\ i \in 0..n
      BY <2>2
    <3>2. g[i - 1] = f[i - 1]
      BY <3>1
    <3>3. CASE i = k + 1
      BY <3>1, <3>2, <3>3, <2>2
    <3>4. CASE i # k + 1
      <4>1. i \in 1..k /\ g[i] = f[i]
        BY <3>1, <3>4, <2>2
      <4> QED
        BY <4>1, <3>2, <2>1
    <3> QED
      BY <3>3, <3>4
  <2> HIDE DEF g
  <2>6. Good(k + 1)
    BY <2>4, <2>5
  <2> QED
    BY <2>2, <2>6
<1> HIDE DEF T
<1>3. n \in T
  <2>1. \A i \in 0..n : i \in T
    BY <1>1, <1>2, Upto
  <2> QED
    BY <2>1
<1> QED
  BY <1>3 DEF T

(* Two finite sets that differ in at most one element. *)
LEMMA OneDiffers ==
  ASSUME NEW S, NEW T, IsFiniteSet(S), NEW e, S \ {e} = T \ {e}
  PROVE  /\ IsFiniteSet(T) /\ Cardinality(S) \in Nat /\ Cardinality(T) \in Nat
         /\ Cardinality(T) + (IF e \in S THEN 1 ELSE 0) = Cardinality(S) + (IF e \in T THEN 1 ELSE 0)
<1>1. IsFiniteSet(S \ {e}) /\ Cardinality(S \ {e}) = IF e \in S THEN Cardinality(S) - 1 ELSE Cardinality(S)
  BY FS_RemoveElement
<1>2. Cardinality(S) \in Nat
  BY FS_CardinalityType
<1>3. CASE e \in T
  <2>1. T = (S \ {e}) \cup {e} /\ e \notin S \ {e}
    BY <1>3
  <2>2. IsFiniteSet(T) /\ Cardinality(T) = Cardinality(S \ {e}) + 1
    BY <1>1, <2>1, FS_AddElement
  <2>3. Cardinality(T) \in Nat
    BY <2>2, FS_CardinalityType
  <2> QED
    BY <1>1, <1>2, <1>3, <2>2, <2>3
<1>4. CASE e \notin T
  <2>1. T = S \ {e}
    BY <1>4
  <2>2. Cardinality(T) \in Nat
    BY <1>1, <2>1, FS_CardinalityType
  <2> QED
    BY <1>1, <1>2, <1>4, <2>1, <2>2
<1> QED
  BY <1>3, <1>4

(* The union of two finite sets that share nothing. *)
LEMMA Apart ==
  ASSUME NEW S, NEW T, IsFiniteSet(S), IsFiniteSet(T), S \cap T = {}
  PROVE  /\ IsFiniteSet(S \cup T)
         /\ Cardinality(S) \in Nat /\ Cardinality(T) \in Nat
         /\ Cardinality(S \cup T) = Cardinality(S) + Cardinality(T)
<1>1. Cardinality(S \cap T) = 0
  BY FS_EmptySet
<1>2. Cardinality(S) \in Nat /\ Cardinality(T) \in Nat
  BY FS_CardinalityType
<1>3. /\ IsFiniteSet(S \cup T)
      /\ Cardinality(S \cup T) = Cardinality(S) + Cardinality(T) - Cardinality(S \cap T)
  BY FS_Union
<1> QED
  BY <1>1, <1>2, <1>3

(* An injective image has as many elements. *)
LEMMA SameNumber ==
  ASSUME NEW S, IsFiniteSet(S), NEW f, f \in [S -> {f[i] : i \in S}],
         \A i, j \in S : f[i] = f[j] => i = j
  PROVE  /\ IsFiniteSet({f[i] : i \in S})
         /\ Cardinality({f[i] : i \in S}) = Cardinality(S)
<1> DEFINE T == {f[i] : i \in S}
<1>1. f \in Injection(S, T)
  BY DEF Injection, IsInjective
<1>2. f \in Surjection(S, T)
  BY DEF Surjection
<1>3. ExistsBijection(S, T)
  BY <1>1, <1>2 DEF ExistsBijection, Bijection
<1> QED
  BY <1>3, FS_Bijection

-----------------------------------------------------------------------------
(* How often something is in a sequence. *)

LEMMA SameSeq ==
  ASSUME NEW S, NEW s \in Seq(S), NEW t \in Seq(S), Len(s) = Len(t),
         \A i \in 1..Len(s) : s[i] = t[i]
  PROVE  s = t
<1>1. s = [i \in 1..Len(s) |-> s[i]] /\ t = [i \in 1..Len(t) |-> t[i]]
  OBVIOUS
<1> QED
  BY <1>1

LEMMA CountType ==
  ASSUME NEW S, NEW xs \in Seq(S), NEW x
  PROVE  /\ Count(xs, x) \in Nat
         /\ Count(xs, x) = 0 <=> x \notin ToSet(xs)
<1> DEFINE I == {i \in 1..Len(xs) : xs[i] = x}
<1>1. IsFiniteSet(1..Len(xs)) /\ DOMAIN xs = 1..Len(xs)
  BY FS_Interval
<1>2. IsFiniteSet(I)
  BY <1>1, FS_Subset
<1>3. Cardinality(I) \in Nat /\ (Cardinality(I) = 0 <=> I = {})
  BY <1>2, FS_CardinalityType, FS_EmptySet
<1>4. I = {} <=> x \notin ToSet(xs)
  BY <1>1 DEF ToSet
<1> QED
  BY <1>3, <1>4 DEF Count

LEMMA CountOne ==
  ASSUME NEW x, NEW y
  PROVE  Count(<<>>, x) = 0 /\ Count(<<y>>, x) = (IF x = y THEN 1 ELSE 0)
<1>1. {i \in 1..Len(<<>>) : <<>>[i] = x} = {}
  OBVIOUS
<1>2. {i \in 1..Len(<<y>>) : <<y>>[i] = x} = IF x = y THEN {1} ELSE {}
  OBVIOUS
<1> QED
  BY <1>1, <1>2, FS_EmptySet, FS_Singleton DEF Count

LEMMA CountConcat ==
  ASSUME NEW S, NEW xs \in Seq(S), NEW ys \in Seq(S), NEW x
  PROVE  /\ xs \o ys \in Seq(S) /\ ToSet(xs \o ys) = ToSet(xs) \cup ToSet(ys)
         /\ Count(xs \o ys, x) = Count(xs, x) + Count(ys, x)
<1> DEFINE n == Len(xs)
           k == Len(ys)
           I == {i \in 1..n : xs[i] = x}
           J == {i \in 1..k : ys[i] = x}
           f == [j \in J |-> n + j]
           K == {f[j] : j \in J}
<1>1. /\ xs \o ys \in Seq(S) /\ Len(xs \o ys) = n + k /\ n \in Nat /\ k \in Nat
      /\ \A i \in 1..n : (xs \o ys)[i] = xs[i]
      /\ \A i \in 1..k : (xs \o ys)[n + i] = ys[i]
      /\ DOMAIN xs = 1..n /\ DOMAIN ys = 1..k /\ DOMAIN (xs \o ys) = 1..(n + k)
  OBVIOUS
<1>2. \A i \in 1..(n + k) : i \in 1..n \/ (i - n \in 1..k /\ i = n + (i - n))
  BY <1>1
<1>3. (\A i \in 1..n : i \in 1..(n + k)) /\ (\A i \in 1..k : n + i \in 1..(n + k) /\ n + i \notin 1..n)
  BY <1>1
<1>4. ToSet(xs \o ys) = ToSet(xs) \cup ToSet(ys)
  <2>1. \A v \in ToSet(xs \o ys) : v \in ToSet(xs) \cup ToSet(ys)
    BY <1>1, <1>2 DEF ToSet
  <2>2. \A v \in ToSet(xs) \cup ToSet(ys) : v \in ToSet(xs \o ys)
    BY <1>1, <1>3 DEF ToSet
  <2> QED
    BY <2>1, <2>2
<1>5. IsFiniteSet(I) /\ IsFiniteSet(J)
  <2>1. IsFiniteSet(1..n) /\ IsFiniteSet(1..k)
    BY <1>1, FS_Interval
  <2>2. I \in SUBSET (1..n) /\ J \in SUBSET (1..k)
    OBVIOUS
  <2> HIDE DEF I, J, n, k
  <2> QED
    BY <2>1, <2>2, FS_Subset
<1>6. IsFiniteSet(K) /\ Cardinality(K) = Cardinality(J)
  <2>1. f \in [J -> {f[i] : i \in J}] /\ \A i, j \in J : f[i] = f[j] => i = j
    BY <1>1
  <2> HIDE DEF f, J
  <2> QED
    BY <2>1, <1>5, SameNumber
<1>7. {i \in 1..Len(xs \o ys) : (xs \o ys)[i] = x} = I \cup K
  <2>1. K = {n + j : j \in J}
    OBVIOUS
  <2>2. ASSUME NEW i \in 1..(n + k), (xs \o ys)[i] = x
        PROVE  i \in I \cup K
    <3>1. CASE i \in 1..n
      BY <1>1, <2>2, <3>1
    <3>2. CASE i - n \in 1..k /\ i = n + (i - n)
      <4>1. i - n \in J
        BY <1>1, <2>2, <3>2
      <4>2. n + (i - n) \in K
        BY <2>1, <4>1
      <4> QED
        BY <3>2, <4>2
    <3> QED
      BY <1>2, <3>1, <3>2
  <2>3. ASSUME NEW i \in I \cup K
        PROVE  i \in 1..(n + k) /\ (xs \o ys)[i] = x
    BY <1>1, <1>3, <2>1
  <2> QED
    BY <1>1, <2>2, <2>3
<1>8. I \cap K = {}
  <2>1. K = {n + j : j \in J}
    OBVIOUS
  <2> QED
    BY <2>1, <1>3
<1>9. Cardinality(I \cup K) = Cardinality(I) + Cardinality(K)
  BY <1>5, <1>6, <1>8, Apart
<1> QED
  BY <1>1, <1>4, <1>6, <1>7, <1>9 DEF Count

LEMMA CountTwo ==
  ASSUME NEW x, NEW y, NEW z
  PROVE  Count(<<y, z>>, x) = (IF x = y THEN 1 ELSE 0) + (IF x = z THEN 1 ELSE 0)
<1> DEFINE S == {y, z}
<1>1. y \in S /\ z \in S
  OBVIOUS
<1> HIDE DEF S
<1>2. <<y>> \in Seq(S) /\ <<z>> \in Seq(S)
  BY <1>1
<1>5. <<y, z>> = <<y>> \o <<z>>
  <2>1. /\ <<y>> \o <<z>> \in Seq(S) /\ Len(<<y>> \o <<z>>) = 2
        /\ (<<y>> \o <<z>>)[1] = y /\ (<<y>> \o <<z>>)[2] = z
    BY <1>1, <1>2
  <2>2. <<y, z>> \in Seq(S) /\ Len(<<y, z>>) = 2 /\ <<y, z>>[1] = y /\ <<y, z>>[2] = z
    BY <1>1
  <2>3. \A i \in 1..2 : i = 1 \/ i = 2
    OBVIOUS
  <2> DEFINE u == <<y, z>>
             v == <<y>> \o <<z>>
  <2>4. u \in Seq(S) /\ v \in Seq(S) /\ Len(u) = Len(v) /\ \A i \in 1..Len(u) : u[i] = v[i]
    BY <2>1, <2>2, <2>3
  <2> HIDE DEF u, v
  <2>5. u = v
    BY <2>4, SameSeq
  <2> QED
    BY <2>5 DEF u, v
<1> DEFINE a == <<y>>
           b == <<z>>
<1>3. Count(a \o b, x) = Count(a, x) + Count(b, x)
  <2>1. a \in Seq(S) /\ b \in Seq(S)
    BY <1>2
  <2> HIDE DEF a, b
  <2> QED
    BY <2>1, CountConcat
<1>4. /\ Count(<<y>>, x) = (IF x = y THEN 1 ELSE 0)
      /\ Count(<<z>>, x) = (IF x = z THEN 1 ELSE 0)
  BY CountOne
<1> QED
  BY <1>5, <1>3, <1>4

(* What a function makes of a sequence of different elements. *)
LEMMA CountEach ==
  ASSUME NEW S, NEW ms \in Seq(S), IsInjective(ms), NEW f, NEW x
  PROVE  /\ IsFiniteSet({m \in ToSet(ms) : f[m] = x})
         /\ Count([i \in 1..Len(ms) |-> f[ms[i]]], x) = Cardinality({m \in ToSet(ms) : f[m] = x})
<1> DEFINE I == {i \in 1..Len(ms) : f[ms[i]] = x}
           e == [i \in I |-> ms[i]]
           xs == [i \in 1..Len(ms) |-> f[ms[i]]]
<1>1. DOMAIN ms = 1..Len(ms) /\ Len(xs) = Len(ms) /\ IsFiniteSet(1..Len(ms))
  BY FS_Interval
<1>2. {i \in 1..Len(xs) : xs[i] = x} = I
  BY <1>1
<1>3. IsFiniteSet(I)
  BY <1>1, FS_Subset
<1>4. {e[i] : i \in I} = {m \in ToSet(ms) : f[m] = x}
  BY <1>1 DEF ToSet
<1>5. e \in [I -> {e[i] : i \in I}] /\ \A i, j \in I : e[i] = e[j] => i = j
  BY <1>1 DEF IsInjective
<1> HIDE DEF I, e
<1>6. IsFiniteSet({e[i] : i \in I}) /\ Cardinality({e[i] : i \in I}) = Cardinality(I)
  BY <1>3, <1>5, SameNumber
<1> QED
  BY <1>2, <1>4, <1>6 DEF Count

-----------------------------------------------------------------------------
(* Channels. *)

ChanType == [ref : Nat, file : File \cup {None}, mnt : Mount \cup {Nil}, mountid : Nat]
ChansType == [of : [Chan -> ChanType], free : Seq(Chan), panic : BOOLEAN]

(* The free list is right. *)
FreeOK(s) ==
  /\ IsInjective(s.free)
  /\ \A x \in Chan : s.of[x].ref = 0 <=> x \in ToSet(s.free)

(* s and t differ in the references of their channels only. *)
SameButRefs(s, t) ==
  /\ t.panic = s.panic
  /\ \A x \in Chan : /\ t.of[x].file = s.of[x].file /\ t.of[x].mnt = s.of[x].mnt
                     /\ t.of[x].mountid = s.of[x].mountid

LEMMA SetRef ==
  ASSUME NEW of \in [Chan -> ChanType], NEW x \in Chan, NEW n \in Nat,
         NEW to, to = [of EXCEPT ![x].ref = n]
  PROVE  /\ to \in [Chan -> ChanType]
         /\ \A y \in Chan : /\ to[y].ref = (IF y = x THEN n ELSE of[y].ref)
                            /\ to[y].file = of[y].file /\ to[y].mnt = of[y].mnt
                            /\ to[y].mountid = of[y].mountid
<1> DEFINE r == [of[x] EXCEPT !.ref = n]
<1>1. of[x] \in ChanType
  OBVIOUS
<1>2. /\ r \in ChanType /\ r.ref = n /\ r.file = of[x].file /\ r.mnt = of[x].mnt
      /\ r.mountid = of[x].mountid
  BY <1>1 DEF ChanType
<1>3. to = [of EXCEPT ![x] = r]
  OBVIOUS
<1> HIDE DEF r
<1>4. to \in [Chan -> ChanType] /\ to[x] = r /\ \A y \in Chan : y # x => to[y] = of[y]
  BY <1>2, <1>3
<1>5. ASSUME NEW y \in Chan
      PROVE  /\ to[y].ref = (IF y = x THEN n ELSE of[y].ref)
             /\ to[y].file = of[y].file /\ to[y].mnt = of[y].mnt
             /\ to[y].mountid = of[y].mountid
  <2>1. CASE y = x
    BY <1>2, <1>4, <2>1
  <2>2. CASE y # x
    BY <1>4, <2>2
  <2> QED
    BY <2>1, <2>2
<1> QED
  BY <1>4, <1>5

LEMMA CloseEffect ==
  ASSUME NEW s \in ChansType, FreeOK(s), NEW x \in Chan, s.of[x].ref > 0
  PROVE  /\ Close(s, x) \in ChansType /\ FreeOK(Close(s, x)) /\ SameButRefs(s, Close(s, x))
         /\ \A y \in Chan : Close(s, x).of[y].ref = s.of[y].ref - (IF y = x THEN 1 ELSE 0)
<1>1. CASE s.of[x].ref = 1
  <2> DEFINE t == [s EXCEPT !.of[x].ref = 0, !.free = <<x>> \o @]
  <2>1. Close(s, x) = t
    BY <1>1 DEF Close
  <2>2. /\ t.of = [s.of EXCEPT ![x].ref = 0] /\ t.free = <<x>> \o s.free /\ t.panic = s.panic
        /\ s.of \in [Chan -> ChanType] /\ s.free \in Seq(Chan)
    BY DEF ChansType
  <2>3. t.of \in [Chan -> ChanType] /\ t.free \in Seq(Chan)
    <3> DEFINE of == s.of
               to == t.of
               n == 0
    <3>1. to = [of EXCEPT ![x].ref = n] /\ of \in [Chan -> ChanType] /\ t.free \in Seq(Chan)
      BY <2>2
    <3>3. n \in Nat
      OBVIOUS
    <3> HIDE DEF of, to, n
    <3>2. to \in [Chan -> ChanType]
      BY <3>1, <3>3, SetRef
    <3> QED
      BY <3>1, <3>2 DEF to
  <2>4. t \in ChansType
    BY <2>3 DEF ChansType
  <2>5. x \notin ToSet(s.free)
    BY <1>1 DEF FreeOK
  <2>6. /\ DOMAIN s.free = 1..Len(s.free) /\ DOMAIN t.free = 1..(Len(s.free) + 1) /\ Len(s.free) \in Nat
        /\ t.free[1] = x /\ \A i \in 1..(Len(s.free) + 1) : i # 1 => i - 1 \in 1..Len(s.free) /\ t.free[i] = s.free[i - 1]
        /\ \A i \in 1..Len(s.free) : i + 1 \in 1..(Len(s.free) + 1) /\ t.free[i + 1] = s.free[i]
    BY <2>2
  <2>7. ToSet(t.free) = ToSet(s.free) \cup {x}
    <3>1. \A v \in ToSet(t.free) : v \in ToSet(s.free) \cup {x}
      BY <2>6 DEF ToSet
    <3>2. 1 \in DOMAIN t.free
      BY <2>6
    <3>3. \A v \in ToSet(s.free) \cup {x} : v \in ToSet(t.free)
      BY <2>6, <3>2 DEF ToSet
    <3> QED
      BY <3>1, <3>3
  <2>8. IsInjective(t.free)
    <3>1. ASSUME NEW i \in DOMAIN t.free, NEW j \in DOMAIN t.free, t.free[i] = t.free[j]
          PROVE  i = j
      <4>1. \A k \in 1..Len(s.free) : s.free[k] # x
        BY <2>5, <2>6 DEF ToSet
      <4>2. CASE i = 1 \/ j = 1
        BY <3>1, <4>1, <4>2, <2>6
      <4>3. CASE i # 1 /\ j # 1
        <5>1. i - 1 = j - 1
          BY <3>1, <4>3, <2>6 DEF FreeOK, IsInjective
        <5> QED
          BY <5>1, <2>6
      <4> QED
        BY <4>2, <4>3
    <3> QED
      BY <3>1 DEF IsInjective
  <2>9. \A y \in Chan : /\ t.of[y].ref = (IF y = x THEN 0 ELSE s.of[y].ref)
                        /\ t.of[y].file = s.of[y].file /\ t.of[y].mnt = s.of[y].mnt
                        /\ t.of[y].mountid = s.of[y].mountid
    <3> DEFINE of == s.of
               to == t.of
    <3>1. to = [of EXCEPT ![x].ref = 0] /\ of \in [Chan -> ChanType]
      BY <2>2
    <3> HIDE DEF of, to
    <3>2. \A y \in Chan : /\ to[y].ref = (IF y = x THEN 0 ELSE of[y].ref)
                          /\ to[y].file = of[y].file /\ to[y].mnt = of[y].mnt
                          /\ to[y].mountid = of[y].mountid
      BY <3>1, SetRef
    <3> QED
      BY <3>2 DEF to, of
  <2>10. \A y \in Chan : s.of[y].ref \in Nat
    BY <2>2 DEF ChanType
  <2> HIDE DEF t
  <2>12. FreeOK(t)
    BY <2>7, <2>8, <2>9 DEF FreeOK
  <2>13. SameButRefs(s, t)
    BY <2>2, <2>9 DEF SameButRefs
  <2>14. \A y \in Chan : t.of[y].ref = s.of[y].ref - (IF y = x THEN 1 ELSE 0)
    BY <2>9, <2>10, <1>1
  <2> QED
    BY <2>1, <2>4, <2>12, <2>13, <2>14
<1>2. CASE s.of[x].ref > 1
  <2> DEFINE t == [s EXCEPT !.of[x].ref = @ - 1]
  <2>0. s.of \in [Chan -> ChanType] /\ s.of[x] \in ChanType /\ s.of[x].ref \in Nat
    BY DEF ChansType, ChanType
  <2>1. Close(s, x) = t
    BY <1>2, <2>0 DEF Close
  <2>2. /\ t.of = [s.of EXCEPT ![x].ref = @ - 1] /\ t.free = s.free /\ t.panic = s.panic
        /\ s.of \in [Chan -> ChanType] /\ s.free \in Seq(Chan)
    BY DEF ChansType
  <2> DEFINE n == s.of[x].ref - 1
  <2>3. n \in Nat /\ n # 0
    BY <2>0, <1>2
  <2>4. t.of = [s.of EXCEPT ![x].ref = n]
    BY <2>2
  <2> HIDE DEF n, t
  <2>5. /\ t.of \in [Chan -> ChanType]
        /\ \A y \in Chan : /\ t.of[y].ref = (IF y = x THEN n ELSE s.of[y].ref)
                           /\ t.of[y].file = s.of[y].file /\ t.of[y].mnt = s.of[y].mnt
                           /\ t.of[y].mountid = s.of[y].mountid
    <3> DEFINE of == s.of
               to == t.of
    <3>1. to = [of EXCEPT ![x].ref = n] /\ of \in [Chan -> ChanType]
      BY <2>2, <2>4
    <3> HIDE DEF of, to
    <3>2. /\ to \in [Chan -> ChanType]
          /\ \A y \in Chan : /\ to[y].ref = (IF y = x THEN n ELSE of[y].ref)
                             /\ to[y].file = of[y].file /\ to[y].mnt = of[y].mnt
                             /\ to[y].mountid = of[y].mountid
      BY <2>3, <3>1, SetRef
    <3> QED
      BY <3>2 DEF to, of
  <2>6. t \in ChansType
    BY <2>2, <2>5 DEF ChansType, t
  <2>8. \A y \in Chan : s.of[y].ref \in Nat
    BY <2>2 DEF ChanType
  <2>9. FreeOK(t)
    BY <2>2, <2>3, <2>5, <2>0, <1>2 DEF FreeOK
  <2>10. SameButRefs(s, t)
    BY <2>2, <2>5 DEF SameButRefs
  <2>11. \A y \in Chan : t.of[y].ref = s.of[y].ref - (IF y = x THEN 1 ELSE 0)
    BY <2>5, <2>8 DEF n
  <2> QED
    BY <2>1, <2>6, <2>9, <2>10, <2>11
<1>3. s.of[x].ref \in Nat
  BY DEF ChansType, ChanType
<1> QED
  BY <1>1, <1>2, <1>3

LEMMA CloseType ==
  ASSUME NEW s \in ChansType, NEW x \in Chan
  PROVE  Close(s, x) \in ChansType
<1> DEFINE of == s.of
<1>1. s.of \in [Chan -> ChanType] /\ s.free \in Seq(Chan) /\ s.panic \in BOOLEAN
  BY DEF ChansType
<1>2. CASE s.of[x].ref = 0
  BY <1>1, <1>2 DEF Close, ChansType
<1>3. CASE s.of[x].ref = 1
  <2> DEFINE to == [of EXCEPT ![x].ref = 0]
             n == 0
  <2>1. to = [of EXCEPT ![x].ref = n] /\ n \in Nat
    OBVIOUS
  <2> HIDE DEF to, n
  <2>2. to \in [Chan -> ChanType]
    BY <1>1, <2>1, SetRef
  <2>3. Close(s, x) = [s EXCEPT !.of = to, !.free = <<x>> \o @]
    BY <1>1, <1>3 DEF Close, to, ChansType
  <2>4. <<x>> \o s.free \in Seq(Chan)
    BY <1>1
  <2> QED
    BY <1>1, <2>2, <2>3, <2>4 DEF ChansType
<1>4. CASE s.of[x].ref > 1
  <2> DEFINE n == s.of[x].ref - 1
             to == [of EXCEPT ![x].ref = n]
  <2>0. s.of[x].ref \in Nat
    BY <1>1 DEF ChanType
  <2>1. n \in Nat
    BY <2>0, <1>4
  <2>3. Close(s, x) = [s EXCEPT !.of = to]
    BY <1>1, <1>4, <2>0 DEF Close, ChansType
  <2>4. to = [of EXCEPT ![x].ref = n]
    OBVIOUS
  <2> HIDE DEF to, n
  <2>2. to \in [Chan -> ChanType]
    BY <1>1, <2>1, <2>4, SetRef
  <2> QED
    BY <1>1, <2>2, <2>3 DEF ChansType
<1>5. s.of[x].ref \in Nat
  BY <1>1 DEF ChanType
<1> QED
  BY <1>2, <1>3, <1>4, <1>5

LEMMA CloseAllRec ==
  ASSUME NEW s \in ChansType, NEW xs \in Seq(Chan)
  PROVE  \E f \in [0..Len(xs) -> ChansType] :
           /\ f[0] = s /\ \A i \in 1..Len(xs) : f[i] = Close(f[i - 1], xs[i])
           /\ CloseAll(s, xs) = f[Len(xs)]
<1> DEFINE n == Len(xs)
           step == [i \in 1..n |-> [t \in ChansType |-> Close(t, xs[i])]]
           body(f) == [i \in 0..n |-> IF i = 0 THEN s ELSE Close(f[i - 1], xs[i])]
           g == CHOOSE closed : closed = body(closed)
<1>0. n \in Nat /\ \A i \in 1..n : xs[i] \in Chan
  OBVIOUS
<1>1. step \in Steps(ChansType, n)
  BY <1>0, CloseType DEF Steps
<1>2. PICK f : Leads(f, ChansType, n, s, step)
  <2> HIDE DEF step, n, body, g
  <2> QED
    BY <1>0, <1>1, Recursion
<1>22. f \in [0..n -> ChansType] /\ f[0] = s /\ \A i \in 1..n : f[i] = step[i][f[i - 1]]
  BY <1>2 DEF Leads
<1>3. f = body(f)
  <2>1. \A i \in 0..n : i # 0 => i \in 1..n /\ i - 1 \in 0..n
    BY <1>0
  <2>2. \A i \in 0..n : i # 0 => step[i][f[i - 1]] = Close(f[i - 1], xs[i])
    BY <1>22, <2>1
  <2> HIDE DEF step
  <2>3. \A i \in 0..n : f[i] = IF i = 0 THEN s ELSE Close(f[i - 1], xs[i])
    BY <1>22, <2>2
  <2> QED
    BY <1>22, <2>3
<1>4. g = body(g)
  BY <1>3
<1>5. CloseAll(s, xs) = g[n]
  BY DEF CloseAll
<1> HIDE DEF g
<1>6. g[0] = s /\ \A i \in 1..n : g[i] = Close(g[i - 1], xs[i])
  <2>1. 0 \in 0..n /\ \A i \in 1..n : i \in 0..n /\ i # 0
    BY <1>0
  <2> QED
    BY <1>4, <2>1
<1>7. \A i \in 0..n : g[i] \in ChansType
  <2> DEFINE T == {i \in 0..n : g[i] \in ChansType}
  <2>1. 0 \in T
    BY <1>0, <1>6
  <2>2. ASSUME NEW i \in 0..(n - 1), i \in T
        PROVE  i + 1 \in T
    <3>1. i + 1 \in 1..n /\ i + 1 \in 0..n /\ (i + 1) - 1 = i
      BY <1>0
    <3>2. g[i + 1] = Close(g[i], xs[i + 1])
      BY <1>6, <3>1
    <3> QED
      BY <1>0, <2>2, <3>1, <3>2, CloseType
  <2> HIDE DEF T
  <2>3. \A i \in 0..n : i \in T
    BY <1>0, <2>1, <2>2, Upto
  <2> QED
    BY <2>3 DEF T
<1>8. g \in [0..n -> ChansType]
  BY <1>4, <1>7
<1> QED
  BY <1>5, <1>6, <1>8

(* How often x is among the first k of xs. *)
CountTo(xs, k, x) == Cardinality({j \in 1..k : xs[j] = x})

LEMMA CountPrefix ==
  ASSUME NEW S, NEW xs \in Seq(S), NEW x, NEW k \in 1..Len(xs)
  PROVE  /\ CountTo(xs, k - 1, x) \in Nat
         /\ CountTo(xs, k, x) = CountTo(xs, k - 1, x) + (IF xs[k] = x THEN 1 ELSE 0)
         /\ CountTo(xs, k, x) <= Count(xs, x)
<1> DEFINE A == {j \in 1..(k - 1) : xs[j] = x}
           B == {j \in 1..k : xs[j] = x}
           C == {j \in 1..Len(xs) : xs[j] = x}
<1>0. Len(xs) \in Nat
  OBVIOUS
<1>1. IsFiniteSet(1..(k - 1)) /\ A \in SUBSET (1..(k - 1))
  BY FS_Interval
<1>2. IsFiniteSet(A) /\ k \notin A
  <2>1. k \notin A
    OBVIOUS
  <2> HIDE DEF A
  <2> QED
    BY <1>1, <2>1, FS_Subset
<1>3. B = IF xs[k] = x THEN A \cup {k} ELSE A
  OBVIOUS
<1>5. B \in SUBSET C /\ C \in SUBSET (1..Len(xs)) /\ IsFiniteSet(1..Len(xs))
  <2>1. \A j \in 1..k : j \in 1..Len(xs)
    BY <1>0
  <2>2. IsFiniteSet(1..Len(xs))
    BY <1>0, FS_Interval
  <2> QED
    BY <2>1, <2>2
<1> HIDE DEF A, B, C
<1>6. IsFiniteSet(C)
  BY <1>5, FS_Subset
<1>7. Cardinality(B) <= Cardinality(C)
  BY <1>5, <1>6, FS_Subset
<1>4. Cardinality(A) \in Nat /\ Cardinality(A \cup {k}) = Cardinality(A) + 1
  BY <1>2, FS_AddElement, FS_CardinalityType
<1>8. Cardinality(B) = Cardinality(A) + (IF xs[k] = x THEN 1 ELSE 0)
  BY <1>3, <1>4
<1> QED
  BY <1>4, <1>7, <1>8 DEF A, B, C, CountTo, Count

LEMMA CloseAllEffect ==
  ASSUME NEW s \in ChansType, FreeOK(s), NEW xs \in Seq(Chan),
         \A x \in Chan : Count(xs, x) <= s.of[x].ref,
         NEW t, t = CloseAll(s, xs)
  PROVE  /\ t \in ChansType /\ FreeOK(t) /\ SameButRefs(s, t)
         /\ \A y \in Chan : t.of[y].ref = s.of[y].ref - Count(xs, y)
<1> DEFINE n == Len(xs)
<1>0. n \in Nat /\ (\A i \in 1..n : xs[i] \in Chan) /\ \A x \in Chan : s.of[x].ref \in Nat
  BY DEF ChansType, ChanType
<1>1. PICK f \in [0..n -> ChansType] :
        /\ f[0] = s /\ \A i \in 1..n : f[i] = Close(f[i - 1], xs[i])
        /\ CloseAll(s, xs) = f[n]
  BY CloseAllRec
<1> DEFINE Good(i) == /\ FreeOK(f[i]) /\ SameButRefs(s, f[i])
                      /\ \A y \in Chan : f[i].of[y].ref = s.of[y].ref - CountTo(xs, i, y)
           T == {i \in 0..n : Good(i)}
<1>2. 0 \in T
  <2>1. \A y : {j \in 1..0 : xs[j] = y} = {}
    OBVIOUS
  <2>2. \A y : CountTo(xs, 0, y) = 0
    BY <2>1, FS_EmptySet DEF CountTo
  <2>3. SameButRefs(s, s)
    BY DEF SameButRefs
  <2> QED
    BY <1>0, <1>1, <2>2, <2>3
<1>3. ASSUME NEW i \in 0..(n - 1), i \in T
      PROVE  i + 1 \in T
  <2> DEFINE k == i + 1
             x == xs[k]
  <2>1. k \in 1..n /\ k - 1 = i /\ x \in Chan /\ i \in 0..n /\ k \in 0..n
    BY <1>0
  <2>2. \A y : CountTo(xs, k, y) = CountTo(xs, i, y) + (IF x = y THEN 1 ELSE 0) /\ CountTo(xs, i, y) \in Nat
    <3> HIDE DEF k
    <3> QED
      BY <2>1, CountPrefix
  <2>3. CountTo(xs, k, x) <= Count(xs, x)
    <3> HIDE DEF k
    <3> QED
      BY <2>1, CountPrefix
  <2>4. Count(xs, x) <= s.of[x].ref /\ Count(xs, x) \in Nat
    BY <2>1, CountType
  <2>5. f[i] \in ChansType /\ FreeOK(f[i]) /\ SameButRefs(s, f[i])
        /\ \A y \in Chan : f[i].of[y].ref = s.of[y].ref - CountTo(xs, i, y)
    BY <1>3, <2>1
  <2>6. f[i].of[x].ref > 0
    BY <1>0, <2>1, <2>2, <2>3, <2>4, <2>5
  <2> DEFINE a == f[i]
             b == f[k]
  <2>7. b = Close(a, x)
    BY <1>1, <2>1
  <2>8. a \in ChansType /\ FreeOK(a) /\ a.of[x].ref > 0
    BY <2>5, <2>6
  <2>9. x \in Chan
    BY <2>1
  <2> HIDE DEF a, b, x
  <2>10. /\ FreeOK(b) /\ SameButRefs(a, b)
         /\ \A y \in Chan : b.of[y].ref = a.of[y].ref - (IF y = x THEN 1 ELSE 0)
    BY <2>7, <2>8, <2>9, CloseEffect
  <2>11. SameButRefs(s, a) /\ \A y \in Chan : a.of[y].ref = s.of[y].ref - CountTo(xs, i, y)
    BY <2>5 DEF a
  <2>12. SameButRefs(s, b)
    BY <2>10, <2>11 DEF SameButRefs
  <2>13. \A y \in Chan : b.of[y].ref = s.of[y].ref - CountTo(xs, k, y)
    <3> HIDE DEF k, n
    <3> TAKE y \in Chan
    <3> DEFINE p == CountTo(xs, k, y)
               q == CountTo(xs, i, y)
    <3>1. p = q + (IF x = y THEN 1 ELSE 0) /\ q \in Nat
      BY <2>2
    <3>2. a.of[y].ref = s.of[y].ref - q /\ s.of[y].ref \in Nat
      BY <1>0, <2>11
    <3>3. b.of[y].ref = a.of[y].ref - (IF y = x THEN 1 ELSE 0)
      BY <2>10
    <3> HIDE DEF p, q
    <3>4. b.of[y].ref = s.of[y].ref - p
      BY <3>1, <3>2, <3>3
    <3> QED
      BY <3>4 DEF p
  <2> QED
    BY <2>1, <2>10, <2>12, <2>13 DEF b
<1> HIDE DEF T
<1>4. n \in T
  <2>1. \A i \in 0..n : i \in T
    BY <1>0, <1>2, <1>3, Upto
  <2> QED
    BY <1>0, <2>1
<1>5. t = f[n] /\ f[n] \in ChansType
  BY <1>0, <1>1
<1> QED
  BY <1>4, <1>5 DEF T, Count, CountTo

LEMMA IncrefAllEffect ==
  ASSUME NEW s \in ChansType, FreeOK(s), NEW n \in [Chan -> Nat],
         \A x \in Chan : n[x] > 0 => s.of[x].ref > 0,
         NEW t, t = IncrefAll(s, n)
  PROVE  /\ t \in ChansType /\ FreeOK(t) /\ SameButRefs(s, t)
         /\ \A y \in Chan : t.of[y].ref = s.of[y].ref + n[y]
<1>1. s.of \in [Chan -> ChanType] /\ s.free \in Seq(Chan) /\ s.panic \in BOOLEAN
  BY DEF ChansType
<1>2. t.of = [x \in Chan |-> [s.of[x] EXCEPT !.ref = @ + n[x]]] /\ t.free = s.free
      /\ t.panic = s.panic /\ t = [of |-> t.of, free |-> t.free, panic |-> t.panic]
  BY <1>1 DEF IncrefAll, ChansType
<1>3. ASSUME NEW y \in Chan
      PROVE  /\ t.of[y] \in ChanType /\ t.of[y].ref = s.of[y].ref + n[y]
             /\ t.of[y].file = s.of[y].file /\ t.of[y].mnt = s.of[y].mnt
             /\ t.of[y].mountid = s.of[y].mountid
             /\ t.of[y].ref = 0 <=> s.of[y].ref = 0
  <2> DEFINE r == s.of[y]
             k == n[y]
             u == [r EXCEPT !.ref = @ + k]
  <2>1. r \in ChanType /\ k \in Nat /\ (k > 0 => r.ref > 0) /\ t.of[y] = u
    BY <1>1, <1>2
  <2> HIDE DEF r, k
  <2>2. r.ref \in Nat /\ r.ref + k \in Nat
    BY <2>1 DEF ChanType
  <2>3. /\ u \in ChanType /\ u.ref = r.ref + k /\ u.file = r.file /\ u.mnt = r.mnt
        /\ u.mountid = r.mountid
    BY <2>1, <2>2 DEF ChanType
  <2>4. u.ref = 0 <=> r.ref = 0
    BY <2>1, <2>2, <2>3
  <2> QED
    BY <2>1, <2>3, <2>4 DEF r, k
<1>4. t.of \in [Chan -> ChanType]
  BY <1>2, <1>3
<1>5. t \in ChansType
  BY <1>1, <1>2, <1>4 DEF ChansType
<1>6. FreeOK(t)
  BY <1>2, <1>3 DEF FreeOK
<1>7. SameButRefs(s, t)
  BY <1>2, <1>3 DEF SameButRefs
<1> QED
  BY <1>3, <1>5, <1>6, <1>7

(* A field of a channel other than its references. *)
WithFields(s, y, r) == [s EXCEPT !.of[y] = r]

LEMMA SetField ==
  ASSUME NEW s \in ChansType, FreeOK(s), NEW y \in Chan, NEW r \in ChanType,
         r.ref = s.of[y].ref, NEW t, t = WithFields(s, y, r)
  PROVE  /\ t \in ChansType /\ FreeOK(t) /\ t.panic = s.panic /\ t.free = s.free
         /\ t.of[y] = r /\ \A z \in Chan : z # y => t.of[z] = s.of[z]
<1> USE DEF WithFields
<1>1. s.of \in [Chan -> ChanType] /\ s.free \in Seq(Chan) /\ s.panic \in BOOLEAN
  BY DEF ChansType
<1>2. /\ t.of = [s.of EXCEPT ![y] = r] /\ t.free = s.free /\ t.panic = s.panic
      /\ t = [of |-> t.of, free |-> t.free, panic |-> t.panic]
  BY DEF ChansType
<1>3. t.of \in [Chan -> ChanType] /\ t.of[y] = r /\ \A z \in Chan : z # y => t.of[z] = s.of[z]
  BY <1>1, <1>2
<1>4. t \in ChansType
  BY <1>1, <1>2, <1>3 DEF ChansType
<1>5. FreeOK(t)
  BY <1>2, <1>3 DEF FreeOK
<1> QED
  BY <1>2, <1>3, <1>4, <1>5

LEMMA CloneEffect ==
  ASSUME NEW s \in ChansType, FreeOK(s), Len(s.free) >= 1, NEW x \in Chan, s.of[x].ref > 0,
         NEW y, y = NewChan(s), NEW t, t = Clone(s, x)
  PROVE  /\ y \in Chan /\ y # x /\ s.of[y].ref = 0
         /\ t \in ChansType /\ FreeOK(t) /\ t.panic = s.panic
         /\ t.free = Tail(s.free) /\ Len(t.free) = Len(s.free) - 1
         /\ t.of[y] = [s.of[x] EXCEPT !.ref = 1]
         /\ \A z \in Chan : z # y => t.of[z] = s.of[z]
<1>1. s.of \in [Chan -> ChanType] /\ s.free \in Seq(Chan) /\ s.panic \in BOOLEAN
  BY DEF ChansType
<1>2. /\ y = s.free[1] /\ y \in Chan /\ DOMAIN s.free = 1..Len(s.free) /\ 1 \in 1..Len(s.free)
      /\ Len(s.free) \in Nat
      /\ Tail(s.free) \in Seq(Chan) /\ Len(Tail(s.free)) = Len(s.free) - 1
      /\ DOMAIN Tail(s.free) = 1..(Len(s.free) - 1)
      /\ \A i \in 1..(Len(s.free) - 1) : Tail(s.free)[i] = s.free[i + 1]
  BY <1>1 DEF NewChan
<1>3. s.of[y].ref = 0 /\ y # x
  BY <1>2 DEF FreeOK, ToSet
<1>4. \A i, j \in 1..Len(s.free) : s.free[i] = s.free[j] => i = j
  BY <1>2 DEF FreeOK, IsInjective
<1>5. ToSet(Tail(s.free)) = ToSet(s.free) \ {y}
  <2>1. ASSUME NEW v \in ToSet(Tail(s.free))
        PROVE  v \in ToSet(s.free) /\ v # y
    <3>1. PICK i \in 1..(Len(s.free) - 1) : v = s.free[i + 1]
      BY <1>2 DEF ToSet
    <3>2. i + 1 \in 1..Len(s.free) /\ i + 1 # 1
      BY <1>2
    <3> QED
      BY <1>2, <1>4, <3>1, <3>2 DEF ToSet
  <2>2. ASSUME NEW v \in ToSet(s.free), v # y
        PROVE  v \in ToSet(Tail(s.free))
    <3>1. PICK i \in 1..Len(s.free) : v = s.free[i]
      BY <1>2 DEF ToSet
    <3>2. i - 1 \in 1..(Len(s.free) - 1) /\ (i - 1) + 1 = i
      BY <1>2, <2>2, <3>1
    <3> QED
      BY <1>2, <3>1, <3>2 DEF ToSet
  <2> QED
    BY <2>1, <2>2
<1>6. IsInjective(Tail(s.free))
  <2>1. \A i \in 1..(Len(s.free) - 1) : i + 1 \in 1..Len(s.free)
    BY <1>2
  <2>2. \A i, j \in 1..(Len(s.free) - 1) : s.free[i + 1] = s.free[j + 1] => i = j
    <3>1. \A i, j \in 1..(Len(s.free) - 1) : i + 1 = j + 1 => i = j
      BY <1>2
    <3> QED
      BY <1>4, <2>1, <3>1
  <2> QED
    BY <1>2, <2>2 DEF IsInjective
<1> DEFINE r == [s.of[x] EXCEPT !.ref = 1]
<1>7. r \in ChanType /\ r.ref = 1
  BY <1>1 DEF ChanType
<1>8. /\ t.of = [s.of EXCEPT ![y] = r] /\ t.free = Tail(s.free) /\ t.panic = s.panic
      /\ t = [of |-> t.of, free |-> t.free, panic |-> t.panic]
  <2>1. s.of[x].ref # 0
    BY <1>1 DEF ChanType
  <2> QED
    BY <1>1, <1>2, <2>1 DEF Clone, ChansType
<1> HIDE DEF r
<1>9. t.of \in [Chan -> ChanType] /\ t.of[y] = r /\ \A z \in Chan : z # y => t.of[z] = s.of[z]
  BY <1>1, <1>2, <1>7, <1>8
<1>10. t \in ChansType
  BY <1>1, <1>2, <1>8, <1>9 DEF ChansType
<1>11. FreeOK(t)
  <2>1. IsInjective(t.free)
    BY <1>6, <1>8
  <2>2. \A z \in Chan : z \in ToSet(t.free) <=> z \in ToSet(s.free) /\ z # y
    BY <1>5, <1>8
  <2>3. ASSUME NEW z \in Chan
        PROVE  t.of[z].ref = 0 <=> z \in ToSet(t.free)
    <3>1. CASE z = y
      BY <1>7, <1>9, <2>2, <3>1
    <3>2. CASE z # y
      BY <1>9, <2>2, <3>2 DEF FreeOK
    <3> QED
      BY <3>1, <3>2
  <2> QED
    BY <2>1, <2>3 DEF FreeOK
<1> QED
  BY <1>2, <1>3, <1>8, <1>9, <1>10, <1>11 DEF r

-----------------------------------------------------------------------------
(* Who has a channel. *)

(* HeadOrder has every file once. *)
LEMMA HeadOrderIs ==
  /\ HeadOrder \in Seq(File) /\ Len(HeadOrder) \in Nat
  /\ \A i \in 1..Len(HeadOrder) : HeadOrder[i] \in File
  /\ \A d \in File : \E i \in 1..Len(HeadOrder) : HeadOrder[i] = d
  /\ \A i, j \in 1..Len(HeadOrder) : HeadOrder[i] = HeadOrder[j] => i = j
  /\ IsFiniteSet(File)
<1>1. HeadOrder \in Seq(File) /\ IsInjective(HeadOrder) /\ ToSet(HeadOrder) = File
  BY NameSpaceAssumption
<1>2. DOMAIN HeadOrder = 1..Len(HeadOrder) /\ Len(HeadOrder) \in Nat
      /\ \A i \in 1..Len(HeadOrder) : HeadOrder[i] \in File
  BY <1>1
<1>3. \A d \in File : \E i \in 1..Len(HeadOrder) : HeadOrder[i] = d
  BY <1>1, <1>2, Zenon DEF ToSet
<1>4. \A i, j \in 1..Len(HeadOrder) : HeadOrder[i] = HeadOrder[j] => i = j
  BY <1>1, <1>2, Zenon DEF IsInjective
<1>5. IsFiniteSet(File)
  <2>1. IsFiniteSet(1..Len(HeadOrder))
    BY <1>2, FS_Interval
  <2> DEFINE f == [i \in 1..Len(HeadOrder) |-> HeadOrder[i]]
  <2>2. f \in Surjection(1..Len(HeadOrder), File)
    BY <1>2, <1>3 DEF Surjection
  <2> QED
    BY <2>1, <2>2, FS_Surjection
<1> QED
  BY <1>1, <1>2, <1>3, <1>4, <1>5

LEMMA RefsFinite ==
  ASSUME TypeOK, NEW x
  PROVE  /\ IsFiniteSet(MountsTo(x)) /\ IsFiniteSet(HeadsOf(x)) /\ IsFiniteSet(SlashesOf(x))
         /\ IsFiniteSet(DotsOf(x)) /\ IsFiniteSet(FdsOf(x)) /\ IsFiniteSet(WalksOf(x))
         /\ IsFiniteSet(GotOf(1, x)) /\ IsFiniteSet(GotOf(2, x))
<1>1. IsFiniteSet(Proc) /\ IsFiniteSet(Group) /\ IsFiniteSet(Mount)
  <2>1. NMount \in Nat
    BY NameSpaceAssumption
  <2> QED
    BY <2>1, NameSpaceAssumption, FS_Interval DEF Mount
<1>2. IsFiniteSet(Group \X File)
  <2>1. IsFiniteSet(File)
    BY HeadOrderIs
  <2> QED
    BY <1>1, <2>1, FS_Product
<1>3. /\ MountsTo(x) \in SUBSET Mount /\ HeadsOf(x) \in SUBSET (Group \X File)
      /\ SlashesOf(x) \in SUBSET Group /\ DotsOf(x) \in SUBSET Group
      /\ FdsOf(x) \in SUBSET Proc /\ WalksOf(x) \in SUBSET Proc
      /\ GotOf(1, x) \in SUBSET Proc /\ GotOf(2, x) \in SUBSET Proc
  BY DEF MountsTo, HeadsOf, SlashesOf, DotsOf, FdsOf, WalksOf, GotOf
<1> QED
  BY <1>1, <1>2, <1>3, FS_Subset

LEMMA RefsType ==
  ASSUME TypeOK, NEW x
  PROVE  /\ Cardinality(MountsTo(x)) \in Nat /\ Cardinality(HeadsOf(x)) \in Nat
         /\ Cardinality(SlashesOf(x)) \in Nat /\ Cardinality(DotsOf(x)) \in Nat
         /\ Cardinality(FdsOf(x)) \in Nat /\ Cardinality(WalksOf(x)) \in Nat
         /\ Cardinality(GotOf(1, x)) \in Nat /\ Cardinality(GotOf(2, x)) \in Nat
         /\ Refs(x) \in Nat
<1>1. /\ Cardinality(MountsTo(x)) \in Nat /\ Cardinality(HeadsOf(x)) \in Nat
      /\ Cardinality(SlashesOf(x)) \in Nat /\ Cardinality(DotsOf(x)) \in Nat
      /\ Cardinality(FdsOf(x)) \in Nat /\ Cardinality(WalksOf(x)) \in Nat
      /\ Cardinality(GotOf(1, x)) \in Nat /\ Cardinality(GotOf(2, x)) \in Nat
  BY RefsFinite, FS_CardinalityType
<1> QED
  BY <1>1 DEF Refs

(* How often prog p has x. *)
Own(p, x) ==
    (IF fd[p] = x THEN 1 ELSE 0) + (IF w[p] = x /\ at[p] \in HasWalk THEN 1 ELSE 0)
  + (IF 1 <= Len(got[p]) /\ got[p][1] = x THEN 1 ELSE 0)
  + (IF 2 <= Len(got[p]) /\ got[p][2] = x THEN 1 ELSE 0)

(* A step of p changes nothing of the other progs. *)
OthersKeep(p) ==
  \A q \in Proc \ {p} :
    /\ fd'[q] = fd[q] /\ at'[q] = at[q] /\ job'[q] = job[q] /\ name'[q] = name[q]
    /\ c'[q] = c[q] /\ w'[q] = w[q] /\ got'[q] = got[q]

LEMMA CallRefs ==
  ASSUME TypeOK, TypeOK', NEW p \in Proc, OthersKeep(p), NEW x,
         mount' = mount, head' = head, group' = group, grp' = grp,
         at[p] # "setdot", at'[p] # "setdot"
  PROVE  /\ Refs(x)' + Own(p, x) = Refs(x) + Own(p, x)'
         /\ Own(p, x) \in Nat /\ Own(p, x)' \in Nat /\ Refs(x) \in Nat /\ Refs(x)' \in Nat
<1>1. MountsTo(x)' = MountsTo(x) /\ HeadsOf(x)' = HeadsOf(x) /\ SlashesOf(x)' = SlashesOf(x)
  BY DEF MountsTo, HeadsOf, SlashesOf, To
<1>2. DotsOf(x)' = DotsOf(x)
  <2>1. \A q \in Proc : at'[q] # "setdot" <=> at[q] # "setdot"
    BY DEF OthersKeep
  <2> QED
    BY <2>1 DEF DotsOf
<1>3. /\ FdsOf(x) \ {p} = FdsOf(x)' \ {p} /\ WalksOf(x) \ {p} = WalksOf(x)' \ {p}
      /\ GotOf(1, x) \ {p} = GotOf(1, x)' \ {p} /\ GotOf(2, x) \ {p} = GotOf(2, x)' \ {p}
  <2>1. FdsOf(x) \ {p} = FdsOf(x)' \ {p}
    BY DEF OthersKeep, FdsOf
  <2>2. WalksOf(x) \ {p} = WalksOf(x)' \ {p}
    BY DEF OthersKeep, WalksOf
  <2>3. GotOf(1, x) \ {p} = GotOf(1, x)' \ {p}
    BY DEF OthersKeep, GotOf
  <2>4. GotOf(2, x) \ {p} = GotOf(2, x)' \ {p}
    BY DEF OthersKeep, GotOf
  <2> QED
    BY <2>1, <2>2, <2>3, <2>4
<1>4. /\ p \in FdsOf(x) <=> fd[p] = x
      /\ p \in FdsOf(x)' <=> fd'[p] = x
      /\ p \in WalksOf(x) <=> w[p] = x /\ at[p] \in HasWalk
      /\ p \in WalksOf(x)' <=> w'[p] = x /\ at'[p] \in HasWalk
      /\ p \in GotOf(1, x) <=> 1 <= Len(got[p]) /\ got[p][1] = x
      /\ p \in GotOf(1, x)' <=> 1 <= Len(got'[p]) /\ got'[p][1] = x
      /\ p \in GotOf(2, x) <=> 2 <= Len(got[p]) /\ got[p][2] = x
      /\ p \in GotOf(2, x)' <=> 2 <= Len(got'[p]) /\ got'[p][2] = x
  BY DEF FdsOf, WalksOf, GotOf, HasWalk
<1> DEFINE f == FdsOf(x)
           ff == FdsOf(x)'
           u == WalksOf(x)
           uu == WalksOf(x)'
           a == GotOf(1, x)
           aa == GotOf(1, x)'
           b == GotOf(2, x)
           bb == GotOf(2, x)'
           has(S) == IF p \in S THEN 1 ELSE 0
           rest == Cardinality(MountsTo(x)) + Cardinality(HeadsOf(x))
                   + Cardinality(SlashesOf(x)) + Cardinality(DotsOf(x))
<1>5. /\ Own(p, x) = has(f) + has(u) + has(a) + has(b)
      /\ Own(p, x)' = has(ff) + has(uu) + has(aa) + has(bb)
  BY <1>4 DEF Own, HasWalk
<1>6. rest \in Nat
  BY RefsType
<1>7. /\ Refs(x) = rest + Cardinality(f) + Cardinality(u) + Cardinality(a) + Cardinality(b)
      /\ Refs(x)' = rest + Cardinality(ff) + Cardinality(uu) + Cardinality(aa) + Cardinality(bb)
  BY <1>1, <1>2 DEF Refs
<1>8. /\ IsFiniteSet(f) /\ IsFiniteSet(u) /\ IsFiniteSet(a) /\ IsFiniteSet(b)
      /\ f \ {p} = ff \ {p} /\ u \ {p} = uu \ {p} /\ a \ {p} = aa \ {p} /\ b \ {p} = bb \ {p}
  BY <1>3, RefsFinite
<1> HIDE DEF f, ff, u, uu, a, aa, b, bb, rest
<1>9. /\ Cardinality(f) \in Nat /\ Cardinality(ff) \in Nat
      /\ Cardinality(ff) + has(f) = Cardinality(f) + has(ff)
  BY <1>8, OneDiffers
<1>10. /\ Cardinality(u) \in Nat /\ Cardinality(uu) \in Nat
       /\ Cardinality(uu) + has(u) = Cardinality(u) + has(uu)
  BY <1>8, OneDiffers
<1>11. /\ Cardinality(a) \in Nat /\ Cardinality(aa) \in Nat
       /\ Cardinality(aa) + has(a) = Cardinality(a) + has(aa)
  BY <1>8, OneDiffers
<1>12. /\ Cardinality(b) \in Nat /\ Cardinality(bb) \in Nat
       /\ Cardinality(bb) + has(b) = Cardinality(b) + has(bb)
  BY <1>8, OneDiffers
<1>13. has(f) \in Nat /\ has(ff) \in Nat /\ has(u) \in Nat /\ has(uu) \in Nat
       /\ has(a) \in Nat /\ has(aa) \in Nat /\ has(b) \in Nat /\ has(bb) \in Nat
  OBVIOUS
<1> HIDE DEF has
<1>14. Own(p, x) \in Nat /\ Own(p, x)' \in Nat
  BY <1>5, <1>13
<1>15. Refs(x) \in Nat /\ Refs(x)' \in Nat
  BY <1>6, <1>7, <1>9, <1>10, <1>11, <1>12
<1>16. Refs(x)' + Own(p, x) = Refs(x) + Own(p, x)'
  <2> DEFINE s == Cardinality(f) + Cardinality(u)
             ss == Cardinality(ff) + Cardinality(uu)
             t == Cardinality(a) + Cardinality(b)
             tt == Cardinality(aa) + Cardinality(bb)
             o == has(f) + has(u)
             oo == has(ff) + has(uu)
             q == has(a) + has(b)
             qq == has(aa) + has(bb)
  <2>1. /\ s \in Nat /\ ss \in Nat /\ t \in Nat /\ tt \in Nat
        /\ o \in Nat /\ oo \in Nat /\ q \in Nat /\ qq \in Nat
    BY <1>9, <1>10, <1>11, <1>12, <1>13
  <2>2. ss + o = s + oo
    BY <1>9, <1>10, <1>13
  <2>3. tt + q = t + qq
    BY <1>11, <1>12, <1>13
  <2>4. Refs(x) = rest + s + t /\ Refs(x)' = rest + ss + tt
    BY <1>6, <1>7, <1>9, <1>10, <1>11, <1>12
  <2>5. Own(p, x) = o + q /\ Own(p, x)' = oo + qq
    BY <1>5, <1>13
  <2> HIDE DEF s, ss, t, tt, o, oo, q, qq
  <2> QED
    BY <1>6, <2>1, <2>2, <2>3, <2>4, <2>5
<1> QED
  BY <1>14, <1>15, <1>16

LEMMA OneOf ==
  ASSUME NEW S, IsFiniteSet(S), NEW p
  PROVE  /\ Cardinality(S) \in Nat /\ (Cardinality(S) = 0 <=> S = {})
         /\ p \in S => Cardinality(S) >= 1 /\ (Cardinality(S) = 1 => S = {p})
<1>1. Cardinality(S) \in Nat /\ (Cardinality(S) = 0 <=> S = {})
  BY FS_CardinalityType, FS_EmptySet
<1>2. ASSUME p \in S, Cardinality(S) = 1
      PROVE  S = {p}
  <2>1. IsFiniteSet(S \ {p}) /\ Cardinality(S \ {p}) = 0
    BY <1>2, FS_RemoveElement
  <2>2. S \ {p} = {}
    BY <2>1, FS_EmptySet
  <2> QED
    BY <1>2, <2>2
<1> QED
  BY <1>1, <1>2

(* A channel that a prog has is its own alone. *)
LEMMA OwnAlone ==
  ASSUME TypeOK, RefsExact, Private, NEW p \in Proc, NEW x \in Chan, Own(p, x) > 0
  PROVE  /\ ch.of[x].ref = 1 /\ Own(p, x) = 1
         /\ \A q \in Proc \ {p} : Own(q, x) = 0
         /\ MountsTo(x) = {} /\ HeadsOf(x) = {} /\ SlashesOf(x) = {} /\ DotsOf(x) = {}
<1> DEFINE m == MountsTo(x)
           h == HeadsOf(x)
           s == SlashesOf(x)
           d == DotsOf(x)
           f == FdsOf(x)
           u == WalksOf(x)
           a == GotOf(1, x)
           b == GotOf(2, x)
           is(S, q) == IF q \in S THEN 1 ELSE 0
           r == ch.of[x].ref
<1>1. \A q \in Proc : Own(q, x) = is(f, q) + is(u, q) + is(a, q) + is(b, q)
  BY DEF FdsOf, WalksOf, GotOf, Own
<1>2. /\ IsFiniteSet(m) /\ IsFiniteSet(h) /\ IsFiniteSet(s) /\ IsFiniteSet(d)
      /\ IsFiniteSet(f) /\ IsFiniteSet(u) /\ IsFiniteSet(a) /\ IsFiniteSet(b)
  BY RefsFinite
<1>3. r = Cardinality(m) + Cardinality(h) + Cardinality(s) + Cardinality(d)
          + Cardinality(f) + Cardinality(u) + Cardinality(a) + Cardinality(b)
  BY DEF Refs, RefsExact
<1>4. r > 1 => f = {} /\ u = {} /\ a = {} /\ b = {}
  BY DEF Private
<1> HIDE DEF m, h, s, d, f, u, a, b, r
<1> DEFINE C(S) == Cardinality(S)
<1>5. /\ C(m) \in Nat /\ C(h) \in Nat /\ C(s) \in Nat /\ C(d) \in Nat
      /\ C(f) \in Nat /\ C(u) \in Nat /\ C(a) \in Nat /\ C(b) \in Nat
      /\ (C(m) = 0 => m = {}) /\ (C(h) = 0 => h = {}) /\ (C(s) = 0 => s = {}) /\ (C(d) = 0 => d = {})
      /\ (C(f) = 0 => f = {}) /\ (C(u) = 0 => u = {}) /\ (C(a) = 0 => a = {}) /\ (C(b) = 0 => b = {})
  BY <1>2, OneOf
<1>6. \A q \in Proc : /\ q \in f => C(f) >= 1 /\ (C(f) = 1 => f = {q})
                      /\ q \in u => C(u) >= 1 /\ (C(u) = 1 => u = {q})
                      /\ q \in a => C(a) >= 1 /\ (C(a) = 1 => a = {q})
                      /\ q \in b => C(b) >= 1 /\ (C(b) = 1 => b = {q})
  BY <1>2, OneOf
<1>7. p \in f \/ p \in u \/ p \in a \/ p \in b
  BY <1>1
<1>8. r = C(m) + C(h) + C(s) + C(d) + C(f) + C(u) + C(a) + C(b)
  BY <1>3
<1> HIDE DEF C
<1>9. r = 1
  <2>1. r >= 1
    BY <1>5, <1>6, <1>7, <1>8
  <2>2. ~(r > 1)
    BY <1>4, <1>7
  <2>3. r \in Nat
    BY <1>5, <1>8
  <2> QED
    BY <2>1, <2>2, <2>3
<1>10. C(m) = 0 /\ C(h) = 0 /\ C(s) = 0 /\ C(d) = 0
  <2>1. C(f) >= 1 \/ C(u) >= 1 \/ C(a) >= 1 \/ C(b) >= 1
    BY <1>6, <1>7
  <2> DEFINE t == C(m) + C(h) + C(s) + C(d)
             e == C(f) + C(u) + C(a) + C(b)
  <2>2. t \in Nat /\ e \in Nat /\ e >= 1
    BY <1>5, <2>1
  <2>3. r = t + e
    BY <1>5, <1>8
  <2>4. t = 0
    <3> HIDE DEF t, e
    <3> QED
      BY <2>2, <2>3, <1>9
  <2> QED
    BY <1>5, <2>4
<1>11. \/ f = {p} /\ u = {} /\ a = {} /\ b = {}
       \/ u = {p} /\ f = {} /\ a = {} /\ b = {}
       \/ a = {p} /\ u = {} /\ f = {} /\ b = {}
       \/ b = {p} /\ u = {} /\ a = {} /\ f = {}
  <2>1. CASE p \in f
    <3>1. C(f) = 1 /\ C(u) = 0 /\ C(a) = 0 /\ C(b) = 0
      BY <2>1, <1>5, <1>6, <1>8, <1>9
    <3> QED
      BY <3>1, <2>1, <1>5, <1>6
  <2>2. CASE p \in u
    <3>1. C(u) = 1 /\ C(f) = 0 /\ C(a) = 0 /\ C(b) = 0
      BY <2>2, <1>5, <1>6, <1>8, <1>9
    <3> QED
      BY <3>1, <2>2, <1>5, <1>6
  <2>3. CASE p \in a
    <3>1. C(a) = 1 /\ C(u) = 0 /\ C(f) = 0 /\ C(b) = 0
      BY <2>3, <1>5, <1>6, <1>8, <1>9
    <3> QED
      BY <3>1, <2>3, <1>5, <1>6
  <2>4. CASE p \in b
    <3>1. C(b) = 1 /\ C(u) = 0 /\ C(a) = 0 /\ C(f) = 0
      BY <2>4, <1>5, <1>6, <1>8, <1>9
    <3> QED
      BY <3>1, <2>4, <1>5, <1>6
  <2> QED
    BY <2>1, <2>2, <2>3, <2>4, <1>7
<1>12. Own(p, x) = 1 /\ \A q \in Proc \ {p} : Own(q, x) = 0
  BY <1>1, <1>11
<1> QED
  BY <1>5, <1>9, <1>10, <1>12 DEF r, m, h, s, d

(* A channel of the tables is no prog's own, and has not been freed. *)
LEMMA Shared ==
  ASSUME TypeOK, RefsExact, Private, NEW x \in Chan,
         MountsTo(x) # {} \/ HeadsOf(x) # {} \/ SlashesOf(x) # {} \/ DotsOf(x) # {}
  PROVE  ch.of[x].ref > 0 /\ \A p \in Proc : Own(p, x) = 0
<1>1. /\ IsFiniteSet(MountsTo(x)) /\ IsFiniteSet(HeadsOf(x))
      /\ IsFiniteSet(SlashesOf(x)) /\ IsFiniteSet(DotsOf(x))
  BY RefsFinite
<1> DEFINE C(S) == Cardinality(S)
<1>2. /\ C(MountsTo(x)) = 0 => MountsTo(x) = {}
      /\ C(HeadsOf(x)) = 0 => HeadsOf(x) = {}
      /\ C(SlashesOf(x)) = 0 => SlashesOf(x) = {}
      /\ C(DotsOf(x)) = 0 => DotsOf(x) = {}
  BY <1>1, OneOf
<1>3. ch.of[x].ref > 0
  <2> DEFINE m == C(MountsTo(x))
             h == C(HeadsOf(x))
             s == C(SlashesOf(x))
             d == C(DotsOf(x))
             rest == C(FdsOf(x)) + C(WalksOf(x)) + C(GotOf(1, x)) + C(GotOf(2, x))
  <2>1. m \in Nat /\ h \in Nat /\ s \in Nat /\ d \in Nat /\ rest \in Nat
    BY RefsType
  <2>2. ch.of[x].ref = m + h + s + d + rest
    <3>1. /\ C(FdsOf(x)) \in Nat /\ C(WalksOf(x)) \in Nat
          /\ C(GotOf(1, x)) \in Nat /\ C(GotOf(2, x)) \in Nat
      BY RefsType
    <3>2. ch.of[x].ref = m + h + s + d + C(FdsOf(x)) + C(WalksOf(x)) + C(GotOf(1, x)) + C(GotOf(2, x))
      BY DEF Refs, RefsExact
    <3> HIDE DEF C, m, h, s, d
    <3> QED
      BY <2>1, <3>1, <3>2
  <2>3. m # 0 \/ h # 0 \/ s # 0 \/ d # 0
    BY <1>2
  <2> HIDE DEF m, h, s, d, rest
  <2> QED
    BY <2>1, <2>2, <2>3
<1>4. ASSUME NEW p \in Proc
      PROVE  Own(p, x) = 0
  <2>1. Own(p, x) \in Nat
    BY DEF Own
  <2>2. ~(Own(p, x) > 0)
    BY OwnAlone
  <2> QED
    BY <2>1, <2>2
<1> QED
  BY <1>3, <1>4

(* The channels of heads, groups and mounts that are used. *)
LEMMA TableChan ==
  ASSUME TypeOK, RefsExact, Private, ListInv
  PROVE  /\ \A m \in Mount : mount[m].live =>
              To(m) \in Chan /\ ch.of[To(m)].ref > 0 /\ \A p \in Proc : Own(p, To(m)) = 0
         /\ \A g \in Group, d \in File : LET x == head[g][d].from IN x # Nil =>
              x \in Chan /\ ch.of[x].ref > 0 /\ \A p \in Proc : Own(p, x) = 0
         /\ \A g \in Group : LET x == group[g].slash IN x # Nil =>
              x \in Chan /\ ch.of[x].ref > 0 /\ \A p \in Proc : Own(p, x) = 0
         /\ \A g \in Group : LET x == group[g].dot IN
              x # Nil /\ (\A p \in Proc : grp[p] = g => at[p] # "setdot") =>
                x \in Chan /\ ch.of[x].ref > 0 /\ \A p \in Proc : Own(p, x) = 0
<1>1. ASSUME NEW m \in Mount, mount[m].live
      PROVE  To(m) \in Chan /\ ch.of[To(m)].ref > 0 /\ \A p \in Proc : Own(p, To(m)) = 0
  <2>1. To(m) \in Chan
    BY <1>1 DEF ListInv
  <2>2. m \in MountsTo(To(m))
    BY <1>1 DEF MountsTo
  <2> QED
    BY <2>1, <2>2, Shared
<1>2. ASSUME NEW g \in Group, NEW d \in File, NEW x, x = head[g][d].from, x # Nil
      PROVE  x \in Chan /\ ch.of[x].ref > 0 /\ \A p \in Proc : Own(p, x) = 0
  <2>1. x \in Chan
    BY <1>2 DEF TypeOK
  <2>2. <<g, d>> \in HeadsOf(x)
    BY <1>2 DEF HeadsOf
  <2> QED
    BY <2>1, <2>2, Shared
<1>3. ASSUME NEW g \in Group, NEW x, x = group[g].slash, x # Nil
      PROVE  x \in Chan /\ ch.of[x].ref > 0 /\ \A p \in Proc : Own(p, x) = 0
  <2>1. x \in Chan
    BY <1>3 DEF TypeOK
  <2>2. g \in SlashesOf(x)
    BY <1>3 DEF SlashesOf
  <2> QED
    BY <2>1, <2>2, Shared
<1>4. ASSUME NEW g \in Group, NEW x, x = group[g].dot, x # Nil,
             \A p \in Proc : grp[p] = g => at[p] # "setdot"
      PROVE  x \in Chan /\ ch.of[x].ref > 0 /\ \A p \in Proc : Own(p, x) = 0
  <2>1. x \in Chan
    BY <1>4 DEF TypeOK
  <2>2. g \in DotsOf(x)
    BY <1>4 DEF DotsOf
  <2> QED
    BY <2>1, <2>2, Shared
<1> QED
  BY <1>1, <1>2, <1>3, <1>4

(* What x shows stays if the mounts of its union keep their ids, and if    *)
(* nothing happens to x.                                                   *)
SameFields(x) == /\ ch'.of[x].file = ch.of[x].file /\ ch'.of[x].mnt = ch.of[x].mnt
                 /\ ch'.of[x].mountid = ch.of[x].mountid

(* What is mounted stays the same file.                                    *)
FilesKept == \A m \in Mount : mount[m].live => ch'.of[To(m)].file = ch.of[To(m)].file

LEMMA MountedFiles ==
  ASSUME IndInv, NEW p \in Proc, \A z \in Chan : ch.of[z].ref > 0 /\ Own(p, z) = 0 => SameFields(z)
  PROVE  FilesKept
<1>1. \A m \in Mount : mount[m].live => SameFields(To(m))
  BY TableChan DEF IndInv
<1> QED
  BY <1>1 DEF FilesKept, SameFields

LEMMA OwnsThem ==
  ASSUME TypeOK, NEW p \in Proc
  PROVE  /\ fd[p] # Nil => fd[p] \in Chan /\ Own(p, fd[p]) > 0
         /\ at[p] \in HasWalk => Own(p, w[p]) > 0
         /\ \A i \in 1..Len(got[p]) : got[p][i] \in Chan /\ Own(p, got[p][i]) > 0
<1>1. fd[p] \in Chan \cup {Nil} /\ got[p] \in Seq(Chan) /\ Len(got[p]) <= 2 /\ Len(got[p]) \in Nat
  BY DEF TypeOK
<1>2. \A i \in 1..Len(got[p]) : i = 1 \/ i = 2
  BY <1>1
<1>3. \A i \in 1..Len(got[p]) : got[p][i] \in Chan
  BY <1>1
<1>4. Own(p, fd[p]) > 0
  BY DEF Own
<1>5. at[p] \in HasWalk => Own(p, w[p]) > 0
  BY DEF Own
<1>6. \A i \in 1..Len(got[p]) : Own(p, got[p][i]) > 0
  <2>1. 1 <= Len(got[p]) => Own(p, got[p][1]) > 0
    BY DEF Own
  <2>2. 2 <= Len(got[p]) => Own(p, got[p][2]) > 0
    BY DEF Own
  <2> QED
    BY <1>1, <1>2, <2>1, <2>2
<1> QED
  BY <1>1, <1>3, <1>4, <1>5, <1>6

(* A step of p that leaves the tables alone, and channels that others have. *)
CallOnly(p) ==
  /\ OthersKeep(p) /\ UNCHANGED <<tables, grp, fork>>
  /\ at[p] # "copied" /\ at'[p] # "copied"
  /\ FreeOK(ch') /\ ~ch'.panic
  /\ \A x \in Chan :
       /\ ch'.of[x].ref > 0 => ch'.of[x].file \in File
       /\ ch'.of[x].ref > 1 => ch.of[x].ref > 1
       /\ Own(p, x)' > 0 => ~(ch'.of[x].ref > 1)
       /\ ch.of[x].ref > 0 /\ Own(p, x) = 0 => SameFields(x)

LEMMA TablesKeep ==
  ASSUME TypeOK, mount' = mount, head' = head, mountid' = mountid, grp' = grp, fork' = fork,
         \A q \in Proc : at'[q] = "copied" <=> at[q] = "copied"
  PROVE  /\ \A g \in Group : /\ Users(g)' = Users(g) /\ Grows(g)' = Grows(g) /\ Table(g)' = Table(g)
                             /\ \A d \in File : List(g, d)' = List(g, d) /\ MountsOn(g, d)' = MountsOn(g, d)
         /\ \A m \in Mount : To(m)' = To(m)
         /\ ListInv => ListInv'
         /\ IdInv => IdInv'
         /\ CopyInv => CopyInv'
<1>1. /\ mount' = mount /\ head' = head /\ mountid' = mountid
      /\ grp' = grp /\ fork' = fork
      /\ \A q \in Proc : at'[q] = "copied" <=> at[q] = "copied"
  OBVIOUS
<1>2. \A g \in Group, d \in File : List(g, d)' = List(g, d)
  BY <1>1 DEF List, ListFrom
<1>3. \A g \in Group, d \in File : MountsOn(g, d)' = MountsOn(g, d)
  BY <1>2 DEF MountsOn
<1>4. \A g \in Group : Users(g)' = Users(g) /\ Grows(g)' = Grows(g)
  BY <1>1 DEF Users, Grows
<1>5. \A g \in Group : Table(g)' = Table(g)
  BY <1>3 DEF Table
<1>6. \A m \in Mount : To(m)' = To(m)
  BY <1>1 DEF To
<1>8. ASSUME ListInv
      PROVE  ListInv'
  BY <1>1, <1>2, <1>3, <1>6, <1>8 DEF ListInv, IsList
<1>9. ASSUME IdInv
      PROVE  IdInv'
  BY <1>1, <1>4, <1>5, <1>9 DEF IdInv
<1>10. ASSUME CopyInv
       PROVE  CopyInv'
  <2>1. \A q \in Proc : fork[q].to \in Group /\ grp[q] \in Group
    BY DEF TypeOK
  <2>2. \A q \in Proc, d \in File : List(fork[q].to, d)' = List(fork[q].to, d)
                                    /\ List(grp[q], d)' = List(grp[q], d)
                                    /\ Table(grp[q])' = Table(grp[q])
    BY <1>1, <1>2, <1>5, <2>1
  <2>3. ASSUME NEW q \in Proc
        PROVE  Copying(q)'
    <3>1. Copying(q)
      BY <1>10 DEF CopyInv
    <3>2. at'[q] = "copied" <=> at[q] = "copied"
      BY <1>1
    <3>3. ToSet(fork[q].order)' = ToSet(fork[q].order)
      BY <1>1
    <3> QED
      <4>1. ASSUME at[q] = "copied", NEW d \in File
            PROVE  /\ Len(List(fork[q].to, d)') = Len(List(grp[q], d)')
                   /\ \A i \in 1..Len(List(grp[q], d)') :
                        List(fork[q].to, d)'[i] = mount'[List(grp[q], d)'[i]].copy
        BY <1>1, <2>2, <3>1, <4>1 DEF Copying
      <4>2. ASSUME at[q] = "copied"
            PROVE  /\ ToSet(fork[q].order)' = Table(grp[q])'
                   /\ \A i, j \in 1..Len(fork'[q].order) : i < j =>
                        mount'[fork'[q].order[i]].mountid < mount'[fork'[q].order[j]].mountid
        <5>1. Table(grp[q])' = Table(grp[q])
          BY <1>1, <1>5, <2>1
        <5> QED
          BY <1>1, <3>1, <3>3, <4>2, <5>1 DEF Copying
      <4> QED
        BY <3>2, <4>1, <4>2 DEF Copying
  <2> QED
    BY <2>3 DEF CopyInv
<1> QED
  BY <1>2, <1>3, <1>4, <1>5, <1>6, <1>8, <1>9, <1>10

LEMMA CallTables ==
  ASSUME TypeOK, NEW p \in Proc, CallOnly(p)
  PROVE  /\ \A g \in Group : /\ Users(g)' = Users(g) /\ Grows(g)' = Grows(g) /\ Table(g)' = Table(g)
                             /\ \A d \in File : List(g, d)' = List(g, d) /\ MountsOn(g, d)' = MountsOn(g, d)
         /\ \A m \in Mount : To(m)' = To(m)
         /\ GroupInv => GroupInv'
         /\ ListInv => ListInv'
         /\ IdInv => IdInv'
         /\ CopyInv => CopyInv'
<1>1. /\ mount' = mount /\ head' = head /\ group' = group /\ mountid' = mountid
      /\ grp' = grp /\ fork' = fork
      /\ \A q \in Proc : at'[q] = "copied" <=> at[q] = "copied"
  BY DEF CallOnly, OthersKeep, tables
<1>2. /\ \A g \in Group : /\ Users(g)' = Users(g) /\ Grows(g)' = Grows(g) /\ Table(g)' = Table(g)
                          /\ \A d \in File : List(g, d)' = List(g, d) /\ MountsOn(g, d)' = MountsOn(g, d)
      /\ \A m \in Mount : To(m)' = To(m)
      /\ ListInv => ListInv'
      /\ IdInv => IdInv'
      /\ CopyInv => CopyInv'
  BY <1>1, TablesKeep
<1>4. \A g \in Group : Users(g)' = Users(g) /\ Grows(g)' = Grows(g)
  BY <1>2
<1>7. ASSUME GroupInv
      PROVE  GroupInv'
  <2>1. \A g \in Group :
       /\ group'[g].ref = Cardinality(Users(g)') + IF Grows(g)' THEN 1 ELSE 0
       /\ Users(g)' # {} => group'[g].slash \in Chan /\ group'[g].dot \in Chan
       /\ Users(g)' = {} => group'[g].slash = Nil /\ group'[g].dot = Nil
       /\ Users(g)' = {} /\ ~Grows(g)' => \A d \in File : head'[g][d] = NoHead
    BY <1>1, <1>4, <1>7 DEF GroupInv
  <2>2. \A q \in Proc : at'[q] = "copied" =>
       /\ Users(fork[q].to)' = {}
       /\ \A r \in Proc \ {q} : at'[r] = "copied" => fork'[r].to # fork'[q].to
    <3>1. \A q \in Proc : fork[q].to \in Group
      BY DEF TypeOK
    <3> QED
      BY <1>1, <1>4, <1>7, <3>1 DEF GroupInv
  <2> QED
    BY <2>1, <2>2 DEF GroupInv
<1> QED
  BY <1>2, <1>7

(* What a prog has shows the same as long as nothing happens to it. *)
LEMMA HeldShows ==
  ASSUME IndInv, mount' = mount, grp' = grp,
         \A g \in Group : Users(g)' = Users(g) /\ Table(g)' = Table(g),
         \A m \in Mount : mount[m].live => SameFields(To(m)),
         NEW q \in Proc, job'[q] = job[q]
  PROVE  /\ \A i \in 1..Len(got[q]) :
              got'[q][i] = got[q][i] /\ SameFields(got[q][i]) => GotShows(q, i)'
         /\ fd'[q] = fd[q] /\ (fd[q] # Nil => SameFields(fd[q])) => FdShows(q)'
<1> USE DEF IndInv
<1>0. Showing(q) /\ grp[q] \in Group /\ \A m \in Mount : To(m)' = To(m)
  BY DEF ShowsInv, TypeOK, To
<1>1. \A x \in Chan, g \in Group : SameFields(x) /\ ShowsIn(g, x) => ShowsIn(g, x)'
  BY DEF ShowsIn, SameFields
<1>2. ASSUME NEW i \in 1..Len(got[q]), got'[q][i] = got[q][i], SameFields(got[q][i])
      PROVE  GotShows(q, i)'
  <2> SUFFICES ASSUME NEW x, x = got[q][i], NEW m, m = ch.of[x].mnt
               PROVE  GotShows(q, i)'
    OBVIOUS
  <2>1. x \in Chan
    BY OwnsThem
  <2>2. GotShows(q, i)
    BY <1>0 DEF Showing
  <2>4. CASE ~(Names(job[q])[i][2] \in {"access", "open"})
    BY <2>4 DEF GotShows
  <2>5. CASE Names(job[q])[i][2] \in {"access", "open"}
    <3>1. ShowsIn(grp[q], x) /\ (m # Nil => FileOf(x) = FileOf(To(m)))
      BY <2>2, <2>5 DEF GotShows
    <3>2. SameFields(x) /\ got'[q][i] = x
      BY <1>2
    <3>3. ShowsIn(grp[q], x)'
      BY <1>0, <1>1, <2>1, <3>1, <3>2
    <3>4. m # Nil => m \in Mount /\ mount[m].live
      <4>1. m # Nil => m \in Table(grp[q])
        BY <3>1 DEF ShowsIn
      <4>2. \A n \in Table(grp[q]) : n \in Mount /\ mount[n].live
        <5>1. \A d \in File : List(grp[q], d) \in Seq(Mount) /\ \A n \in MountsOn(grp[q], d) : mount[n].live
          BY <1>0 DEF ListInv, IsList
        <5>2. \A ms \in Seq(Mount) : \A n \in ToSet(ms) : n \in Mount
          BY DEF ToSet
        <5> QED
          BY <5>1, <5>2 DEF MountsOn, Table
      <4> QED
        BY <4>1, <4>2
    <3>5. ch'.of[x].mnt = m /\ ch'.of[x].file = FileOf(x)
      BY <3>2 DEF SameFields, FileOf
    <3>6. m # Nil => ch'.of[To(m)].file = FileOf(To(m))
      BY <3>4 DEF SameFields, FileOf
    <3>7. m # Nil => To(m)' = To(m)
      BY <1>0, <3>4
    <3>8. ch'.of[x].mnt # Nil => FileOf(x)' = FileOf(To(ch.of[x].mnt))'
      BY <3>1, <3>5, <3>6, <3>7 DEF FileOf
    <3> QED
      BY <3>2, <3>3, <3>8 DEF GotShows
  <2> QED
    BY <2>4, <2>5
<1>3. ASSUME fd'[q] = fd[q], fd[q] # Nil => SameFields(fd[q])
      PROVE  FdShows(q)'
  <2>1. fd[q] # Nil => fd[q] \in Chan
    BY OwnsThem
  <2>2. ASSUME fd[q] # Nil
        PROVE  \E g \in Group : Users(g)' # {} /\ ShowsIn(g, fd[q])'
    <3>1. PICK g \in Group : Users(g) # {} /\ ShowsIn(g, fd[q])
      BY <1>0, <2>2 DEF Showing, FdShows
    <3> QED
      BY <1>1, <1>3, <2>1, <2>2, <3>1
  <2> QED
    BY <1>3, <2>2 DEF FdShows
<1> QED
  BY <1>2, <1>3

LEMMA CallOthers ==
  ASSUME IndInv, TypeOK', NEW p \in Proc, CallOnly(p), RefsExact', NEW q \in Proc \ {p}
  PROVE  /\ Calling(q)' /\ Showing(q)'
         /\ Between(q) /\ (at'[p] = "setdot" => \A r \in Proc \ {p} : grp[r] = grp[p] => at[r] # "setdot")
              => Between(q)'
<1> USE DEF IndInv
<1>1. /\ fd'[q] = fd[q] /\ at'[q] = at[q] /\ job'[q] = job[q] /\ name'[q] = name[q]
      /\ c'[q] = c[q] /\ w'[q] = w[q] /\ got'[q] = got[q]
  BY DEF CallOnly, OthersKeep
<1>2. /\ mount' = mount /\ head' = head /\ group' = group /\ grp' = grp
      /\ \A g \in Group : Users(g)' = Users(g) /\ Table(g)' = Table(g)
      /\ \A m \in Mount : To(m)' = To(m)
  BY CallTables DEF CallOnly, tables
<1>3. Calling(q)'
  <2>1. Calling(q)
    BY DEF CallInv
  <2> QED
    BY <1>1, <2>1 DEF Calling, HasWalk
<1>4. ASSUME Between(q), at'[p] = "setdot" => \A r \in Proc \ {p} : grp[r] = grp[p] => at[r] # "setdot"
      PROVE  Between(q)'
  <2>1. at[q] \in {"unclone", "unclone2"} => \E d \in File : head[grp[q]][d].from = w[q]
    BY <1>4 DEF Between
  <2>2. ASSUME NEW r \in Proc \ {q}, grp[r] = grp[q]
        PROVE  /\ at[q] = "setdot" => at'[r] # "setdot"
               /\ at[q] = "copied" => at'[r] # "copied"
    <3>1. CASE r = p
      BY <1>4, <2>2, <3>1 DEF CallOnly
    <3>2. CASE r # p
      <4>1. at'[r] = at[r]
        BY <3>2 DEF CallOnly, OthersKeep
      <4> QED
        BY <1>4, <2>2, <4>1 DEF Between
    <3> QED
      BY <3>1, <3>2
  <2> QED
    BY <1>1, <1>2, <2>1, <2>2 DEF Between
<1>5. \A x \in Chan : Own(q, x) > 0 => SameFields(x)
  <2>1. ASSUME NEW x \in Chan, Own(q, x) > 0
        PROVE  SameFields(x)
    <3>1. ch.of[x].ref = 1 /\ Own(p, x) = 0
      BY <2>1, OwnAlone
    <3> QED
      BY <3>1 DEF CallOnly
  <2> QED
    BY <2>1
<1>6. \A m \in Mount : mount[m].live => To(m) \in Chan /\ SameFields(To(m))
  <2>1. \A m \in Mount : mount[m].live =>
              To(m) \in Chan /\ ch.of[To(m)].ref > 0 /\ Own(p, To(m)) = 0
    BY TableChan
  <2> QED
    BY <2>1 DEF CallOnly
<1>7. \A x \in Chan, g \in Group : SameFields(x) /\ ShowsIn(g, x) => ShowsIn(g, x)'
  BY <1>2 DEF ShowsIn, SameFields
<1>8. Showing(q)'
  <2>0. Showing(q) /\ grp[q] \in Group
    BY DEF ShowsInv, TypeOK
  <2>1. at[q] = "dev" /\ Head(name[q]) # ".." => ShowsIn(grp[q], w[q])'
    <3>1. at[q] = "dev" => w[q] \in Chan /\ Own(q, w[q]) > 0
      BY OwnsThem DEF CallInv, Calling, HasWalk
    <3> QED
      BY <1>1, <1>2, <1>5, <1>7, <2>0, <3>1 DEF Showing
  <2>2. \A i \in 1..Len(got[q]) : GotShows(q, i)'
    <3>1. \A i \in 1..Len(got[q]) : SameFields(got[q][i])
      BY <1>5, OwnsThem
    <3> QED
      BY <1>1, <1>2, <1>6, <3>1, HeldShows
  <2>3. FdShows(q)'
    <3>1. fd[q] # Nil => SameFields(fd[q])
      BY <1>5, OwnsThem
    <3> QED
      BY <1>1, <1>2, <1>6, <3>1, HeldShows
  <2> QED
    BY <1>1, <2>1, <2>2, <2>3 DEF Showing
<1> QED
  BY <1>3, <1>4, <1>8

LEMMA CallStep ==
  ASSUME IndInv, TypeOK', NEW p \in Proc, CallOnly(p), RefsExact',
         at'[p] \in {"unclone", "unclone2"} => \E d \in File : head[grp[p]][d].from = w'[p],
         at'[p] = "setdot" => \A r \in Proc \ {p} : grp[r] = grp[p] => at[r] # "setdot",
         Calling(p)', Showing(p)'
  PROVE  IndInv' /\ FilesKept
<1>1. ChanInv'
  BY DEF ChanInv, CallOnly, FreeOK
<1>2. Private'
  <2>1. ASSUME NEW x \in Chan, ch'.of[x].ref > 1
        PROVE  FdsOf(x)' = {} /\ WalksOf(x)' = {} /\ GotOf(1, x)' = {} /\ GotOf(2, x)' = {}
    <3>1. ch.of[x].ref > 1 /\ ~(Own(p, x)' > 0)
      BY <2>1 DEF CallOnly
    <3>2. FdsOf(x) = {} /\ WalksOf(x) = {} /\ GotOf(1, x) = {} /\ GotOf(2, x) = {}
      BY <3>1 DEF IndInv, Private
    <3>3. fd'[p] # x
      BY <3>1 DEF Own
    <3>4. ~(w'[p] = x /\ at'[p] \in HasWalk)
      BY <3>1 DEF Own, HasWalk
    <3>5. ~(1 <= Len(got'[p]) /\ got'[p][1] = x)
      BY <3>1 DEF Own
    <3>6. ~(2 <= Len(got'[p]) /\ got'[p][2] = x)
      BY <3>1 DEF Own
    <3>7. \A q \in Proc \ {p} : fd'[q] = fd[q] /\ w'[q] = w[q] /\ at'[q] = at[q] /\ got'[q] = got[q]
      BY DEF CallOnly, OthersKeep
    <3>8. FdsOf(x)' = {}
      BY <3>2, <3>3, <3>7 DEF FdsOf
    <3>9. WalksOf(x)' = {}
      BY <3>2, <3>4, <3>7 DEF WalksOf, HasWalk
    <3>10. GotOf(1, x)' = {} /\ GotOf(2, x)' = {}
      BY <3>2, <3>5, <3>6, <3>7 DEF GotOf
    <3> QED
      BY <3>8, <3>9, <3>10
  <2> QED
    BY <2>1 DEF Private
<1>3. ListInv' /\ GroupInv' /\ IdInv' /\ CopyInv'
  BY CallTables DEF IndInv
<1>4. CallInv' /\ ShowsInv'
  BY CallOthers DEF CallInv, ShowsInv
<1>5. BetweenInv'
  <2>1. \A q \in Proc \ {p} : Between(q)'
    BY CallOthers DEF IndInv, BetweenInv
  <2>2. Between(p)'
    <3>1. grp' = grp /\ head' = head /\ at'[p] # "copied"
      BY DEF CallOnly, tables
    <3>2. \A r \in Proc \ {p} : at'[r] = at[r]
      BY DEF CallOnly, OthersKeep
    <3> QED
      BY <3>1, <3>2 DEF Between
  <2> QED
    BY <2>1, <2>2 DEF BetweenInv
<1>6. FilesKept
  BY MountedFiles DEF CallOnly
<1> QED
  BY <1>1, <1>2, <1>3, <1>4, <1>5, <1>6 DEF IndInv

(* The same for a step that counts what it does with its channels. *)
LEMMA CountedStep ==
  ASSUME IndInv, TypeOK', NEW p \in Proc,
         OthersKeep(p), UNCHANGED <<tables, grp, fork>>,
         at[p] \notin {"copied", "setdot"}, at'[p] \notin {"copied", "setdot"},
         FreeOK(ch'), ~ch'.panic,
         \A x \in Chan :
           /\ ch'.of[x].ref + Own(p, x) = ch.of[x].ref + Own(p, x)'
           /\ ch'.of[x].ref > 0 => ch'.of[x].file \in File
           /\ Own(p, x)' > 0 => ~(ch'.of[x].ref > 1)
           /\ ch.of[x].ref > 0 /\ Own(p, x) = 0 => SameFields(x),
         at'[p] \in {"unclone", "unclone2"} => \E d \in File : head[grp[p]][d].from = w'[p],
         Calling(p)', Showing(p)'
  PROVE  IndInv' /\ FilesKept
<1>1. mount' = mount /\ head' = head /\ group' = group /\ grp' = grp
  BY DEF tables
<1>2. ASSUME NEW x \in Chan
      PROVE  /\ Refs(x)' + Own(p, x) = Refs(x) + Own(p, x)'
             /\ Own(p, x) \in Nat /\ Own(p, x)' \in Nat
             /\ Refs(x) \in Nat /\ Refs(x)' \in Nat /\ ch.of[x].ref = Refs(x)
             /\ ch'.of[x].ref \in Nat
  <2>1. Refs(x) \in Nat /\ ch.of[x].ref = Refs(x)
    BY RefsType DEF IndInv, RefsExact
  <2>3. ch'.of[x].ref \in Nat
    BY DEF TypeOK
  <2> QED
    BY <1>1, <2>1, <2>3, CallRefs DEF IndInv
<1>3. RefsExact'
  <2>1. ASSUME NEW x \in Chan
        PROVE  ch'.of[x].ref = Refs(x)'
    <3> DEFINE r == ch.of[x].ref
               rr == ch'.of[x].ref
               R == Refs(x)
               RR == Refs(x)'
               o == Own(p, x)
               oo == Own(p, x)'
    <3>1. rr + o = r + oo /\ RR + o = R + oo /\ r = R
      BY <1>2
    <3>2. r \in Nat /\ rr \in Nat /\ RR \in Nat /\ o \in Nat /\ oo \in Nat
      BY <1>2
    <3> HIDE DEF r, rr, R, RR, o, oo
    <3>3. rr = RR
      BY <3>1, <3>2
    <3> QED
      BY <3>3 DEF rr, RR
  <2> QED
    BY <2>1 DEF RefsExact
<1>4. \A x \in Chan : ch'.of[x].ref > 1 => ch.of[x].ref > 1
  BY <1>2
<1>5. CallOnly(p)
  BY <1>4 DEF CallOnly
<1> QED
  BY <1>3, <1>5, CallStep

-----------------------------------------------------------------------------
(* Calls and names. *)

LEMMA NamesType ==
  ASSUME NEW p \in Proc, NEW q \in Calls[p]
  PROVE  /\ Names(q) \in Seq(Path \X {"access", "mount", "open", "todir"})
         /\ Len(Names(q)) <= 2
         /\ q.op \in {"bind", "unmount", "open", "chdir", "read", "close", "fork"}
<1> DEFINE M == {"access", "mount", "open", "todir"}
           S == Path \X M
<1>1. /\ q.op \in {"bind", "unmount", "open", "chdir", "read", "close", "fork"}
      /\ q.op \in {"bind", "unmount"} => q.what \in Path
      /\ q.op \in {"bind", "unmount", "open", "chdir"} => q.on \in Path
  BY CallsAssumption
<1>2. \A u \in Path, m \in M : <<u, m>> \in S
  OBVIOUS
<1>3. \A s \in S : << s >> \in Seq(S) /\ Len(<< s >>) = 1
  OBVIOUS
<1>4. \A s, t \in S : << s, t >> \in Seq(S) /\ Len(<< s, t >>) = 2 /\ << s >> \o << t >> \in Seq(S)
                      /\ Len(<< s >> \o << t >>) = 2 /\ << s >> \o <<>> \in Seq(S) /\ Len(<< s >> \o <<>>) = 1
  OBVIOUS
<1>5. <<>> \in Seq(S) /\ Len(<<>>) = 0
  OBVIOUS
<1>6. "access" \in M /\ "mount" \in M /\ "open" \in M /\ "todir" \in M
  OBVIOUS
<1> HIDE DEF S
<1>7. CASE q.op = "bind"
  <2>1. <<q.what, "access">> \in S /\ <<q.on, "mount">> \in S
    BY <1>1, <1>2, <1>6, <1>7
  <2>2. Names(q) = << <<q.what, "access">>, <<q.on, "mount">> >>
    BY <1>7 DEF Names
  <2> QED
    BY <1>1, <1>4, <2>1, <2>2 DEF S
<1>8. CASE q.op = "unmount"
  <2>1. <<q.what, "access">> \in S /\ <<q.on, "mount">> \in S
    BY <1>1, <1>2, <1>6, <1>8
  <2>2. Names(q) = << <<q.on, "mount">> >>
                   \o IF q.what.none THEN <<>> ELSE << <<q.what, "access">> >>
    BY <1>8 DEF Names
  <2>3. Names(q) \in Seq(S) /\ Len(Names(q)) <= 2
    BY <1>4, <2>1, <2>2
  <2> QED
    BY <1>1, <2>3 DEF S
<1>9. CASE q.op = "open" \/ q.op = "chdir"
  <2>1. <<q.on, "open">> \in S /\ <<q.on, "todir">> \in S
    BY <1>1, <1>2, <1>6, <1>9
  <2>2. Names(q) = << <<q.on, "open">> >> \/ Names(q) = << <<q.on, "todir">> >>
    BY <1>9 DEF Names
  <2>3. Names(q) \in Seq(S) /\ Len(Names(q)) <= 2
    BY <1>3, <2>1, <2>2
  <2> QED
    BY <1>1, <2>3 DEF S
<1>10. CASE q.op \notin {"bind", "unmount", "open", "chdir"}
  <2>1. Names(q) = <<>>
    BY <1>10 DEF Names
  <2> QED
    BY <1>1, <1>5, <2>1 DEF S
<1> QED
  BY <1>7, <1>8, <1>9, <1>10

(* How often p has x when its walk has nothing. *)
Base(p, x) ==
    (IF fd[p] = x THEN 1 ELSE 0)
  + (IF 1 <= Len(got[p]) /\ got[p][1] = x THEN 1 ELSE 0)
  + (IF 2 <= Len(got[p]) /\ got[p][2] = x THEN 1 ELSE 0)

LEMMA OwnBase ==
  ASSUME NEW p \in Proc, NEW x
  PROVE  /\ Base(p, x) \in Nat /\ Own(p, x) \in Nat
         /\ Own(p, x) = Base(p, x) + (IF w[p] = x /\ at[p] \in HasWalk THEN 1 ELSE 0)
         /\ Base(p, x) > 0 => Own(p, x) > 0
  BY DEF Base, Own

(* The walk of p comes to x with rest to go. *)
Arrive(p, x, rest) ==
  /\ at' = [at EXCEPT ![p] = "domount"] /\ name' = [name EXCEPT ![p] = rest]
  /\ c' = [c EXCEPT ![p] = x] /\ w' = [w EXCEPT ![p] = x]
  /\ UNCHANGED got

LEMMA ArriveEffect ==
  ASSUME TypeOK, NEW p \in Proc, NEW x \in Chan, NEW rest \in Seq(Elem),
         Proceed(p, x, rest) \/ Arrive(p, x, rest),
         UNCHANGED <<fd, job>>, Len(got[p]) <= 1
  PROVE  /\ OthersKeep(p)
         /\ at' \in [Proc -> Labels] /\ name' \in [Proc -> Seq(Elem)]
         /\ c' \in [Proc -> Chan \cup {Nil}] /\ w' \in [Proc -> Chan \cup {Nil}]
         /\ got' \in [Proc -> Seq(Chan)] /\ \A q \in Proc : Len(got'[q]) <= 2
         /\ at'[p] \in {"op", "domount", "undo", "dev"} /\ c'[p] = x /\ w'[p] = x /\ name'[p] = rest
         /\ at'[p] \in {"undo", "dev"} => rest # <<>>
         /\ at'[p] = "undo" <=> at'[p] \in {"undo", "dev"} /\ Head(rest) = ".."
         /\ at'[p] = "op" => rest = <<>> /\ Proceed(p, x, rest) /\ got'[p] = Append(got[p], x)
         /\ at'[p] # "op" => got'[p] = got[p]
         /\ Len(got'[p]) = Len(got[p]) + (IF at'[p] = "op" THEN 1 ELSE 0)
         /\ \A i \in 1..Len(got[p]) : got'[p][i] = got[p][i]
         /\ \A z : Own(p, z)' = Base(p, z) + (IF z = x THEN 1 ELSE 0)
<1>1. /\ at \in [Proc -> Labels] /\ name \in [Proc -> Seq(Elem)]
      /\ c \in [Proc -> Chan \cup {Nil}] /\ w \in [Proc -> Chan \cup {Nil}]
      /\ got \in [Proc -> Seq(Chan)] /\ \A q \in Proc : Len(got[q]) <= 2
      /\ got[p] \in Seq(Chan) /\ Len(got[p]) \in Nat
  BY DEF TypeOK
<1>2. /\ name' = [name EXCEPT ![p] = rest] /\ c' = [c EXCEPT ![p] = x] /\ w' = [w EXCEPT ![p] = x]
      /\ fd' = fd /\ job' = job
  BY DEF Proceed, Arrive
<1>3. PICK l \in {"op", "domount", "undo", "dev"} : at' = [at EXCEPT ![p] = l]
  BY DEF Proceed, Arrive
<1>4. PICK s \in Seq(Chan) : /\ got' = [got EXCEPT ![p] = s] /\ s \in {got[p], Append(got[p], x)}
  <2>1. Append(got[p], x) \in Seq(Chan)
    BY <1>1
  <2>2. CASE got' = got
    BY <1>1, <2>2
  <2>3. CASE got' = [got EXCEPT ![p] = Append(@, x)]
    BY <1>1, <2>1, <2>3
  <2> QED
    BY <2>2, <2>3 DEF Proceed, Arrive
<1>5. l \in Labels
  BY DEF Labels
<1>6. /\ at' \in [Proc -> Labels] /\ name' \in [Proc -> Seq(Elem)]
      /\ c' \in [Proc -> Chan \cup {Nil}] /\ w' \in [Proc -> Chan \cup {Nil}]
      /\ got' \in [Proc -> Seq(Chan)]
      /\ at'[p] = l /\ c'[p] = x /\ w'[p] = x /\ name'[p] = rest /\ got'[p] = s
  BY <1>1, <1>2, <1>3, <1>4, <1>5
<1>7. OthersKeep(p)
  BY <1>1, <1>2, <1>3, <1>4 DEF OthersKeep
<1>8. /\ l \in {"undo", "dev"} => rest # <<>>
      /\ l = "undo" <=> l \in {"undo", "dev"} /\ Head(rest) = ".."
      /\ l = "op" => rest = <<>> /\ Proceed(p, x, rest) /\ s = Append(got[p], x)
      /\ l # "op" => s = got[p]
  <2>1. CASE Arrive(p, x, rest)
    <3>1. at'[p] = "domount" /\ got'[p] = got[p]
      BY <1>1, <2>1 DEF Arrive
    <3> QED
      BY <1>6, <3>1
  <2>2. CASE Proceed(p, x, rest) /\ rest = <<>>
    <3>1. at'[p] = "op" /\ got'[p] = Append(got[p], x)
      BY <1>1, <2>2 DEF Proceed
    <3> QED
      BY <1>6, <2>2, <3>1
  <2>3. CASE Proceed(p, x, rest) /\ rest # <<>>
    <3>1. at'[p] = (IF Head(rest) = ".." THEN "undo" ELSE "dev") /\ got'[p] = got[p]
      BY <1>1, <2>3 DEF Proceed
    <3> QED
      BY <1>6, <2>3, <3>1
  <2> QED
    BY <2>1, <2>2, <2>3
<1>9. /\ Len(Append(got[p], x)) = Len(got[p]) + 1 /\ Append(got[p], x)[Len(got[p]) + 1] = x
      /\ \A i \in 1..Len(got[p]) : Append(got[p], x)[i] = got[p][i]
  BY <1>1
<1>10. Len(s) = Len(got[p]) + (IF l = "op" THEN 1 ELSE 0) /\ \A i \in 1..Len(got[p]) : s[i] = got[p][i]
  BY <1>1, <1>8, <1>9
<1>11. \A q \in Proc : Len(got'[q]) <= 2
  <2>1. ASSUME NEW q \in Proc
        PROVE  Len(got'[q]) <= 2
    <3>1. CASE q = p
      BY <1>1, <1>6, <1>10, <3>1
    <3>2. CASE q # p
      BY <1>1, <1>4, <3>2
    <3> QED
      BY <3>1, <3>2
  <2> QED
    BY <2>1
<1>12. ASSUME NEW z
       PROVE  Own(p, z)' = Base(p, z) + (IF z = x THEN 1 ELSE 0)
  <2>1. Own(p, z)' = (IF fd[p] = z THEN 1 ELSE 0) + (IF x = z /\ l \in HasWalk THEN 1 ELSE 0)
                     + (IF 1 <= Len(s) /\ s[1] = z THEN 1 ELSE 0)
                     + (IF 2 <= Len(s) /\ s[2] = z THEN 1 ELSE 0)
    BY <1>2, <1>6 DEF Own, HasWalk
  <2>2. CASE l # "op"
    <3>1. l \in HasWalk /\ s = got[p]
      BY <1>8, <2>2 DEF HasWalk
    <3> QED
      BY <2>1, <3>1 DEF Base
  <2>3. CASE l = "op" /\ Len(got[p]) = 0
    <3>1. l \notin HasWalk /\ Len(s) = 1 /\ s[1] = x
      BY <1>8, <1>9, <1>10, <2>3 DEF HasWalk
    <3> QED
      BY <2>1, <2>3, <3>1 DEF Base
  <2>4. CASE l = "op" /\ Len(got[p]) = 1
    <3>1. l \notin HasWalk /\ Len(s) = 2 /\ s[1] = got[p][1] /\ s[2] = x
      BY <1>8, <1>9, <1>10, <2>4 DEF HasWalk
    <3> QED
      BY <2>1, <2>4, <3>1 DEF Base
  <2>5. Len(got[p]) = 0 \/ Len(got[p]) = 1
    <3> DEFINE n == Len(got[p])
    <3>1. n \in Nat /\ n <= 1
      BY <1>1
    <3> HIDE DEF n
    <3>2. n = 0 \/ n = 1
      BY <3>1
    <3> QED
      BY <3>2 DEF n
  <2> HIDE DEF Own
  <2> QED
    BY <2>2, <2>3, <2>4, <2>5
<1> QED
  BY <1>6, <1>7, <1>8, <1>10, <1>11, <1>12

LEMMA TablesSame ==
  ASSUME mount' = mount, head' = head, grp' = grp
  PROVE  /\ \A g \in Group : Users(g)' = Users(g) /\ Table(g)' = Table(g)
         /\ \A m \in Mount : To(m)' = To(m)
<1>1. \A g \in Group, d \in File : MountsOn(g, d)' = MountsOn(g, d)
  BY DEF MountsOn, List, ListFrom
<1> QED
  BY <1>1 DEF Users, Table, To

LEMMA HasBase ==
  ASSUME TypeOK, NEW p \in Proc
  PROVE  /\ fd[p] # Nil => fd[p] \in Chan /\ Base(p, fd[p]) > 0
         /\ \A i \in 1..Len(got[p]) : got[p][i] \in Chan /\ Base(p, got[p][i]) > 0
<1>1. fd[p] \in Chan \cup {Nil} /\ got[p] \in Seq(Chan) /\ Len(got[p]) <= 2 /\ Len(got[p]) \in Nat
  BY DEF TypeOK
<1>2. \A i \in 1..Len(got[p]) : i = 1 \/ i = 2
  BY <1>1
<1>3. \A i \in 1..Len(got[p]) : got[p][i] \in Chan
  BY <1>1
<1>4. Base(p, fd[p]) > 0
  BY DEF Base
<1>5. 1 <= Len(got[p]) => Base(p, got[p][1]) > 0
  BY DEF Base
<1>6. 2 <= Len(got[p]) => Base(p, got[p][2]) > 0
  BY DEF Base
<1> QED
  BY <1>1, <1>2, <1>3, <1>4, <1>5, <1>6

(* What a step must do to the channels so that p keeps showing the same.   *)
LEMMA KeepsShowing ==
  ASSUME IndInv, NEW p \in Proc, mount' = mount, head' = head, grp' = grp, job'[p] = job[p],
         \A z \in Chan : ch.of[z].ref > 0 /\ (Own(p, z) = 0 \/ Base(p, z) > 0) => SameFields(z)
  PROVE  /\ \A i \in 1..Len(got[p]) : got'[p][i] = got[p][i] => GotShows(p, i)'
         /\ fd'[p] = fd[p] => FdShows(p)'
<1> USE DEF IndInv
<1>1. \A g \in Group : Users(g)' = Users(g) /\ Table(g)' = Table(g)
  BY TablesSame
<1>2. \A m \in Mount : mount[m].live => SameFields(To(m))
  BY TableChan
<1>3. \A z \in Chan : Base(p, z) > 0 => ch.of[z].ref > 0
  BY OwnBase, OwnAlone
<1>4. /\ \A i \in 1..Len(got[p]) : SameFields(got[p][i])
      /\ fd[p] # Nil => SameFields(fd[p])
  BY <1>3, HasBase
<1> QED
  BY <1>1, <1>2, <1>4, HeldShows

(* What all steps of namec and walk that end in Proceed or Arrive keep.    *)
LEMMA WalkStep ==
  ASSUME IndInv, NEW p \in Proc, NEW x \in Chan, NEW rest \in Seq(Elem),
         Proceed(p, x, rest) \/ Arrive(p, x, rest),
         UNCHANGED <<tables, grp, fork, fd, job, left>>,
         at[p] \in HasWalk \cup {"op"}, Len(got[p]) < Len(Names(job[p])),
         ch' \in ChansType, FreeOK(ch'), ~ch'.panic, ch'.of[x].ref = 1,
         \A z \in Chan :
           /\ ch'.of[z].ref + Own(p, z) = ch.of[z].ref + Base(p, z) + (IF z = x THEN 1 ELSE 0)
           /\ ch'.of[z].ref > 0 => ch'.of[z].file \in File
           /\ ch.of[z].ref > 0 /\ (Own(p, z) = 0 \/ Base(p, z) > 0) => SameFields(z),
         at'[p] = "dev" /\ Head(rest) # ".." => ShowsIn(grp[p], x)',
         at'[p] = "op" /\ Mode(p) \in {"access", "open"} =>
           /\ ShowsIn(grp[p], x)'
           /\ ch'.of[x].mnt # Nil => FileOf(x)' = FileOf(To(ch.of[x].mnt))'
  PROVE  IndInv' /\ FilesKept
<1> USE DEF IndInv
<1>1. /\ mount' = mount /\ head' = head /\ group' = group /\ mountid' = mountid
      /\ grp' = grp /\ fork' = fork /\ fd' = fd /\ job' = job /\ left' = left
  BY DEF tables
<1>2. /\ Calling(p) /\ job[p] \in Calls[p] /\ Len(Names(job[p])) \in Nat /\ Len(Names(job[p])) <= 2
      /\ (job[p].op = "open" => fd[p] = Nil) /\ (job[p].op \in {"read", "close"} => fd[p] # Nil)
  <2>1. Calling(p) /\ at[p] # "idle"
    BY DEF CallInv, HasWalk
  <2>2. job[p] \in Calls[p]
    BY <2>1 DEF Calling
  <2>3. Names(job[p]) \in Seq(Path \X {"access", "mount", "open", "todir"}) /\ Len(Names(job[p])) <= 2
    BY <2>2, NamesType
  <2> QED
    BY <2>1, <2>2, <2>3 DEF Calling
<1>3. Len(got[p]) <= 1 /\ Len(got[p]) \in Nat
  <2>1. got[p] \in Seq(Chan)
    BY DEF TypeOK
  <2> QED
    BY <1>2, <2>1
<1>4. /\ OthersKeep(p)
      /\ at' \in [Proc -> Labels] /\ name' \in [Proc -> Seq(Elem)]
      /\ c' \in [Proc -> Chan \cup {Nil}] /\ w' \in [Proc -> Chan \cup {Nil}]
      /\ got' \in [Proc -> Seq(Chan)] /\ \A q \in Proc : Len(got'[q]) <= 2
      /\ at'[p] \in {"op", "domount", "undo", "dev"} /\ c'[p] = x /\ w'[p] = x /\ name'[p] = rest
      /\ at'[p] \in {"undo", "dev"} => rest # <<>>
      /\ at'[p] = "undo" <=> at'[p] \in {"undo", "dev"} /\ Head(rest) = ".."
      /\ at'[p] = "op" => rest = <<>> /\ Proceed(p, x, rest) /\ got'[p] = Append(got[p], x)
      /\ at'[p] # "op" => got'[p] = got[p]
      /\ Len(got'[p]) = Len(got[p]) + (IF at'[p] = "op" THEN 1 ELSE 0)
      /\ \A i \in 1..Len(got[p]) : got'[p][i] = got[p][i]
      /\ \A z : Own(p, z)' = Base(p, z) + (IF z = x THEN 1 ELSE 0)
  BY <1>1, <1>3, ArriveEffect
<1>5. TypeOK'
  BY <1>1, <1>4 DEF TypeOK, ChansType, ChanType
<1>6. ASSUME NEW z \in Chan, Own(p, z)' > 0
      PROVE  ~(ch'.of[z].ref > 1)
  <2>1. CASE z = x
    BY <2>1
  <2>2. CASE z # x
    <3>1. Base(p, z) > 0 /\ Own(p, z)' = Base(p, z) /\ Base(p, z) \in Nat
      BY <1>4, <1>6, <2>2, OwnBase
    <3>2. ch.of[z].ref = 1 /\ Own(p, z) = 1
      BY <3>1, OwnBase, OwnAlone
    <3>3. Base(p, z) <= 1
      BY <3>2, OwnBase
    <3>4. ch'.of[z].ref + 1 = 1 + Base(p, z)
      BY <2>2, <3>1, <3>2
    <3>5. ch'.of[z].ref \in Nat
      BY DEF ChansType, ChanType
    <3> QED
      BY <3>1, <3>3, <3>4, <3>5
  <2> QED
    BY <2>1, <2>2
<1>7. Calling(p)'
  <2>1. /\ at'[p] # "idle" /\ job'[p] \in Calls[p] /\ Len(got'[p]) <= Len(Names(job'[p]))
        /\ (job'[p].op = "open" => fd'[p] = Nil) /\ (job'[p].op \in {"read", "close"} => fd'[p] # Nil)
    <3>1. at'[p] # "idle" /\ job'[p] = job[p] /\ fd'[p] = fd[p]
      BY <1>1, <1>4
    <3> DEFINE n == Len(got[p])
               k == Len(got'[p])
               l == Len(Names(job[p]))
    <3>2. n \in Nat /\ l \in Nat /\ n < l /\ k = n + (IF at'[p] = "op" THEN 1 ELSE 0)
      BY <1>2, <1>3, <1>4
    <3> HIDE DEF n, k, l
    <3>3. k <= l
      BY <3>2
    <3>4. Len(got'[p]) <= Len(Names(job'[p]))
      BY <3>1, <3>3 DEF k, l
    <3> QED
      BY <1>2, <3>1, <3>4
  <2>2. at'[p] # "op" => Len(got'[p]) < Len(Names(job'[p])) /\ w'[p] \in Chan
    BY <1>1, <1>4
  <2>3. at'[p] \in {"undo", "dev"} => name'[p] # <<>>
    BY <1>4
  <2>4. at'[p] \in {"undo", "unclone"} => Head(name'[p]) = ".."
    BY <1>4
  <2>5. at'[p] = "dev" /\ Head(name'[p]) # ".." => c'[p] = w'[p]
    BY <1>4
  <2>6. at'[p] \notin {"setdot", "copied", "unclone", "unclone2", "undo2", "walked"}
    BY <1>4
  <2>7. at'[p] \in HasWalk \cup {"unclone", "unclone2"} => at'[p] # "op"
    BY DEF HasWalk
  <2> QED
    BY <2>1, <2>2, <2>3, <2>4, <2>5, <2>6, <2>7 DEF Calling, HasWalk
<1>8. Showing(p)'
  <2>1. /\ \A i \in 1..Len(got[p]) : GotShows(p, i)'
        /\ FdShows(p)'
    BY <1>1, <1>4, KeepsShowing
  <2>2. at'[p] = "dev" /\ Head(name'[p]) # ".." => ShowsIn(grp[p], w[p])'
    BY <1>1, <1>4
  <2>3. ASSUME at'[p] = "op", NEW k, k = Len(got[p]) + 1
        PROVE  GotShows(p, k)'
    <3>1. got'[p][k] = x /\ Names(job'[p])[k][2] = Mode(p)
      <4>1. got[p] \in Seq(Chan)
        BY DEF TypeOK
      <4> QED
        BY <1>1, <1>4, <2>3, <4>1 DEF Mode
    <3> QED
      BY <2>3, <3>1, <1>1 DEF GotShows
  <2>4. \A i \in 1..Len(got'[p]) : GotShows(p, i)'
    <3>1. \A i \in 1..Len(got'[p]) : i \in 1..Len(got[p]) \/ (i = Len(got[p]) + 1 /\ at'[p] = "op")
      <4> DEFINE n == Len(got[p])
                 k == Len(got'[p])
      <4>1. n \in Nat /\ k = n + (IF at'[p] = "op" THEN 1 ELSE 0)
        BY <1>3, <1>4
      <4> HIDE DEF n, k
      <4>2. \A i \in 1..k : i \in 1..n \/ (i = n + 1 /\ at'[p] = "op")
        BY <4>1
      <4> QED
        BY <4>2 DEF n, k
    <3>2. ASSUME NEW i \in 1..Len(got'[p])
          PROVE  GotShows(p, i)'
      <4>1. CASE i \in 1..Len(got[p])
        BY <2>1, <4>1
      <4>2. CASE i = Len(got[p]) + 1 /\ at'[p] = "op"
        BY <2>3, <4>2
      <4> QED
        BY <3>1, <4>1, <4>2
    <3> QED
      BY <3>2
  <2> QED
    BY <2>1, <2>2, <2>4 DEF Showing
<1>9. at[p] \notin {"copied", "setdot"} /\ at'[p] \notin {"copied", "setdot", "unclone", "unclone2"}
  BY <1>4 DEF HasWalk
<1>10. \A z \in Chan : ch'.of[z].ref + Own(p, z) = ch.of[z].ref + Own(p, z)'
  <2>1. ASSUME NEW z \in Chan
        PROVE  ch'.of[z].ref + Own(p, z) = ch.of[z].ref + Own(p, z)'
    <3>1. Own(p, z)' = Base(p, z) + (IF z = x THEN 1 ELSE 0) /\ Base(p, z) \in Nat
      BY <1>4, OwnBase
    <3>2. ch.of[z].ref \in Nat
      BY DEF TypeOK
    <3>3. ch'.of[z].ref + Own(p, z) = ch.of[z].ref + Base(p, z) + (IF z = x THEN 1 ELSE 0)
      BY <1>1
    <3>4. ch.of[z].ref + Base(p, z) + (IF z = x THEN 1 ELSE 0)
            = ch.of[z].ref + (Base(p, z) + (IF z = x THEN 1 ELSE 0))
      <4>1. \A i, j, k \in Nat : (i + j) + k = i + (j + k)
        OBVIOUS
      <4>2. (IF z = x THEN 1 ELSE 0) \in Nat
        OBVIOUS
      <4> QED
        BY <3>1, <3>2, <4>1, <4>2
    <3> QED
      BY <3>1, <3>3, <3>4, Zenon
  <2> QED
    BY <2>1
<1> QED
  BY <1>1, <1>4, <1>5, <1>6, <1>7, <1>8, <1>9, <1>10, CountedStep

-----------------------------------------------------------------------------
(* Lists of mounts. *)

MountsType == [Mount -> [mountid : Nat, next : Mount \cup {Nil}, to : Chan \cup {Nil},
                         copy : Mount \cup {Nil}, live : BOOLEAN]]

LEMMA ListLen ==
  ASSUME NEW ms \in Seq(Mount), IsInjective(ms)
  PROVE  Len(ms) \in 0..NMount /\ DOMAIN ms = 1..Len(ms)
         /\ \A i, j \in 1..Len(ms) : ms[i] = ms[j] => i = j
<1>1. DOMAIN ms = 1..Len(ms) /\ Len(ms) \in Nat /\ NMount \in Nat /\ \A i \in 1..Len(ms) : ms[i] \in Mount
  BY NameSpaceAssumption
<1>2. \A i, j \in 1..Len(ms) : ms[i] = ms[j] => i = j
  BY <1>1 DEF IsInjective
<1> DEFINE I == 1..Len(ms)
           f == [i \in I |-> ms[i]]
           T == {f[i] : i \in I}
<1>3. IsFiniteSet(I) /\ Cardinality(I) = Len(ms)
  <2> DEFINE n == Len(ms)
  <2>1. n \in Nat
    BY <1>1
  <2> HIDE DEF n
  <2>2. IsFiniteSet(1..n) /\ Cardinality(1..n) = n
    BY <2>1, FS_Interval
  <2> QED
    BY <2>2 DEF n
<1>4. IsFiniteSet(Mount) /\ Cardinality(Mount) = NMount
  BY <1>1, FS_Interval DEF Mount
<1>5. f \in [I -> T] /\ (\A i, j \in I : f[i] = f[j] => i = j) /\ T \in SUBSET Mount
  BY <1>1, <1>2
<1> HIDE DEF I, f
<1>6. Cardinality(T) = Cardinality(I)
  BY <1>3, <1>5, SameNumber
<1>7. Cardinality(T) <= Cardinality(Mount)
  <2> HIDE DEF T
  <2> QED
    BY <1>4, <1>5, FS_Subset
<1>8. Len(ms) <= NMount
  BY <1>3, <1>4, <1>6, <1>7
<1> QED
  BY <1>1, <1>2, <1>8

(* The lists of at most k mounts exist. *)
LEMMA ListUpto ==
  ASSUME NEW mt
  PROVE  \E u :
           /\ \A k \in 0..NMount, x \in Mount \cup {Nil} :
                u[k][x] = IF k = 0 \/ x = Nil THEN <<>> ELSE <<x>> \o u[k - 1][mt[x].next]
           /\ \A m : ListIn(mt, m) = u[NMount][m]
<1> DEFINE row(g, k) == [x \in Mount \cup {Nil} |->
                           IF k = 0 \/ x = Nil THEN <<>> ELSE <<x>> \o g[k - 1][mt[x].next]]
           body(g) == [k \in 0..NMount |-> row(g, k)]
           upto == CHOOSE g : g = body(g)
           Good(g, n) == \A k \in 0..n : g[k] = row(g, k)
           T == {n \in 0..NMount : \E g : Good(g, n)}
<1>0. NMount \in Nat
  BY NameSpaceAssumption
<1>1. 0 \in T
  <2> DEFINE z == [k \in {0} |-> [x \in Mount \cup {Nil} |-> <<>>]]
  <2>1. z[0] = row(z, 0)
    OBVIOUS
  <2> HIDE DEF z, row
  <2>2. Good(z, 0)
    <3>1. \A k \in 0..0 : k = 0
      OBVIOUS
    <3> QED
      BY <2>1, <3>1
  <2> HIDE DEF Good
  <2> QED
    BY <1>0, <2>2
<1>2. ASSUME NEW n \in 0..(NMount - 1), n \in T
      PROVE  n + 1 \in T
  <2>1. PICK g : Good(g, n)
    BY <1>2
  <2> DEFINE h == [k \in 0..(n + 1) |-> IF k = n + 1 THEN row(g, n + 1) ELSE g[k]]
  <2>2. \A k \in 0..n : h[k] = g[k]
    BY <1>2
  <2>3. h[n + 1] = row(g, n + 1) /\ n + 1 \in 0..NMount /\ n + 1 # 0
    BY <1>0, <1>2
  <2>30. n \in 0..n /\ (n + 1) - 1 = n
    BY <1>2
  <2> HIDE DEF h
  <2>4. row(g, n + 1) = row(h, n + 1)
    <3>1. h[(n + 1) - 1] = g[(n + 1) - 1]
      BY <2>2, <2>30
    <3> QED
      BY <3>1
  <2>5. ASSUME NEW k \in 0..n
        PROVE  h[k] = row(h, k)
    <3>1. row(g, k) = row(h, k)
      <4>1. k = 0 \/ k - 1 \in 0..n
        BY <1>2
      <4>2. k = 0 \/ h[k - 1] = g[k - 1]
        BY <2>2, <4>1
      <4> QED
        BY <4>2
    <3>2. g[k] = row(g, k)
      BY <2>1
    <3> HIDE DEF row
    <3> QED
      BY <2>2, <3>1, <3>2
  <2> HIDE DEF row
  <2>6. Good(h, n + 1)
    <3>1. \A k \in 0..(n + 1) : k = n + 1 \/ k \in 0..n
      BY <1>2
    <3> QED
      BY <2>3, <2>4, <2>5, <3>1
  <2> HIDE DEF Good
  <2> QED
    BY <2>3, <2>6
<1> HIDE DEF T
<1>3. NMount \in T
  BY <1>0, <1>1, <1>2, Upto
<1>4. PICK g : Good(g, NMount)
  BY <1>3 DEF T
<1> DEFINE f == [k \in 0..NMount |-> g[k]]
<1>5. f = body(f)
  <2>1. ASSUME NEW k \in 0..NMount
        PROVE  f[k] = row(f, k)
    <3>1. row(f, k) = row(g, k)
      <4>1. k = 0 \/ k - 1 \in 0..NMount
        BY <1>0
      <4>2. k = 0 \/ f[k - 1] = g[k - 1]
        BY <4>1
      <4> HIDE DEF f
      <4> QED
        BY <4>2
    <3>2. g[k] = row(g, k)
      BY <1>4
    <3> HIDE DEF row
    <3> QED
      BY <3>1, <3>2
  <2> HIDE DEF row
  <2> QED
    BY <2>1
<1>6. upto = body(upto)
  <2> HIDE DEF f, body
  <2> QED
    BY <1>5
<1>7. \A m : ListIn(mt, m) = upto[NMount][m]
  BY DEF ListIn
<1> HIDE DEF upto
<1>8. \A k \in 0..NMount, x \in Mount \cup {Nil} :
        upto[k][x] = IF k = 0 \/ x = Nil THEN <<>> ELSE <<x>> \o upto[k - 1][mt[x].next]
  <2>1. ASSUME NEW k \in 0..NMount, NEW x \in Mount \cup {Nil}
        PROVE  upto[k][x] = IF k = 0 \/ x = Nil THEN <<>> ELSE <<x>> \o upto[k - 1][mt[x].next]
    <3>1. upto[k] = row(upto, k)
      <4> HIDE DEF row
      <4> QED
        BY <1>6
    <3> QED
      BY <3>1
  <2> QED
    BY <2>1
<1> QED
  BY <1>7, <1>8

LEMMA NoList == ASSUME NEW mt PROVE ListIn(mt, Nil) = <<>>
<1>1. NMount \in 0..NMount /\ Nil \in Mount \cup {Nil}
  BY NameSpaceAssumption
<1> QED
  BY <1>1, ListUpto

LEMMA ListIs ==
  ASSUME NEW mt, \A x \in Mount : mt[x].next \in Mount \cup {Nil},
         NEW ms, NEW m, IsList(mt, ms, m)
  PROVE  ListIn(mt, m) = ms
<1> DEFINE n == Len(ms)
           at_(i) == IF i = n + 1 THEN Nil ELSE ms[i]
           rest(i) == [j \in 1..(n + 1 - i) |-> ms[i + j - 1]]
<1>0. ms \in Seq(Mount) /\ IsInjective(ms) /\ m = at_(1) /\ n \in 0..NMount /\ NMount \in Nat /\ n \in Nat
      /\ ms = [i \in 1..n |-> ms[i]]
  <2>1. ms \in Seq(Mount) /\ IsInjective(ms) /\ m = IF ms = <<>> THEN Nil ELSE ms[1]
    BY DEF IsList
  <2>2. ms = <<>> <=> n = 0
    BY <2>1
  <2> QED
    BY <2>1, <2>2, ListLen, NameSpaceAssumption
<1>1. \A i \in 1..n : ms[i] \in Mount /\ ms[i] # Nil
  BY <1>0 DEF Mount, Nil
<1>2. \A i \in 1..n : mt[ms[i]].next = at_(i + 1)
  <2>1. \A i \in 1..n : mt[ms[i]].next = IF i = n THEN Nil ELSE ms[i + 1]
    BY DEF IsList
  <2>2. \A i \in 1..n : i + 1 = n + 1 <=> i = n
    BY <1>0
  <2> QED
    BY <2>1, <2>2
<1>3. PICK u :
        /\ \A k \in 0..NMount, x \in Mount \cup {Nil} :
             u[k][x] = IF k = 0 \/ x = Nil THEN <<>> ELSE <<x>> \o u[k - 1][mt[x].next]
        /\ \A x : ListIn(mt, x) = u[NMount][x]
  BY ListUpto
<1>4. rest(n + 1) = <<>>
  BY <1>0
<1>5. ASSUME NEW i \in 1..n
      PROVE  <<ms[i]>> \o rest(i + 1) = rest(i)
  <2>1. rest(i + 1) \in Seq(Mount) /\ Len(rest(i + 1)) = n - i /\ <<ms[i]>> \in Seq(Mount) /\ Len(<<ms[i]>>) = 1
    <3>1. n + 1 - (i + 1) = n - i /\ n - i \in Nat
      BY <1>0
    <3>2. \A j \in 1..(n - i) : (i + 1) + j - 1 \in 1..n
      BY <1>0
    <3>3. \A j \in 1..(n - i) : ms[(i + 1) + j - 1] \in Mount
      BY <1>1, <3>2
    <3> QED
      BY <1>1, <3>1, <3>3
  <2> DEFINE r == rest(i + 1)
             q == rest(i)
  <2>2. \A j \in 1..(n - i) : r[j] = ms[i + j]
    BY <1>0
  <2>3. q \in Seq(Mount) /\ Len(q) = n + 1 - i /\ \A j \in 1..(n + 1 - i) : q[j] = ms[i + j - 1]
    <3>1. \A j \in 1..(n + 1 - i) : i + j - 1 \in 1..n
      BY <1>0
    <3>2. n + 1 - i \in Nat
      BY <1>0
    <3> QED
      BY <1>1, <3>1, <3>2
  <2>20. Len(r) = n - i /\ r \in Seq(Mount)
    BY <2>1
  <2> HIDE DEF r, q
  <2>4. <<ms[i]>> \o r \in Seq(Mount) /\ Len(<<ms[i]>> \o r) = n + 1 - i
    BY <1>0, <2>1, <2>20
  <2>5. ASSUME NEW j \in 1..(n + 1 - i)
        PROVE  (<<ms[i]>> \o r)[j] = q[j]
    <3>1. CASE j = 1
      BY <1>0, <2>1, <2>20, <2>3, <3>1
    <3>2. CASE j # 1
      <4>1. (<<ms[i]>> \o r)[j] = r[j - 1] /\ j - 1 \in 1..(n - i) /\ i + (j - 1) = i + j - 1
        BY <1>0, <2>1, <2>20, <3>2
      <4> QED
        BY <2>2, <2>3, <4>1
    <3> QED
      BY <3>1, <3>2
  <2>6. <<ms[i]>> \o r = q
    <3> DEFINE t == <<ms[i]>> \o r
    <3>1. t \in Seq(Mount) /\ Len(t) = Len(q) /\ \A j \in 1..Len(t) : t[j] = q[j]
      BY <2>3, <2>4, <2>5
    <3> HIDE DEF t
    <3>2. t = q
      BY <2>3, <3>1
    <3> QED
      BY <3>2 DEF t
  <2> QED
    BY <2>6 DEF r, q
<1> HIDE DEF rest
<1> DEFINE T == {k \in 0..NMount : \A i \in 1..(n + 1) : n + 1 - i <= k => u[k][at_(i)] = rest(i)}
<1>6. \A i \in 1..(n + 1) : at_(i) \in Mount \cup {Nil} /\ (i # n + 1 => i \in 1..n)
  BY <1>0, <1>1
<1>7. ASSUME NEW k \in 0..NMount
      PROVE  u[k][at_(n + 1)] = rest(n + 1)
  BY <1>3, <1>4
<1>8. 0 \in T
  <2>1. \A i \in 1..(n + 1) : n + 1 - i <= 0 => i = n + 1
    BY <1>0
  <2> HIDE DEF at_
  <2> QED
    BY <1>0, <1>7, <2>1
<1>9. ASSUME NEW k \in 0..(NMount - 1), k \in T
      PROVE  k + 1 \in T
  <2>0. k + 1 \in 0..NMount /\ k \in 0..NMount /\ k + 1 # 0 /\ (k + 1) - 1 = k
    BY <1>0
  <2>1. ASSUME NEW i \in 1..(n + 1), n + 1 - i <= k + 1
        PROVE  u[k + 1][at_(i)] = rest(i)
    <3>1. CASE i = n + 1
      BY <1>7, <2>0, <3>1
    <3>2. CASE i # n + 1
      <4>1. i \in 1..n /\ i + 1 \in 1..(n + 1) /\ n + 1 - (i + 1) <= k
        BY <1>0, <2>1, <3>2
      <4>2. at_(i) = ms[i] /\ ms[i] \in Mount /\ ms[i] # Nil /\ mt[ms[i]].next = at_(i + 1)
        BY <1>1, <1>2, <3>2, <4>1
      <4> HIDE DEF at_
      <4>3. u[k][at_(i + 1)] = rest(i + 1)
        BY <1>9, <4>1
      <4>4. u[k + 1][ms[i]] = <<ms[i]>> \o u[k][at_(i + 1)]
        <5>1. ms[i] \in Mount \cup {Nil}
          BY <4>2
        <5>2. u[k + 1][ms[i]] = IF k + 1 = 0 \/ ms[i] = Nil THEN <<>>
                               ELSE <<ms[i]>> \o u[(k + 1) - 1][mt[ms[i]].next]
          BY <1>3, <2>0, <5>1
        <5> QED
          BY <2>0, <4>2, <5>2
      <4> QED
        BY <1>5, <4>1, <4>2, <4>3, <4>4
    <3> QED
      BY <3>1, <3>2
  <2> HIDE DEF at_
  <2> QED
    BY <2>0, <2>1
<1> HIDE DEF T
<1>10. NMount \in T
  BY <1>0, <1>8, <1>9, Upto
<1>11. u[NMount][at_(1)] = rest(1)
  <2>1. 1 \in 1..(n + 1) /\ n + 1 - 1 <= NMount
    BY <1>0
  <2> HIDE DEF at_
  <2> QED
    BY <1>10, <2>1 DEF T
<1>12. rest(1) = ms
  <2>1. \A j \in 1..n : 1 + j - 1 = j
    BY <1>0
  <2>2. n + 1 - 1 = n
    BY <1>0
  <2> QED
    BY <1>0, <2>1, <2>2 DEF rest
<1> HIDE DEF at_
<1> QED
  BY <1>0, <1>3, <1>11, <1>12

(* The rest of a list. *)
LEMMA ListRest ==
  ASSUME NEW mt, NEW ms, NEW m, IsList(mt, ms, m), NEW k \in 1..Len(ms)
  PROVE  /\ IsList(mt, SubSeq(ms, k, Len(ms)), ms[k])
         /\ SubSeq(ms, k, Len(ms)) \in Seq(Mount)
         /\ ToSet(SubSeq(ms, k, Len(ms))) \subseteq ToSet(ms)
<1> DEFINE r == SubSeq(ms, k, Len(ms))
           n == Len(ms)
<1>0. ms \in Seq(Mount) /\ IsInjective(ms) /\ n \in Nat /\ k \in 1..n
      /\ DOMAIN ms = 1..n /\ \A i, j \in 1..n : ms[i] = ms[j] => i = j
  BY ListLen DEF IsList
<1>1. /\ r \in Seq(Mount) /\ Len(r) = n - k + 1 /\ Len(r) \in Nat /\ Len(r) # 0 /\ DOMAIN r = 1..(n - k + 1)
      /\ \A i \in 1..(n - k + 1) : r[i] = ms[k + i - 1]
  BY <1>0
<1>2. \A i \in 1..(n - k + 1) : k + i - 1 \in 1..n
  BY <1>0
<1>3. IsInjective(r)
  <2>1. \A i, j \in 1..(n - k + 1) : k + i - 1 = k + j - 1 => i = j
    BY <1>0
  <2> QED
    BY <1>0, <1>1, <1>2, <2>1 DEF IsInjective
<1>4. r # <<>> /\ r[1] = ms[k]
  BY <1>0, <1>1
<1>5. \A i \in 1..n : mt[ms[i]].next = IF i = n THEN Nil ELSE ms[i + 1]
  BY DEF IsList
<1>6. ASSUME NEW i \in 1..(n - k + 1)
      PROVE  mt[r[i]].next = IF i = n - k + 1 THEN Nil ELSE r[i + 1]
  <2> DEFINE j == k + i - 1
  <2>1. j \in 1..n /\ r[i] = ms[j] /\ (j = n <=> i = n - k + 1)
    BY <1>0, <1>1, <1>2
  <2>2. i # n - k + 1 => i + 1 \in 1..(n - k + 1) /\ k + (i + 1) - 1 = j + 1
    BY <1>0
  <2>3. i # n - k + 1 => r[i + 1] = ms[j + 1]
    BY <1>1, <2>2
  <2> HIDE DEF j
  <2> QED
    BY <1>5, <2>1, <2>3
<1>7. ToSet(r) \subseteq ToSet(ms)
  BY <1>0, <1>1, <1>2 DEF ToSet
<1> HIDE DEF r
<1>8. IsList(mt, r, ms[k])
  BY <1>1, <1>3, <1>4, <1>6 DEF IsList
<1> QED
  BY <1>1, <1>7, <1>8 DEF r

(* The mounts of a head. *)
LEMMA TableLive ==
  ASSUME TypeOK, ListInv, NEW g \in Group, NEW d \in File
  PROVE  /\ List(g, d) \in Seq(Mount) /\ IsInjective(List(g, d))
         /\ \A m \in MountsOn(g, d) :
              /\ m \in Mount /\ mount[m].live /\ m \in Table(g)
              /\ ListFrom(m) \in Seq(Mount)
              /\ ToSet(ListFrom(m)) \subseteq MountsOn(g, d)
              /\ \E k \in 1..Len(List(g, d)) : ListFrom(m) = SubSeq(List(g, d), k, Len(List(g, d)))
              /\ ListFrom(m) # <<>> /\ ListFrom(m)[1] = m
         /\ head[g][d].mount # Nil => head[g][d].mount \in MountsOn(g, d)
<1> DEFINE ms == List(g, d)
<1>1. IsList(mount, ms, head[g][d].mount) /\ \A m \in MountsOn(g, d) : mount[m].live
  BY DEF ListInv
<1>2. ms \in Seq(Mount) /\ IsInjective(ms) /\ DOMAIN ms = 1..Len(ms)
      /\ head[g][d].mount = (IF ms = <<>> THEN Nil ELSE ms[1])
      /\ (ms # <<>> => 1 \in 1..Len(ms))
  BY <1>1 DEF IsList
<1>3. MountsOn(g, d) = {ms[i] : i \in 1..Len(ms)}
  BY <1>2 DEF MountsOn, ToSet
<1> HIDE DEF ms
<1>4. \A x \in Mount : mount[x].next \in Mount \cup {Nil}
  BY DEF TypeOK
<1>5. ASSUME NEW k \in 1..Len(ms)
      PROVE  /\ ms[k] \in Mount /\ mount[ms[k]].live /\ ms[k] \in Table(g)
             /\ ListFrom(ms[k]) = SubSeq(ms, k, Len(ms))
             /\ ListFrom(ms[k]) \in Seq(Mount)
             /\ ToSet(ListFrom(ms[k])) \subseteq MountsOn(g, d)
             /\ ListFrom(ms[k]) # <<>> /\ ListFrom(ms[k])[1] = ms[k]
  <2>1. /\ IsList(mount, SubSeq(ms, k, Len(ms)), ms[k])
        /\ SubSeq(ms, k, Len(ms)) \in Seq(Mount)
        /\ ToSet(SubSeq(ms, k, Len(ms))) \subseteq ToSet(ms)
    BY <1>1, ListRest
  <2>2. ListFrom(ms[k]) = SubSeq(ms, k, Len(ms))
    BY <1>4, <2>1, ListIs DEF ListFrom
  <2>3. ms[k] \in MountsOn(g, d) /\ ms[k] \in Mount
    BY <1>2, <1>3
  <2>4. ms[k] \in Table(g)
    BY <2>3 DEF Table
  <2>5. ListFrom(ms[k]) # <<>> /\ ListFrom(ms[k])[1] = ms[k]
    <3>1. IsList(mount, ListFrom(ms[k]), ms[k]) /\ ms[k] # Nil
      BY <2>1, <2>2, <2>3 DEF Mount, Nil
    <3> QED
      BY <3>1 DEF IsList
  <2> QED
    BY <1>1, <2>1, <2>2, <2>3, <2>4, <2>5 DEF MountsOn, ms
<1>6. head[g][d].mount # Nil => head[g][d].mount \in MountsOn(g, d)
  BY <1>2, <1>3
<1>7. ASSUME NEW m \in MountsOn(g, d)
      PROVE  /\ m \in Mount /\ mount[m].live /\ m \in Table(g)
             /\ ListFrom(m) \in Seq(Mount)
             /\ ToSet(ListFrom(m)) \subseteq MountsOn(g, d)
             /\ \E k \in 1..Len(ms) : ListFrom(m) = SubSeq(ms, k, Len(ms))
             /\ ListFrom(m) # <<>> /\ ListFrom(m)[1] = m
  <2>1. PICK k \in 1..Len(ms) : m = ms[k]
    BY <1>3, <1>7
  <2> QED
    BY <1>5, <2>1
<1> QED
  BY <1>2, <1>6, <1>7 DEF ms

(* The first of ms that is in S. *)
LEMMA FirstIs ==
  ASSUME NEW A, NEW ms \in Seq(A), NEW S, S \cap ToSet(ms) # {}
  PROVE  \E k \in 1..Len(ms) : /\ First(ms, S) = ms[k] /\ ms[k] \in S
                               /\ \A j \in 1..(k - 1) : ms[j] \notin S
<1> DEFINE I == {i \in 1..Len(ms) : ms[i] \in S}
<1>1. I \subseteq Nat /\ I # {} /\ DOMAIN ms = 1..Len(ms)
  BY DEF ToSet
<1>2. PICK k \in I : \A j \in I : k <= j
  <2> HIDE DEF I
  <2> QED
    BY <1>1, LeastNat
<1>3. k \in 1..Len(ms) /\ ms[k] \in S /\ \A j \in 1..(k - 1) : ms[j] \notin S
  <2>1. \A j \in 1..(k - 1) : j \in 1..Len(ms) /\ ~(k <= j)
    OBVIOUS
  <2> QED
    BY <1>2, <2>1
<1> DEFINE P(i) == ms[i] \in S /\ \A j \in 1..(i - 1) : ms[j] \notin S
           f == CHOOSE i \in 1..Len(ms) : P(i)
<1>4. f \in 1..Len(ms) /\ P(f)
  BY <1>3
<1>5. First(ms, S) = ms[f]
  BY DEF First
<1> HIDE DEF f
<1> QED
  BY <1>4, <1>5

-----------------------------------------------------------------------------
(* The steps of namec and walk. *)

LEMMA Channels ==
  ASSUME IndInv
  PROVE  /\ ch \in ChansType /\ FreeOK(ch) /\ ~ch.panic /\ Len(ch.free) \in Nat
         /\ \A x \in Chan : ch.of[x].ref > 0 => ch.of[x].file \in File
         /\ \A x \in Chan : ch.of[x] \in ChanType /\ ch.of[x].ref \in Nat
<1>1. ch \in ChansType
  BY DEF IndInv, TypeOK, ChansType, ChanType
<1>2. ch.free \in Seq(Chan) /\ \A x \in Chan : ch.of[x] \in ChanType
  BY <1>1 DEF ChansType
<1>3. \A x \in Chan : ch.of[x].ref \in Nat
  BY <1>2 DEF ChanType
<1> QED
  BY <1>1, <1>2, <1>3 DEF IndInv, ChanInv, FreeOK

LEMMA Walking ==
  ASSUME IndInv, NEW p \in Proc, at[p] \in HasWalk \cup {"unclone", "unclone2"}
  PROVE  /\ w[p] \in Chan /\ grp[p] \in Group /\ name[p] \in Seq(Elem)
         /\ Len(got[p]) < Len(Names(job[p])) /\ job[p] \in Calls[p]
         /\ at[p] \in HasWalk =>
              /\ ch.of[w[p]].ref = 1 /\ Own(p, w[p]) = 1 /\ Base(p, w[p]) = 0
              /\ ch.of[w[p]].file \in File
         /\ \A z : Own(p, z) = Base(p, z) + (IF z = w[p] /\ at[p] \in HasWalk THEN 1 ELSE 0)
         /\ at[p] # "domount" =>
              name[p] # <<>> /\ Head(name[p]) \in Elem /\ Tail(name[p]) \in Seq(Elem)
<1>1. Calling(p)
  BY DEF IndInv, CallInv
<1>2. /\ w[p] \in Chan /\ grp[p] \in Group /\ name[p] \in Seq(Elem) /\ Len(got[p]) < Len(Names(job[p]))
      /\ job[p] \in Calls[p]
  BY <1>1 DEF Calling, HasWalk, IndInv, TypeOK
<1>3. \A z : Own(p, z) = Base(p, z) + (IF z = w[p] /\ at[p] \in HasWalk THEN 1 ELSE 0)
             /\ Base(p, z) \in Nat /\ Own(p, z) \in Nat
  BY OwnBase
<1>4. ASSUME at[p] \in HasWalk
      PROVE  /\ ch.of[w[p]].ref = 1 /\ Own(p, w[p]) = 1 /\ Base(p, w[p]) = 0
             /\ ch.of[w[p]].file \in File
  <2>1. Own(p, w[p]) = Base(p, w[p]) + 1
    BY <1>3, <1>4
  <2>2. Own(p, w[p]) > 0
    BY <1>3, <2>1
  <2>3. ch.of[w[p]].ref = 1 /\ Own(p, w[p]) = 1
    BY <1>2, <2>2, OwnAlone DEF IndInv
  <2>4. Base(p, w[p]) = 0
    BY <1>3, <2>1, <2>3
  <2> QED
    BY <1>2, <2>3, <2>4, Channels
<1>5. at[p] # "domount" =>
              name[p] # <<>> /\ Head(name[p]) \in Elem /\ Tail(name[p]) \in Seq(Elem)
  <2>1. at[p] # "domount" => name[p] # <<>>
    BY <1>1 DEF Calling, HasWalk
  <2> QED
    BY <1>2, <2>1
<1> QED
  BY <1>2, <1>3, <1>4, <1>5

LEMMA SetThenClose ==
  ASSUME NEW a \in ChansType, FreeOK(a), NEW y \in Chan, NEW r \in ChanType, r.ref = a.of[y].ref,
         NEW v \in Chan, v # y, a.of[v].ref > 0,
         NEW t, t = Close(WithFields(a, y, r), v)
  PROVE  /\ t \in ChansType /\ FreeOK(t) /\ t.panic = a.panic
         /\ t.of[y].ref = r.ref
         /\ t.of[y].file = r.file /\ t.of[y].mnt = r.mnt /\ t.of[y].mountid = r.mountid
         /\ \A z \in Chan : z # y =>
              /\ t.of[z].ref = a.of[z].ref - (IF z = v THEN 1 ELSE 0)
              /\ t.of[z].file = a.of[z].file /\ t.of[z].mnt = a.of[z].mnt /\ t.of[z].mountid = a.of[z].mountid
<1> DEFINE b == WithFields(a, y, r)
<1>0. b = WithFields(a, y, r) /\ t = Close(b, v)
  OBVIOUS
<1> HIDE DEF b
<1>1. /\ b \in ChansType /\ FreeOK(b) /\ b.panic = a.panic /\ b.of[y] = r
      /\ \A z \in Chan : z # y => b.of[z] = a.of[z]
  BY <1>0, SetField
<1>2. b.of[v].ref > 0
  BY <1>1
<1>3. /\ Close(b, v) \in ChansType /\ FreeOK(Close(b, v)) /\ SameButRefs(b, Close(b, v))
      /\ \A z \in Chan : Close(b, v).of[z].ref = b.of[z].ref - (IF z = v THEN 1 ELSE 0)
  BY <1>1, <1>2, CloseEffect
<1>4. r.ref \in Nat
  BY DEF ChanType
<1>5. t.of[y].ref = r.ref
  BY <1>0, <1>1, <1>3, <1>4
<1>6. \A z \in Chan : z # y => t.of[z].ref = a.of[z].ref - (IF z = v THEN 1 ELSE 0)
  BY <1>0, <1>1, <1>3
<1> QED
  BY <1>0, <1>1, <1>3, <1>5, <1>6 DEF SameButRefs

(* A clone of x, with the fields of r, in the place of v. *)
Replaced(s, x, r, v) == Close(WithFields(Clone(s, x), NewChan(s), r), v)

LEMMA ReplaceEffect ==
  ASSUME NEW s \in ChansType, FreeOK(s), Len(s.free) >= 1, NEW x \in Chan, s.of[x].ref > 0,
         NEW v \in Chan, s.of[v].ref > 0, NEW y, y = NewChan(s),
         NEW r \in ChanType, r.ref = 1, NEW t, t = Replaced(s, x, r, v)
  PROVE  /\ y \in Chan /\ y # v /\ s.of[y].ref = 0
         /\ t \in ChansType /\ FreeOK(t) /\ t.panic = s.panic
         /\ \A z \in Chan : t.of[z].ref = s.of[z].ref + (IF z = y THEN 1 ELSE 0) - (IF z = v THEN 1 ELSE 0)
         /\ t.of[y].file = r.file /\ t.of[y].mnt = r.mnt /\ t.of[y].mountid = r.mountid
         /\ \A z \in Chan : z # y =>
              t.of[z].file = s.of[z].file /\ t.of[z].mnt = s.of[z].mnt /\ t.of[z].mountid = s.of[z].mountid
<1> DEFINE a == Clone(s, x)
<1>1. /\ y \in Chan /\ y # x /\ s.of[y].ref = 0
      /\ a \in ChansType /\ FreeOK(a) /\ a.panic = s.panic
      /\ a.of[y] = [s.of[x] EXCEPT !.ref = 1]
      /\ \A z \in Chan : z # y => a.of[z] = s.of[z]
  <2> DEFINE aa == a
  <2>1. aa = Clone(s, x)
    OBVIOUS
  <2> HIDE DEF aa
  <2>2. /\ y \in Chan /\ y # x /\ s.of[y].ref = 0
        /\ aa \in ChansType /\ FreeOK(aa) /\ aa.panic = s.panic
        /\ aa.of[y] = [s.of[x] EXCEPT !.ref = 1]
        /\ \A z \in Chan : z # y => aa.of[z] = s.of[z]
    BY <2>1, CloneEffect
  <2> QED
    BY <2>2 DEF aa
<1>2. \A z \in Chan : s.of[z] \in ChanType /\ s.of[z].ref \in Nat
  BY DEF ChansType, ChanType
<1>3. a.of[y].ref = 1
  BY <1>1, <1>2 DEF ChanType
<1>4. t = Close(WithFields(a, y, r), v)
  BY DEF Replaced
<1> HIDE DEF a
<1>5. v # y
  BY <1>1
<1>6. a.of[v].ref > 0
  BY <1>1, <1>5
<1>8. /\ t \in ChansType /\ FreeOK(t) /\ t.panic = a.panic
      /\ t.of[y].ref = r.ref
      /\ t.of[y].file = r.file /\ t.of[y].mnt = r.mnt /\ t.of[y].mountid = r.mountid
      /\ \A z \in Chan : z # y =>
           /\ t.of[z].ref = a.of[z].ref - (IF z = v THEN 1 ELSE 0)
           /\ t.of[z].file = a.of[z].file /\ t.of[z].mnt = a.of[z].mnt /\ t.of[z].mountid = a.of[z].mountid
  <2>1. a \in ChansType /\ FreeOK(a) /\ y \in Chan /\ r.ref = a.of[y].ref
    BY <1>1, <1>3
  <2> QED
    BY <1>4, <1>5, <1>6, <2>1, SetThenClose
<1>9. ASSUME NEW z \in Chan
      PROVE  t.of[z].ref = s.of[z].ref + (IF z = y THEN 1 ELSE 0) - (IF z = v THEN 1 ELSE 0)
  <2>1. CASE z = y
    BY <1>1, <1>5, <1>8, <2>1
  <2>2. CASE z # y
    BY <1>1, <1>2, <1>8, <2>2
  <2> QED
    BY <2>1, <2>2
<1> QED
  BY <1>1, <1>5, <1>8, <1>9

(* A channel of the walk gives way to another. *)
LEMMA ReplaceStep ==
  ASSUME IndInv, NEW p \in Proc, at[p] \in HasWalk, Enough(1),
         NEW x \in Chan, ch.of[x].ref > 0, NEW y, y = NewChan(ch),
         NEW r \in ChanType, r.ref = 1, r.file \in File,
         ch' = Replaced(ch, x, r, w[p])
  PROVE  /\ y \in Chan /\ ch.of[y].ref = 0 /\ y # w[p]
         /\ ch' \in ChansType /\ FreeOK(ch') /\ ~ch'.panic /\ ch'.of[y].ref = 1
         /\ ch'.of[y].file = r.file /\ ch'.of[y].mnt = r.mnt /\ ch'.of[y].mountid = r.mountid
         /\ \A z \in Chan : z # y => SameFields(z)
         /\ \A z \in Chan :
              /\ ch'.of[z].ref + Own(p, z) = ch.of[z].ref + Base(p, z) + (IF z = y THEN 1 ELSE 0)
              /\ ch'.of[z].ref > 0 => ch'.of[z].file \in File
              /\ ch.of[z].ref > 0 /\ (Own(p, z) = 0 \/ Base(p, z) > 0) => SameFields(z)
<1> DEFINE v == w[p]
           s == ch
           t == ch'
<1>1. /\ v \in Chan /\ s.of[v].ref = 1 /\ s \in ChansType /\ FreeOK(s) /\ ~s.panic /\ Len(s.free) >= 1
      /\ s.of[x].ref > 0 /\ y = NewChan(s) /\ t = Replaced(s, x, r, v)
      /\ \A z \in Chan : s.of[z].ref \in Nat /\ (s.of[z].ref > 0 => s.of[z].file \in File)
  BY Walking, Channels DEF Enough
<1>2. \A z : Own(p, z) = Base(p, z) + (IF z = v THEN 1 ELSE 0) /\ Base(p, z) \in Nat
  BY Walking, OwnBase
<1> HIDE DEF v, s, t
<1>3. /\ y \in Chan /\ y # v /\ s.of[y].ref = 0
      /\ t \in ChansType /\ FreeOK(t) /\ t.panic = s.panic
      /\ \A z \in Chan : t.of[z].ref = s.of[z].ref + (IF z = y THEN 1 ELSE 0) - (IF z = v THEN 1 ELSE 0)
      /\ t.of[y].file = r.file /\ t.of[y].mnt = r.mnt /\ t.of[y].mountid = r.mountid
      /\ \A z \in Chan : z # y =>
           t.of[z].file = s.of[z].file /\ t.of[z].mnt = s.of[z].mnt /\ t.of[z].mountid = s.of[z].mountid
  BY <1>1, ReplaceEffect, SMTT(20)
<1>4. \A z \in Chan : z # y => SameFields(z)
  BY <1>3, Zenon DEF SameFields, s, t
<1>5. t.of[y].ref = 1
  BY <1>3
<1>6. ASSUME NEW z \in Chan
      PROVE  /\ t.of[z].ref + Own(p, z) = s.of[z].ref + Base(p, z) + (IF z = y THEN 1 ELSE 0)
             /\ t.of[z].ref > 0 => t.of[z].file \in File
             /\ s.of[z].ref > 0 => SameFields(z)
  <2>1. t.of[z].ref + Own(p, z) = s.of[z].ref + Base(p, z) + (IF z = y THEN 1 ELSE 0)
    <3> DEFINE n == t.of[z].ref
               k == s.of[z].ref
               o == Own(p, z)
               b == Base(p, z)
    <3>1. /\ n = k + (IF z = y THEN 1 ELSE 0) - (IF z = v THEN 1 ELSE 0) /\ k \in Nat
          /\ o = b + (IF z = v THEN 1 ELSE 0) /\ b \in Nat
      BY <1>1, <1>2, <1>3
    <3> HIDE DEF n, k, o, b
    <3>2. n + o = k + b + (IF z = y THEN 1 ELSE 0)
      BY <3>1
    <3> QED
      BY <3>2 DEF n, k, o, b
  <2>2. t.of[z].ref > 0 => t.of[z].file \in File
    <3>1. CASE z = y
      BY <1>3, <3>1
    <3>2. CASE z # y
      <4>1. t.of[z].ref = s.of[z].ref - (IF z = v THEN 1 ELSE 0) /\ t.of[z].file = s.of[z].file
        BY <1>1, <1>3, <3>2
      <4>2. s.of[z].ref \in Nat /\ (s.of[z].ref > 0 => s.of[z].file \in File)
        BY <1>1
      <4> QED
        BY <4>1, <4>2
    <3> QED
      BY <3>1, <3>2
  <2>3. s.of[z].ref > 0 => z # y
    BY <1>3
  <2> QED
    BY <1>4, <2>1, <2>2, <2>3
<1> QED
  BY <1>1, <1>3, <1>4, <1>5, <1>6 DEF v, s, t

(* DoMount gives the clone the mount. *)
WithMount(a, y, m, k) == [a EXCEPT !.of[y].mnt = m, !.of[y].mountid = k]

LEMMA EditMount ==
  ASSUME NEW s \in ChansType, FreeOK(s), Len(s.free) >= 1, NEW x \in Chan, s.of[x].ref > 0,
         NEW y, y = NewChan(s), NEW m \in Mount, NEW k \in Nat,
         NEW v,
         NEW t, t = Close(WithMount(Clone(s, x), y, m, k), v)
  PROVE  \E r \in ChanType :
           /\ t = Replaced(s, x, r, v)
           /\ r.ref = 1 /\ r.file = s.of[x].file /\ r.mnt = m /\ r.mountid = k
<1> DEFINE a == Clone(s, x)
           r == [s.of[x] EXCEPT !.ref = 1, !.mnt = m, !.mountid = k]
<1>1. a = Clone(s, x)
  OBVIOUS
<1>2. s.of[x] \in ChanType
  BY DEF ChansType
<1> HIDE DEF a
<1>3. y \in Chan /\ a \in ChansType /\ a.of[y] = [s.of[x] EXCEPT !.ref = 1]
  BY <1>1, CloneEffect
<1>4. WithMount(a, y, m, k) = WithFields(a, y, [a.of[y] EXCEPT !.mnt = m, !.mountid = k])
  BY <1>3 DEF ChansType, WithFields, WithMount
<1>5. [a.of[y] EXCEPT !.mnt = m, !.mountid = k] = r
  BY <1>2, <1>3 DEF ChanType
<1>6. t = Replaced(s, x, r, v)
  BY <1>1, <1>4, <1>5 DEF Replaced
<1>7. r \in ChanType /\ r.ref = 1 /\ r.file = s.of[x].file /\ r.mnt = m /\ r.mountid = k
  BY <1>2 DEF ChanType
<1> HIDE DEF r
<1> QED
  BY <1>6, <1>7

LEMMA DoMountOn ==
  ASSUME IndInv, NEW p \in Proc, at[p] = "domount", Enough(1),
         UNCHANGED <<tables, grp, fd, job, fork, left>>,
         NEW m \in Mount, mount[m].live, m \in Table(grp[p]),
         NEW x, x = To(m), NEW k, k = mount[m].mountid, NEW y, y = NewChan(ch),
         ch' = Close(WithMount(Clone(ch, x), y, m, k), w[p]), Proceed(p, y, name[p])
  PROVE  IndInv' /\ FilesKept
<1>1. at[p] \in HasWalk
  BY DEF HasWalk
<1>01. /\ grp[p] \in Group /\ name[p] \in Seq(Elem) /\ w[p] \in Chan
       /\ Len(got[p]) < Len(Names(job[p])) /\ ch.of[w[p]].ref = 1
  BY <1>1, Walking
<1>03. /\ ch \in ChansType /\ FreeOK(ch)
       /\ \A z \in Chan : ch.of[z].ref > 0 => ch.of[z].file \in File
  BY Channels
<1>2. /\ x \in Chan /\ ch.of[x].ref > 0 /\ Own(p, x) = 0
  BY TableChan DEF IndInv
<1>21. k \in Nat
  BY DEF IndInv, TypeOK
<1>30. y = NewChan(ch) /\ Len(ch.free) >= 1 /\ at[p] \in HasWalk
  BY <1>1 DEF Enough
<1>32. PICK r \in ChanType :
         /\ ch' = Replaced(ch, x, r, w[p])
         /\ r.ref = 1 /\ r.file = ch.of[x].file /\ r.mnt = m /\ r.mountid = k
  BY <1>01, <1>03, <1>2, <1>21, <1>30, EditMount
<1>33. x \in Chan /\ ch.of[x].file \in File
  BY <1>03, <1>2
<1>3. r \in ChanType /\ r.ref = 1 /\ r.file = FileOf(x) /\ r.file \in File /\ r.mnt = m /\ r.mountid = k
  BY <1>32, <1>33 DEF FileOf
<1>5. /\ y \in Chan /\ ch.of[y].ref = 0 /\ y # w[p]
      /\ ch' \in ChansType /\ FreeOK(ch') /\ ~ch'.panic /\ ch'.of[y].ref = 1
      /\ ch'.of[y].file = r.file /\ ch'.of[y].mnt = r.mnt /\ ch'.of[y].mountid = r.mountid
      /\ \A z \in Chan : z # y => SameFields(z)
      /\ \A z \in Chan :
           /\ ch'.of[z].ref + Own(p, z) = ch.of[z].ref + Base(p, z) + (IF z = y THEN 1 ELSE 0)
           /\ ch'.of[z].ref > 0 => ch'.of[z].file \in File
           /\ ch.of[z].ref > 0 /\ (Own(p, z) = 0 \/ Base(p, z) > 0) => SameFields(z)
  BY <1>2, <1>3, <1>30, <1>32, ReplaceStep
<1>6. /\ mount' = mount /\ head' = head /\ grp' = grp
      /\ \A h \in Group : Table(h)' = Table(h)
      /\ \A n \in Mount : To(n)' = To(n)
  <2>1. mount' = mount /\ head' = head /\ grp' = grp
    BY DEF tables
  <2> QED
    BY <2>1, TablesSame
<1>7. ShowsIn(grp[p], y)'
  <2>1. ch'.of[y].mnt = m /\ ch'.of[y].mountid = k
    BY <1>3, <1>5
  <2>2. m \in Table(grp[p])' /\ mount'[m].mountid = k
    BY <1>01, <1>6
  <2> QED
    BY <2>1, <2>2 DEF ShowsIn
<1>8. FileOf(y)' = FileOf(To(ch.of[y].mnt))'
  <2>1. ch'.of[y].file = ch.of[x].file /\ ch'.of[y].mnt = m
    BY <1>3, <1>5 DEF FileOf
  <2>2. x # y
    BY <1>2, <1>5
  <2>3. ch'.of[x].file = ch.of[x].file
    BY <1>2, <1>5, <2>2 DEF SameFields
  <2>4. To(ch.of[y].mnt)' = x
    BY <1>6, <2>1 DEF To
  <2> QED
    BY <2>1, <2>3, <2>4 DEF FileOf
<1> QED
  BY <1>1, <1>01, <1>5, <1>7, <1>8, WalkStep

LEMMA DoMountKeeps ==
  ASSUME IndInv, NEW p \in Proc, DoMount(p)
  PROVE  IndInv' /\ FilesKept
<1> DEFINE g == grp[p]
           f == FileOf(w[p])
           y == NewChan(ch)
           m == head[g][f].mount
<1>1. /\ at[p] = "domount" /\ Enough(1) /\ UNCHANGED <<tables, grp, fd, job, fork, left>>
  BY DEF DoMount
<1>2. /\ at[p] \in HasWalk /\ w[p] \in Chan /\ g \in Group /\ name[p] \in Seq(Elem) /\ f \in File
      /\ Len(got[p]) < Len(Names(job[p])) /\ ch.of[w[p]].ref = 1
      /\ Own(p, w[p]) = 1 /\ Base(p, w[p]) = 0
      /\ \A z : Own(p, z) = Base(p, z) + (IF z = w[p] THEN 1 ELSE 0)
  <2>1. at[p] \in HasWalk
    BY <1>1 DEF HasWalk
  <2> QED
    BY <2>1, Walking DEF FileOf
<1>3. /\ ch \in ChansType /\ FreeOK(ch) /\ ~ch.panic
      /\ \A x \in Chan : ch.of[x].ref > 0 => ch.of[x].file \in File
      /\ \A x \in Chan : ch.of[x] \in ChanType /\ ch.of[x].ref \in Nat
  BY Channels
<1>31. \A z : Base(p, z) \in Nat
  BY OwnBase
<1>4. CASE m = Nil
  <2> DEFINE r == [ch.of[w[p]] EXCEPT !.mnt = Nil]
  <2>1. ch' = WithFields(ch, w[p], r) /\ Proceed(p, w[p], name[p])
    BY <1>1, <1>3, <1>4 DEF DoMount, WithFields, ChansType
  <2>2. r \in ChanType /\ r.ref = ch.of[w[p]].ref /\ r.file = f /\ r.mnt = Nil
    BY <1>2, <1>3 DEF ChanType, FileOf
  <2> HIDE DEF r
  <2>3. /\ ch' \in ChansType /\ FreeOK(ch') /\ ch'.panic = ch.panic
        /\ ch'.of[w[p]] = r /\ \A z \in Chan : z # w[p] => ch'.of[z] = ch.of[z]
    BY <1>2, <1>3, <2>1, <2>2, SetField
  <2>4. ASSUME NEW z \in Chan
        PROVE  /\ ch'.of[z].ref + Own(p, z) = ch.of[z].ref + Base(p, z) + (IF z = w[p] THEN 1 ELSE 0)
               /\ ch'.of[z].ref > 0 => ch'.of[z].file \in File
               /\ ch.of[z].ref > 0 /\ (Own(p, z) = 0 \/ Base(p, z) > 0) => SameFields(z)
    <3>1. CASE z = w[p]
      BY <1>2, <1>3, <2>2, <2>3, <3>1
    <3>2. CASE z # w[p]
      BY <1>2, <1>3, <1>31, <2>3, <3>2 DEF SameFields
    <3> QED
      BY <3>1, <3>2
  <2>5. SUFFICES ASSUME NEW x, x = w[p]
                 PROVE  IndInv' /\ FilesKept
    OBVIOUS
  <2>6. ch'.of[x].mnt = Nil /\ ch'.of[x].ref = 1 /\ x \in Chan
    BY <1>2, <2>2, <2>3, <2>5
  <2>7. ShowsIn(grp[p], x)'
    BY <2>6 DEF ShowsIn
  <2>8. /\ Proceed(p, x, name[p])
        /\ \A z \in Chan : ch'.of[z].ref + Own(p, z) = ch.of[z].ref + Base(p, z) + (IF z = x THEN 1 ELSE 0)
    BY <2>1, <2>4, <2>5
  <2> QED
    BY <1>1, <1>2, <1>3, <2>3, <2>4, <2>6, <2>7, <2>8, WalkStep
<1>5. CASE m # Nil
  <2>1. m \in Mount /\ mount[m].live /\ m \in Table(g)
    BY <1>2, <1>5, TableLive DEF IndInv
  <2>2. SUFFICES ASSUME NEW yy, yy = y, NEW mm, mm = m, NEW k, k = mount[m].mountid, NEW x, x = To(m)
                 PROVE  IndInv' /\ FilesKept
    OBVIOUS
  <2>3. /\ ch' = Close(WithMount(Clone(ch, x), yy, mm, k), w[p]) /\ Proceed(p, yy, name[p])
        /\ mm \in Mount /\ mount[mm].live /\ mm \in Table(grp[p])
        /\ x = To(mm) /\ k = mount[mm].mountid /\ yy = NewChan(ch)
    BY <1>1, <1>5, <2>1, <2>2 DEF DoMount, WithMount
  <2> HIDE DEF g, f, y, m
  <2> QED
    BY <1>1, <2>3, DoMountOn
<1> QED
  BY <1>4, <1>5

LEMMA CloneKeeps ==
  ASSUME IndInv, Enough(1), NEW x \in Chan, ch.of[x].ref > 0, NEW y, y = NewChan(ch),
         ch' = Clone(ch, x)
  PROVE  /\ y \in Chan /\ ch.of[y].ref = 0
         /\ ch' \in ChansType /\ FreeOK(ch') /\ ~ch'.panic /\ ch'.of[y].ref = 1
         /\ \A z \in Chan : z # y => ch'.of[z] = ch.of[z]
         /\ \A z \in Chan :
              /\ ch'.of[z].ref = ch.of[z].ref + (IF z = y THEN 1 ELSE 0)
              /\ ch'.of[z].ref > 0 => ch'.of[z].file \in File
              /\ ch.of[z].ref > 0 => SameFields(z)
<1> DEFINE s == ch
           t == ch'
<1>1. /\ s \in ChansType /\ FreeOK(s) /\ ~s.panic /\ Len(s.free) >= 1 /\ y = NewChan(s) /\ t = Clone(s, x)
      /\ s.of[x].ref > 0 /\ s.of[x] \in ChanType
      /\ \A z \in Chan : s.of[z].ref \in Nat /\ (s.of[z].ref > 0 => s.of[z].file \in File)
  BY Channels DEF Enough
<1> HIDE DEF s, t
<1>2. /\ y \in Chan /\ y # x /\ s.of[y].ref = 0
      /\ t \in ChansType /\ FreeOK(t) /\ t.panic = s.panic
      /\ t.of[y] = [s.of[x] EXCEPT !.ref = 1]
      /\ \A z \in Chan : z # y => t.of[z] = s.of[z]
  BY <1>1, CloneEffect
<1>3. t.of[y].ref = 1 /\ t.of[y].file = s.of[x].file /\ s.of[x].file \in File
  BY <1>1, <1>2 DEF ChanType
<1>4. ASSUME NEW z \in Chan
      PROVE  /\ t.of[z].ref = s.of[z].ref + (IF z = y THEN 1 ELSE 0)
             /\ t.of[z].ref > 0 => t.of[z].file \in File
             /\ s.of[z].ref > 0 => SameFields(z)
  <2>1. CASE z = y
    <3>1. t.of[z].ref = 1 /\ t.of[z].file \in File /\ s.of[z].ref = 0
      BY <1>2, <1>3, <2>1
    <3> QED
      BY <2>1, <3>1
  <2>2. CASE z # y
    <3>1. t.of[z] = s.of[z] /\ s.of[z].ref \in Nat /\ (s.of[z].ref > 0 => s.of[z].file \in File)
      BY <1>1, <1>2, <2>2
    <3> QED
      BY <2>2, <3>1 DEF SameFields, s, t
  <2> QED
    BY <2>1, <2>2
<1> QED
  BY <1>1, <1>2, <1>3, <1>4 DEF s, t

(* What a name starts from. *)
LEMMA StartFrom ==
  ASSUME IndInv, Orderly, NEW p \in Proc
  PROVE  /\ group[grp[p]].slash \in Chan /\ ch.of[group[grp[p]].slash].ref > 0
         /\ group[grp[p]].dot \in Chan
         /\ at[p] # "setdot" /\ DotUsable(p) => ch.of[group[grp[p]].dot].ref > 0
<1> SUFFICES ASSUME NEW g, g = grp[p]
             PROVE  /\ group[g].slash \in Chan /\ ch.of[group[g].slash].ref > 0
                    /\ group[g].dot \in Chan
                    /\ at[p] # "setdot" /\ DotUsable(p) => ch.of[group[g].dot].ref > 0
  OBVIOUS
<1>1. g \in Group
  BY DEF IndInv, TypeOK
<1>2. p \in Users(g)
  BY DEF Users
<1>3. group[g].slash \in Chan /\ group[g].dot \in Chan
  BY <1>1, <1>2 DEF IndInv, GroupInv
<1>4. group[g].slash # Nil /\ group[g].dot # Nil
  BY <1>3, NameSpaceAssumption DEF Chan, Nil
<1>5. ASSUME at[p] # "setdot", DotUsable(p)
      PROVE  \A q \in Proc : grp[q] = g => at[q] # "setdot"
  BY <1>5 DEF DotUsable, Orderly
<1> QED
  BY <1>1, <1>3, <1>4, <1>5, TableChan DEF IndInv

LEMMA StartKeeps ==
  ASSUME IndInv, Orderly, NEW p \in Proc, Start(p)
  PROVE  IndInv' /\ FilesKept
<1> DEFINE path == Names(job[p])[Len(got[p]) + 1][1]
           from == IF path.rooted THEN group[grp[p]].slash ELSE group[grp[p]].dot
<1> SUFFICES ASSUME NEW x, x = from, NEW y, y = NewChan(ch), NEW rest, rest = path.elems
             PROVE  IndInv' /\ FilesKept
  OBVIOUS
<1>1. /\ at[p] = "op" /\ Len(got[p]) < Len(Names(job[p])) /\ Enough(1)
      /\ UNCHANGED <<tables, grp, fork, fd, job, left>>
      /\ path.rooted \/ DotUsable(p)
      /\ ch' = Clone(ch, x)
      /\ Arrive(p, y, rest) \/ (Proceed(p, y, rest) /\ rest = <<>> /\ Mode(p) \notin {"access", "open"})
  BY DEF Start, Arrive
<1>2. x \in Chan /\ ch.of[x].ref > 0
  BY <1>1, StartFrom
<1>3. rest \in Seq(Elem)
  <2>1. job[p] \in Calls[p]
    BY <1>1 DEF IndInv, CallInv, Calling
  <2>2. Names(job[p]) \in Seq(Path \X {"access", "mount", "open", "todir"})
    BY <2>1, NamesType
  <2>3. got[p] \in Seq(Chan)
    BY DEF IndInv, TypeOK
  <2>4. Len(got[p]) + 1 \in 1..Len(Names(job[p]))
    BY <1>1, <2>2, <2>3
  <2>5. path \in Path
    BY <2>2, <2>4
  <2> QED
    BY <2>5 DEF Path
<1> HIDE DEF path, from
<1>4. /\ y \in Chan /\ ch.of[y].ref = 0
      /\ ch' \in ChansType /\ FreeOK(ch') /\ ~ch'.panic /\ ch'.of[y].ref = 1
      /\ \A z \in Chan :
           /\ ch'.of[z].ref = ch.of[z].ref + (IF z = y THEN 1 ELSE 0)
           /\ ch'.of[z].ref > 0 => ch'.of[z].file \in File
           /\ ch.of[z].ref > 0 => SameFields(z)
  BY <1>1, <1>2, CloneKeeps
<1>5. \A z : Own(p, z) = Base(p, z) /\ Base(p, z) \in Nat
  BY <1>1, OwnBase DEF HasWalk
<1>6. ASSUME NEW z \in Chan
      PROVE  /\ ch'.of[z].ref + Own(p, z) = ch.of[z].ref + Base(p, z) + (IF z = y THEN 1 ELSE 0)
             /\ ch'.of[z].ref > 0 => ch'.of[z].file \in File
             /\ ch.of[z].ref > 0 /\ (Own(p, z) = 0 \/ Base(p, z) > 0) => SameFields(z)
  <2> DEFINE k == ch.of[z].ref
             n == ch'.of[z].ref
             b == Base(p, z)
  <2>1. k \in Nat /\ n = k + (IF z = y THEN 1 ELSE 0) /\ Own(p, z) = b /\ b \in Nat
    BY <1>4, <1>5, Channels
  <2> HIDE DEF k, n, b
  <2>2. n + Own(p, z) = k + b + (IF z = y THEN 1 ELSE 0)
    BY <2>1
  <2> QED
    BY <1>4, <2>2 DEF k, n, b
<1>7. /\ at'[p] # "dev"
      /\ ~(at'[p] = "op" /\ Mode(p) \in {"access", "open"})
  <2>1. at \in [Proc -> Labels]
    BY DEF IndInv, TypeOK
  <2> QED
    BY <1>1, <2>1 DEF Arrive, Proceed
<1>8. Proceed(p, y, rest) \/ Arrive(p, y, rest)
  BY <1>1
<1> QED
  BY <1>1, <1>3, <1>4, <1>6, <1>7, <1>8, WalkStep

(* The walk goes on to the channel x. *)
Move(p, next, x) ==
  /\ at' = [at EXCEPT ![p] = next] /\ w' = [w EXCEPT ![p] = x]
  /\ UNCHANGED <<tables, grp, fd, job, c, name, got, fork, left>>

LEMMA MoveStep ==
  ASSUME IndInv, NEW p \in Proc, NEW x \in Chan, NEW next,
         at[p] \in {"undo", "unclone", "dev", "undo2", "unclone2"},
         next \in {"unclone", "dev", "undo2", "unclone2", "walked"},
         Move(p, next, x),
         next \in {"unclone", "dev"} => Head(name[p]) = "..",
         next \in {"unclone", "unclone2"} => \E d \in File : head[grp[p]][d].from = x,
         ch' \in ChansType, FreeOK(ch'), ~ch'.panic, next \in HasWalk => ch'.of[x].ref = 1,
         \A z \in Chan :
           /\ ch'.of[z].ref + Own(p, z)
                = ch.of[z].ref + Base(p, z) + (IF z = x /\ next \in HasWalk THEN 1 ELSE 0)
           /\ ch'.of[z].ref > 0 => ch'.of[z].file \in File
           /\ ch.of[z].ref > 0 /\ (Own(p, z) = 0 \/ Base(p, z) > 0) => SameFields(z)
  PROVE  IndInv' /\ FilesKept
<1> USE DEF IndInv
<1>1. /\ mount' = mount /\ head' = head /\ group' = group /\ mountid' = mountid
      /\ grp' = grp /\ fork' = fork /\ fd' = fd /\ job' = job /\ left' = left
      /\ c' = c /\ name' = name /\ got' = got
  BY DEF tables, Move
<1>2. /\ at' \in [Proc -> Labels] /\ w' \in [Proc -> Chan \cup {Nil}]
      /\ at'[p] = next /\ w'[p] = x /\ OthersKeep(p)
  BY <1>1 DEF TypeOK, OthersKeep, Labels, Move
<1>3. TypeOK'
  BY <1>1, <1>2 DEF TypeOK, ChansType, ChanType
<1>4. Calling(p) /\ Showing(p)
  BY DEF CallInv, ShowsInv
<1>5. \A z : Own(p, z)' = Base(p, z) + (IF z = x /\ next \in HasWalk THEN 1 ELSE 0)
  <2>1. ASSUME NEW z
        PROVE  Own(p, z)' = Base(p, z) + (IF z = x /\ next \in HasWalk THEN 1 ELSE 0)
    <3>1. fd'[p] = fd[p] /\ got'[p] = got[p] /\ (w'[p] = z <=> z = x) /\ at'[p] = next
      BY <1>1, <1>2
    <3> QED
      BY <3>1 DEF Own, Base
  <2> QED
    BY <2>1
<1>6. ASSUME NEW z \in Chan, Own(p, z)' > 0
      PROVE  ~(ch'.of[z].ref > 1)
  <2>1. CASE z = x /\ next \in HasWalk
    BY <2>1
  <2>2. CASE ~(z = x /\ next \in HasWalk)
    <3>1. Base(p, z) > 0 /\ Own(p, z)' = Base(p, z) /\ Base(p, z) \in Nat
      BY <1>5, <1>6, <2>2, OwnBase
    <3>2. ch.of[z].ref = 1 /\ Own(p, z) = 1
      BY <3>1, OwnBase, OwnAlone
    <3>3. Base(p, z) <= 1
      BY <3>2, OwnBase
    <3>4. ch'.of[z].ref + 1 = 1 + Base(p, z)
      BY <2>2, <3>1, <3>2
    <3>5. ch'.of[z].ref \in Nat
      BY DEF ChansType, ChanType
    <3> QED
      BY <3>1, <3>3, <3>4, <3>5
  <2> QED
    BY <2>1, <2>2
<1>7. Calling(p)'
  BY <1>1, <1>2, <1>4 DEF Calling, HasWalk
<1>8. Showing(p)'
  <2>1. /\ \A i \in 1..Len(got[p]) : GotShows(p, i)'
        /\ FdShows(p)'
    BY <1>1, KeepsShowing
  <2>2. at'[p] = "dev" /\ Head(name'[p]) # ".." => ShowsIn(grp[p], w[p])'
    BY <1>1, <1>2
  <2>3. got'[p] = got[p]
    BY <1>1
  <2> QED
    BY <2>1, <2>2, <2>3 DEF Showing
<1>9. at[p] \notin {"copied", "setdot"} /\ at'[p] \notin {"copied", "setdot"}
  BY <1>2
<1>10. \A z \in Chan : ch'.of[z].ref + Own(p, z) = ch.of[z].ref + Own(p, z)'
  <2>1. ASSUME NEW z \in Chan
        PROVE  ch'.of[z].ref + Own(p, z) = ch.of[z].ref + Own(p, z)'
    <3>1. /\ Own(p, z)' = Base(p, z) + (IF z = x /\ next \in HasWalk THEN 1 ELSE 0)
          /\ Base(p, z) \in Nat
      BY <1>5, OwnBase
    <3>2. ch.of[z].ref \in Nat
      BY DEF TypeOK
    <3> QED
      BY <3>1, <3>2
  <2> QED
    BY <2>1
<1>11. UNCHANGED <<tables, grp, fork>>
  BY DEF Move
<1>12. at'[p] \in {"unclone", "unclone2"} => \E d \in File : head[grp[p]][d].from = w'[p]
  BY <1>2
<1> QED
  BY <1>2, <1>3, <1>6, <1>7, <1>8, <1>9, <1>10, <1>11, <1>12, CountedStep

LEMMA UndoneAt ==
  ASSUME IndInv, NEW p \in Proc, at[p] \in {"undo", "unclone"}
  PROVE  Head(name[p]) = ".."
  BY DEF IndInv, CallInv, Calling

LEMMA UncloneKeeps ==
  ASSUME IndInv, NEW p \in Proc,
         Unclone(p, "unclone", "dev") \/ Unclone(p, "unclone2", "walked")
  PROVE  IndInv' /\ FilesKept
<1> SUFFICES ASSUME NEW y, y = NewChan(ch), NEW x, x = w[p]
             PROVE  IndInv' /\ FilesKept
  OBVIOUS
<1>1. PICK next \in {"dev", "walked"} :
        /\ at[p] = (IF next = "dev" THEN "unclone" ELSE "unclone2") /\ Enough(1)
        /\ ch' = Clone(ch, x) /\ w' = [w EXCEPT ![p] = y] /\ at' = [at EXCEPT ![p] = next]
        /\ UNCHANGED <<tables, grp, fd, job, c, name, got, fork, left>>
  <2>1. CASE Unclone(p, "unclone", "dev")
    BY <2>1 DEF Unclone
  <2>2. CASE Unclone(p, "unclone2", "walked")
    BY <2>2 DEF Unclone
  <2> QED
    BY <2>1, <2>2
<1>2. at[p] \in {"unclone", "unclone2"}
  BY <1>1
<1>3. x \in Chan /\ ch.of[x].ref > 0
  <2>1. Between(p) /\ grp[p] \in Group /\ x \in Chan
    BY <1>2, Walking DEF IndInv, BetweenInv
  <2>2. PICK d \in File : head[grp[p]][d].from = x
    BY <1>2, <2>1 DEF Between
  <2>3. x # Nil
    BY <2>1, NameSpaceAssumption DEF Chan, Nil
  <2> QED
    BY <2>1, <2>2, <2>3, TableChan DEF IndInv
<1>4. /\ y \in Chan /\ ch.of[y].ref = 0
      /\ ch' \in ChansType /\ FreeOK(ch') /\ ~ch'.panic /\ ch'.of[y].ref = 1
      /\ \A z \in Chan :
           /\ ch'.of[z].ref = ch.of[z].ref + (IF z = y THEN 1 ELSE 0)
           /\ ch'.of[z].ref > 0 => ch'.of[z].file \in File
           /\ ch.of[z].ref > 0 => SameFields(z)
  BY <1>1, <1>3, CloneKeeps
<1>5. \A z : Own(p, z) = Base(p, z) /\ Base(p, z) \in Nat
  BY <1>2, OwnBase DEF HasWalk
<1>6. ASSUME NEW z \in Chan
      PROVE  /\ ch'.of[z].ref + Own(p, z)
                  = ch.of[z].ref + Base(p, z) + (IF z = y /\ next \in HasWalk THEN 1 ELSE 0)
             /\ ch'.of[z].ref > 0 => ch'.of[z].file \in File
             /\ ch.of[z].ref > 0 /\ (Own(p, z) = 0 \/ Base(p, z) > 0) => SameFields(z)
  <2> DEFINE k == ch.of[z].ref
             n == ch'.of[z].ref
             b == Base(p, z)
  <2>1. k \in Nat /\ n = k + (IF z = y THEN 1 ELSE 0) /\ Own(p, z) = b /\ b \in Nat
    BY <1>4, <1>5, Channels
  <2>2. next \in HasWalk
    BY <1>1 DEF HasWalk
  <2> HIDE DEF k, n, b
  <2>3. n + Own(p, z) = k + b + (IF z = y /\ next \in HasWalk THEN 1 ELSE 0)
    BY <2>1, <2>2
  <2> QED
    BY <1>4, <2>3 DEF k, n, b
<1>7. next = "dev" => Head(name[p]) = ".."
  BY <1>1, UndoneAt
<1>8. /\ at[p] \in {"undo", "unclone", "dev", "undo2", "unclone2"}
      /\ next \in {"unclone", "dev", "undo2", "unclone2", "walked"}
      /\ next \in {"unclone", "unclone2"} => \E d \in File : head[grp[p]][d].from = y
      /\ next \in {"unclone", "dev"} => Head(name[p]) = ".."
  BY <1>1, <1>7
<1>9. Move(p, next, y)
  BY <1>1 DEF Move
<1>10. /\ y \in Chan /\ ch' \in ChansType /\ FreeOK(ch') /\ ~ch'.panic
       /\ next \in HasWalk => ch'.of[y].ref = 1
  BY <1>4
<1> QED
  BY <1>6, <1>8, <1>9, <1>10, MoveStep

(* What a directory is mounted on is a head of the group. *)
LEMMA MountedOnIs ==
  ASSUME NEW g, NEW x
  PROVE  MountedOn(g, x) \in {Nil} \cup {head[g][d].from : d \in File}
<1> DEFINE n == Len(HeadOrder)
           S == [file : File \cup {x}, from : {Nil} \cup {head[g][d].from : d \in File}]
           on(i, a) == IF \E m \in ToSet(List(g, HeadOrder[i])) : FileOf(To(m)) = a.file
                         THEN [file |-> HeadOrder[i], from |-> head[g][HeadOrder[i]].from] ELSE a
           first == [file |-> x, from |-> Nil]
           step == [i \in 1..n |-> [a \in S |-> on(i, a)]]
           body(f) == [i \in 0..n |-> IF i = 0 THEN first ELSE on(i, f[i - 1])]
           hop == CHOOSE h : h = body(h)
<1>0. n \in Nat /\ \A i \in 1..n : HeadOrder[i] \in File
  BY NameSpaceAssumption
<1>01. first \in S
  OBVIOUS
<1>02. ASSUME NEW i \in 1..n, NEW a \in S
       PROVE  on(i, a) \in S
  <2>1. HeadOrder[i] \in File
    BY <1>0
  <2>2. [file |-> HeadOrder[i], from |-> head[g][HeadOrder[i]].from] \in S
    BY <2>1
  <2> HIDE DEF S
  <2> QED
    BY <2>2
<1> HIDE DEF S, first, on
<1>1. step \in Steps(S, n)
  BY <1>02 DEF Steps
<1>2. PICK f : Leads(f, S, n, first, step)
  <2> HIDE DEF step, n, body, hop
  <2> QED
    BY <1>0, <1>01, <1>1, Recursion
<1>22. f \in [0..n -> S] /\ f[0] = first /\ \A i \in 1..n : f[i] = step[i][f[i - 1]]
  BY <1>2 DEF Leads
<1>3. f = body(f)
  <2>1. \A i \in 0..n : i # 0 => i \in 1..n /\ i - 1 \in 0..n
    BY <1>0
  <2>2. \A i \in 0..n : i # 0 => step[i][f[i - 1]] = on(i, f[i - 1])
    BY <1>22, <2>1
  <2> HIDE DEF step
  <2>3. \A i \in 0..n : f[i] = IF i = 0 THEN first ELSE on(i, f[i - 1])
    BY <1>22, <2>1, <2>2
  <2> QED
    BY <1>22, <2>3
<1>4. hop = body(hop)
  BY <1>3
<1>5. MountedOn(g, x) = hop[n].from
  BY DEF MountedOn, on, first
<1> HIDE DEF hop
<1>6. hop[0] = first /\ \A i \in 1..n : hop[i] = on(i, hop[i - 1])
  <2>1. 0 \in 0..n /\ \A i \in 1..n : i \in 0..n /\ i # 0
    BY <1>0
  <2> QED
    BY <1>4, <2>1
<1>7. \A i \in 0..n : hop[i] \in S
  <2> DEFINE T == {i \in 0..n : hop[i] \in S}
  <2>1. 0 \in T
    BY <1>0, <1>01, <1>6
  <2>2. ASSUME NEW i \in 0..(n - 1), i \in T
        PROVE  i + 1 \in T
    <3>1. i + 1 \in 1..n /\ i + 1 \in 0..n /\ (i + 1) - 1 = i
      BY <1>0
    <3>2. hop[i + 1] = on(i + 1, hop[i])
      BY <1>6, <3>1
    <3> QED
      BY <1>02, <2>2, <3>1, <3>2
  <2> HIDE DEF T
  <2>3. \A i \in 0..n : i \in T
    BY <1>0, <2>1, <2>2, Upto
  <2> QED
    BY <2>3 DEF T
<1>8. hop[n] \in S
  BY <1>0, <1>7
<1> QED
  BY <1>5, <1>8 DEF S

LEMMA UndoKeeps ==
  ASSUME IndInv, NEW p \in Proc,
         Undo(p, "undo", "unclone", "dev") \/ Undo(p, "undo2", "unclone2", "walked")
  PROVE  IndInv' /\ FilesKept
<1> SUFFICES ASSUME NEW x, x = MountedOn(grp[p], FileOf(w[p])), NEW v, v = w[p]
             PROVE  IndInv' /\ FilesKept
  OBVIOUS
<1>1. PICK here \in {"undo", "undo2"} :
        /\ at[p] = here
        /\ UNCHANGED <<tables, grp, fd, job, c, name, got, fork, left>>
        /\ \/ /\ x = Nil /\ ch' = ch /\ w' = w
              /\ at' = [at EXCEPT ![p] = IF here = "undo" THEN "dev" ELSE "walked"]
           \/ /\ x # Nil /\ ch' = Close(ch, v) /\ w' = [w EXCEPT ![p] = x]
              /\ at' = [at EXCEPT ![p] = IF here = "undo" THEN "unclone" ELSE "unclone2"]
  <2>1. CASE Undo(p, "undo", "unclone", "dev")
    BY <2>1 DEF Undo
  <2>2. CASE Undo(p, "undo2", "unclone2", "walked")
    BY <2>2 DEF Undo
  <2> QED
    BY <2>1, <2>2
<1>2. /\ at[p] \in HasWalk /\ v \in Chan /\ grp[p] \in Group /\ ch.of[v].ref = 1 /\ Base(p, v) = 0
      /\ \A z : Own(p, z) = Base(p, z) + (IF z = v THEN 1 ELSE 0) /\ Base(p, z) \in Nat
  <2>1. at[p] \in HasWalk
    BY <1>1 DEF HasWalk
  <2> QED
    BY <2>1, Walking, OwnBase
<1>3. here = "undo" => Head(name[p]) = ".."
  BY <1>1, UndoneAt
<1>4. /\ ch \in ChansType /\ FreeOK(ch) /\ ~ch.panic
      /\ \A z \in Chan : ch.of[z].ref \in Nat /\ (ch.of[z].ref > 0 => ch.of[z].file \in File)
  BY Channels
<1>5. CASE x = Nil
  <2> DEFINE next == IF here = "undo" THEN "dev" ELSE "walked"
  <2>1. Move(p, next, v) /\ ch' = ch
    <3>1. w' = [w EXCEPT ![p] = v]
      BY <1>1, <1>5 DEF IndInv, TypeOK
    <3> QED
      BY <1>1, <1>5, <3>1 DEF Move
  <2>2. /\ at[p] \in {"undo", "unclone", "dev", "undo2", "unclone2"}
        /\ next \in {"unclone", "dev", "undo2", "unclone2", "walked"} /\ next \in HasWalk
        /\ next \in {"unclone", "unclone2"} => \E d \in File : head[grp[p]][d].from = v
        /\ next \in {"unclone", "dev"} => Head(name[p]) = ".."
    BY <1>1, <1>3 DEF HasWalk
  <2> HIDE DEF next
  <2>3. ch' \in ChansType /\ FreeOK(ch') /\ ~ch'.panic /\ ch'.of[v].ref = 1
    BY <1>2, <1>4, <2>1
  <2>4. ASSUME NEW z \in Chan
        PROVE  /\ ch'.of[z].ref + Own(p, z)
                    = ch.of[z].ref + Base(p, z) + (IF z = v /\ next \in HasWalk THEN 1 ELSE 0)
               /\ ch'.of[z].ref > 0 => ch'.of[z].file \in File
               /\ ch.of[z].ref > 0 /\ (Own(p, z) = 0 \/ Base(p, z) > 0) => SameFields(z)
    <3> DEFINE k == ch.of[z].ref
               o == Own(p, z)
               b == Base(p, z)
    <3>1. k \in Nat /\ o = b + (IF z = v THEN 1 ELSE 0) /\ b \in Nat
      BY <1>2, <1>4
    <3> HIDE DEF k, o, b
    <3>2. k + o = k + b + (IF z = v /\ next \in HasWalk THEN 1 ELSE 0)
      BY <2>2, <3>1
    <3> QED
      BY <1>4, <2>1, <3>2 DEF k, o, b, SameFields
  <2> QED
    BY <1>2, <2>1, <2>2, <2>3, <2>4, MoveStep
<1>6. CASE x # Nil
  <2> DEFINE next == IF here = "undo" THEN "unclone" ELSE "unclone2"
  <2>1. Move(p, next, x) /\ ch' = Close(ch, v)
    BY <1>1, <1>6 DEF Move
  <2>2. PICK d \in File : head[grp[p]][d].from = x
    BY <1>6, MountedOnIs
  <2>3. /\ at[p] \in {"undo", "unclone", "dev", "undo2", "unclone2"}
        /\ next \in {"unclone", "dev", "undo2", "unclone2", "walked"} /\ next \notin HasWalk
        /\ next \in {"unclone", "unclone2"} => \E e \in File : head[grp[p]][e].from = x
        /\ next \in {"unclone", "dev"} => Head(name[p]) = ".."
    BY <1>1, <1>3, <2>2 DEF HasWalk
  <2> HIDE DEF next
  <2>4. x \in Chan
    BY <1>2, <1>6, <2>2 DEF IndInv, TypeOK
  <2>5. /\ ch' \in ChansType /\ FreeOK(ch') /\ SameButRefs(ch, ch')
        /\ \A z \in Chan : ch'.of[z].ref = ch.of[z].ref - (IF z = v THEN 1 ELSE 0)
    <3> DEFINE s == ch
               t == ch'
    <3>1. s \in ChansType /\ FreeOK(s) /\ s.of[v].ref > 0 /\ t = Close(s, v)
      BY <1>2, <1>4, <2>1
    <3> HIDE DEF s, t
    <3>2. /\ t \in ChansType /\ FreeOK(t) /\ SameButRefs(s, t)
          /\ \A z \in Chan : t.of[z].ref = s.of[z].ref - (IF z = v THEN 1 ELSE 0)
      BY <1>2, <3>1, CloseEffect
    <3> QED
      BY <3>2 DEF s, t
  <2>6. ASSUME NEW z \in Chan
        PROVE  /\ ch'.of[z].ref + Own(p, z)
                    = ch.of[z].ref + Base(p, z) + (IF z = x /\ next \in HasWalk THEN 1 ELSE 0)
               /\ ch'.of[z].ref > 0 => ch'.of[z].file \in File
               /\ ch.of[z].ref > 0 /\ (Own(p, z) = 0 \/ Base(p, z) > 0) => SameFields(z)
    <3> DEFINE k == ch.of[z].ref
               n == ch'.of[z].ref
               o == Own(p, z)
               b == Base(p, z)
    <3>1. k \in Nat /\ o = b + (IF z = v THEN 1 ELSE 0) /\ b \in Nat /\ n = k - (IF z = v THEN 1 ELSE 0)
      BY <1>2, <1>4, <2>5
    <3>2. SameFields(z) /\ (k > 0 => ch'.of[z].file \in File)
      BY <1>4, <2>5 DEF SameFields, SameButRefs
    <3> HIDE DEF k, n, o, b
    <3>3. n + o = k + b + (IF z = x /\ next \in HasWalk THEN 1 ELSE 0) /\ (n > 0 => k > 0)
      BY <2>3, <3>1
    <3> QED
      BY <3>2, <3>3 DEF k, n, o, b
  <2>7. ~ch'.panic
    BY <1>4, <2>5 DEF SameButRefs
  <2> QED
    BY <2>1, <2>3, <2>4, <2>5, <2>6, <2>7, MoveStep
<1> QED
  BY <1>5, <1>6

LEMMA OnwardIs ==
  ASSUME TypeOK, NEW p \in Proc, NEW x, NEW rest, rest = Tail(name[p]), Onward(p, x)
  PROVE  /\ Proceed(p, x, rest) \/ Arrive(p, x, rest)
         /\ at'[p] # "dev"
         /\ at'[p] = "op" => Mode(p) \notin {"access", "open"}
<1>1. at \in [Proc -> Labels]
  BY DEF TypeOK
<1>2. CASE DoMnt(p, rest)
  <2>1. /\ at' = [at EXCEPT ![p] = "domount"] /\ name' = [name EXCEPT ![p] = rest]
        /\ c' = [c EXCEPT ![p] = x] /\ w' = [w EXCEPT ![p] = x] /\ UNCHANGED got
    BY <1>2 DEF Onward
  <2> QED
    BY <1>1, <2>1 DEF Arrive
<1>3. CASE ~DoMnt(p, rest)
  <2>1. Proceed(p, x, rest) /\ rest = <<>> /\ Mode(p) \in {"mount", "todir"}
    BY <1>3 DEF Onward, DoMnt
  <2>2. at'[p] = "op"
    BY <1>1, <2>1 DEF Proceed
  <2> QED
    BY <2>1, <2>2
<1> QED
  BY <1>2, <1>3

(* The channel of the walk gets other fields. *)
LEMMA FieldStep ==
  ASSUME IndInv, NEW p \in Proc, at[p] \in HasWalk, NEW x, x = w[p],
         NEW r \in ChanType, r.ref = ch.of[x].ref, r.file \in File, ch' = WithFields(ch, x, r)
  PROVE  /\ x \in Chan /\ ch' \in ChansType /\ FreeOK(ch') /\ ~ch'.panic /\ ch'.of[x] = r
         /\ ch'.of[x].ref = 1
         /\ \A z \in Chan :
              /\ ch'.of[z].ref + Own(p, z) = ch.of[z].ref + Base(p, z) + (IF z = x THEN 1 ELSE 0)
              /\ ch'.of[z].ref > 0 => ch'.of[z].file \in File
              /\ ch.of[z].ref > 0 /\ (Own(p, z) = 0 \/ Base(p, z) > 0) => SameFields(z)
<1>1. /\ x \in Chan /\ ch.of[x].ref = 1 /\ Own(p, x) = 1 /\ Base(p, x) = 0
      /\ \A z : Own(p, z) = Base(p, z) + (IF z = x THEN 1 ELSE 0) /\ Base(p, z) \in Nat
  BY Walking, OwnBase
<1>2. /\ ch \in ChansType /\ FreeOK(ch) /\ ~ch.panic
      /\ \A z \in Chan : ch.of[z].ref \in Nat /\ (ch.of[z].ref > 0 => ch.of[z].file \in File)
  BY Channels
<1>3. /\ ch' \in ChansType /\ FreeOK(ch') /\ ch'.panic = ch.panic
      /\ ch'.of[x] = r /\ \A z \in Chan : z # x => ch'.of[z] = ch.of[z]
  <2> DEFINE s == ch
             t == ch'
  <2>1. s \in ChansType /\ FreeOK(s) /\ r.ref = s.of[x].ref /\ t = WithFields(s, x, r)
    BY <1>2
  <2> HIDE DEF s, t
  <2>2. /\ t \in ChansType /\ FreeOK(t) /\ t.panic = s.panic
        /\ t.of[x] = r /\ \A z \in Chan : z # x => t.of[z] = s.of[z]
    BY <1>1, <2>1, SetField
  <2> QED
    BY <2>2 DEF s, t
<1>4. ASSUME NEW z \in Chan
      PROVE  /\ ch'.of[z].ref + Own(p, z) = ch.of[z].ref + Base(p, z) + (IF z = x THEN 1 ELSE 0)
             /\ ch'.of[z].ref > 0 => ch'.of[z].file \in File
             /\ ch.of[z].ref > 0 /\ (Own(p, z) = 0 \/ Base(p, z) > 0) => SameFields(z)
  <2>1. CASE z = x
    <3>1. ch'.of[z].ref = 1 /\ ch.of[z].ref = 1 /\ Own(p, z) = 1 /\ Base(p, z) = 0 /\ ch'.of[z].file \in File
      BY <1>1, <1>3, <2>1
    <3> QED
      BY <2>1, <3>1
  <2>2. CASE z # x
    <3>1. ch'.of[z] = ch.of[z] /\ Own(p, z) = Base(p, z) /\ Base(p, z) \in Nat
      BY <1>1, <1>3, <2>2
    <3>2. ch.of[z].ref \in Nat /\ (ch.of[z].ref > 0 => ch.of[z].file \in File)
      BY <1>2
    <3> QED
      BY <2>2, <3>1, <3>2 DEF SameFields
  <2> QED
    BY <2>1, <2>2
<1> QED
  BY <1>1, <1>2, <1>3, <1>4

LEMMA WalkKeeps ==
  ASSUME IndInv, NEW p \in Proc, Walk(p)
  PROVE  IndInv' /\ FilesKept
<1> SUFFICES ASSUME NEW x, x = w[p], NEW n, n = Head(name[p]), NEW f, f = FileOf(x),
                    NEW rest, rest = Tail(name[p])
             PROVE  IndInv' /\ FilesKept
  OBVIOUS
<1>1. /\ at[p] = "dev" /\ Found(f, n) /\ ch' = [ch EXCEPT !.of[x].file = Child[@][n]]
      /\ n = ".." => at' = [at EXCEPT ![p] = "undo2"] /\ UNCHANGED <<walking, got>>
      /\ n # ".." => Onward(p, x)
      /\ UNCHANGED <<tables, grp, fd, job, fork, left>>
  BY DEF Walk
<1>2. at[p] \in HasWalk
  BY <1>1 DEF HasWalk
<1>3. /\ x \in Chan /\ f \in File /\ n \in Elem /\ rest \in Seq(Elem)
      /\ Len(got[p]) < Len(Names(job[p]))
  BY <1>1, <1>2, Walking DEF FileOf
<1>4. PICK r \in ChanType : r.ref = ch.of[x].ref /\ r.file \in File /\ ch' = WithFields(ch, x, r)
  <2> DEFINE r == [ch.of[x] EXCEPT !.file = Child[f][n]]
  <2>1. ch.of[x] \in ChanType /\ ch \in ChansType
    BY <1>3, Channels
  <2>2. Child[f][n] \in File
    BY <1>1, <1>3, NameSpaceAssumption DEF Found
  <2>3. r \in ChanType /\ r.ref = ch.of[x].ref /\ r.file \in File
    BY <2>1, <2>2 DEF ChanType
  <2>4. ch' = WithFields(ch, x, r)
    BY <1>1, <1>3, <2>1 DEF WithFields, FileOf, ChansType
  <2> HIDE DEF r
  <2> QED
    BY <2>3, <2>4
<1>5. /\ ch' \in ChansType /\ FreeOK(ch') /\ ~ch'.panic /\ ch'.of[x].ref = 1
      /\ \A z \in Chan :
           /\ ch'.of[z].ref + Own(p, z) = ch.of[z].ref + Base(p, z) + (IF z = x THEN 1 ELSE 0)
           /\ ch'.of[z].ref > 0 => ch'.of[z].file \in File
           /\ ch.of[z].ref > 0 /\ (Own(p, z) = 0 \/ Base(p, z) > 0) => SameFields(z)
  BY <1>2, <1>4, FieldStep
<1>6. CASE n = ".."
  <2>1. Move(p, "undo2", x)
    <3>1. w' = [w EXCEPT ![p] = x]
      BY <1>1, <1>6 DEF IndInv, TypeOK, walking
    <3> QED
      BY <1>1, <1>6, <3>1 DEF Move, walking
  <2>2. "undo2" \in HasWalk /\ at[p] \in {"undo", "unclone", "dev", "undo2", "unclone2"}
    BY <1>1 DEF HasWalk
  <2> QED
    BY <1>3, <1>5, <2>1, <2>2, MoveStep
<1>7. CASE n # ".."
  <2>1. /\ Proceed(p, x, rest) \/ Arrive(p, x, rest)
        /\ at'[p] # "dev"
        /\ at'[p] = "op" => Mode(p) \notin {"access", "open"}
    BY <1>1, <1>7, OnwardIs DEF IndInv
  <2>2. UNCHANGED <<tables, grp, fork, fd, job, left>>
    BY <1>1
  <2> QED
    BY <1>2, <1>3, <1>5, <2>1, <2>2, WalkStep
<1> QED
  BY <1>6, <1>7

LEMMA WalkedKeeps ==
  ASSUME IndInv, NEW p \in Proc, Walked(p)
  PROVE  IndInv' /\ FilesKept
<1> SUFFICES ASSUME NEW x, x = w[p], NEW rest, rest = Tail(name[p])
             PROVE  IndInv' /\ FilesKept
  OBVIOUS
<1>1. at[p] = "walked" /\ Onward(p, x) /\ ch' = ch /\ UNCHANGED <<tables, grp, fork, fd, job, left>>
  BY DEF Walked
<1>2. at[p] \in HasWalk
  BY <1>1 DEF HasWalk
<1>3. /\ x \in Chan /\ rest \in Seq(Elem) /\ Len(got[p]) < Len(Names(job[p]))
  BY <1>1, <1>2, Walking
<1>4. PICK r \in ChanType : r.ref = ch.of[x].ref /\ r.file \in File /\ ch' = WithFields(ch, x, r)
  <2>1. ch.of[x] \in ChanType /\ ch \in ChansType /\ ch.of[x].file \in File
    BY <1>2, <1>3, Walking, Channels
  <2>2. ch' = WithFields(ch, x, ch.of[x])
    BY <1>1, <1>3, <2>1 DEF WithFields, ChansType
  <2> QED
    BY <2>1, <2>2
<1>5. /\ ch' \in ChansType /\ FreeOK(ch') /\ ~ch'.panic /\ ch'.of[x].ref = 1
      /\ \A z \in Chan :
           /\ ch'.of[z].ref + Own(p, z) = ch.of[z].ref + Base(p, z) + (IF z = x THEN 1 ELSE 0)
           /\ ch'.of[z].ref > 0 => ch'.of[z].file \in File
           /\ ch.of[z].ref > 0 /\ (Own(p, z) = 0 \/ Base(p, z) > 0) => SameFields(z)
  BY <1>2, <1>4, FieldStep
<1>6. /\ Proceed(p, x, rest) \/ Arrive(p, x, rest)
      /\ at'[p] # "dev"
      /\ at'[p] = "op" => Mode(p) \notin {"access", "open"}
  BY <1>1, OnwardIs DEF IndInv
<1> QED
  BY <1>1, <1>2, <1>3, <1>5, <1>6, WalkStep

(* WalkUnion walks the clone. *)
WithFile(a, y, n) == [a EXCEPT !.of[y].file = Child[@][n], !.of[y].mnt = Nil]

LEMMA EditFile ==
  ASSUME NEW s \in ChansType, FreeOK(s), Len(s.free) >= 1, NEW x \in Chan, s.of[x].ref > 0,
         NEW y, y = NewChan(s), NEW n, Child[s.of[x].file][n] \in File, NEW v,
         NEW t, t = Close(WithFile(Clone(s, x), y, n), v)
  PROVE  \E r \in ChanType :
           /\ t = Replaced(s, x, r, v)
           /\ r.ref = 1 /\ r.file \in File
<1> DEFINE a == Clone(s, x)
           r == [s.of[x] EXCEPT !.ref = 1, !.file = Child[@][n], !.mnt = Nil]
<1>1. a = Clone(s, x)
  OBVIOUS
<1>2. s.of[x] \in ChanType
  BY DEF ChansType
<1> HIDE DEF a
<1>3. y \in Chan /\ a \in ChansType /\ a.of[y] = [s.of[x] EXCEPT !.ref = 1]
  BY <1>1, CloneEffect
<1>4. WithFile(a, y, n) = WithFields(a, y, [a.of[y] EXCEPT !.file = Child[@][n], !.mnt = Nil])
  BY <1>3 DEF ChansType, WithFields, WithFile
<1>5. [a.of[y] EXCEPT !.file = Child[@][n], !.mnt = Nil] = r
  BY <1>2, <1>3 DEF ChanType
<1>6. t = Replaced(s, x, r, v)
  BY <1>1, <1>4, <1>5 DEF Replaced
<1>7. r \in ChanType /\ r.ref = 1 /\ r.file \in File
  BY <1>2 DEF ChanType
<1> HIDE DEF r
<1> QED
  BY <1>6, <1>7

LEMMA WalkUnionOn ==
  ASSUME IndInv, NEW p \in Proc, at[p] = "dev", Enough(1),
         NEW x \in Chan, ch.of[x].ref > 0, NEW n, Child[ch.of[x].file][n] \in File,
         NEW y, y = NewChan(ch),
         ch' = Close(WithFile(Clone(ch, x), y, n), w[p]), Onward(p, y),
         UNCHANGED <<tables, grp, fork, fd, job, left>>
  PROVE  IndInv' /\ FilesKept
<1>1. at[p] \in HasWalk
  BY DEF HasWalk
<1>2. Tail(name[p]) \in Seq(Elem) /\ Len(got[p]) < Len(Names(job[p]))
  BY <1>1, Walking
<1>3. PICK r \in ChanType : ch' = Replaced(ch, x, r, w[p]) /\ r.ref = 1 /\ r.file \in File
  <2>1. ch \in ChansType /\ FreeOK(ch) /\ Len(ch.free) >= 1
    BY Channels DEF Enough
  <2> QED
    BY <2>1, EditFile
<1>4. /\ y \in Chan
      /\ ch' \in ChansType /\ FreeOK(ch') /\ ~ch'.panic /\ ch'.of[y].ref = 1
      /\ \A z \in Chan :
           /\ ch'.of[z].ref + Own(p, z) = ch.of[z].ref + Base(p, z) + (IF z = y THEN 1 ELSE 0)
           /\ ch'.of[z].ref > 0 => ch'.of[z].file \in File
           /\ ch.of[z].ref > 0 /\ (Own(p, z) = 0 \/ Base(p, z) > 0) => SameFields(z)
  BY <1>1, <1>3, ReplaceStep
<1> SUFFICES ASSUME NEW rest, rest = Tail(name[p])
             PROVE  IndInv' /\ FilesKept
  OBVIOUS
<1>5. /\ Proceed(p, y, rest) \/ Arrive(p, y, rest)
      /\ at'[p] # "dev"
      /\ at'[p] = "op" => Mode(p) \notin {"access", "open"}
  BY OnwardIs DEF IndInv
<1> QED
  BY <1>1, <1>2, <1>4, <1>5, WalkStep

LEMMA WalkUnionKeeps ==
  ASSUME IndInv, Orderly, NEW p \in Proc, WalkUnion(p)
  PROVE  IndInv' /\ FilesKept
<1> SUFFICES ASSUME NEW v, v = w[p], NEW n, n = Head(name[p]), NEW rest, rest = Tail(name[p]),
                    NEW g, g = grp[p], NEW o, o = ch.of[w[p]].mnt, NEW y, y = NewChan(ch),
                    NEW ms, ms = ListFrom(ch.of[w[p]].mnt), NEW S, S = Members(p),
                    NEW m, m = First(ms, S), NEW x, x = To(m)
             PROVE  IndInv' /\ FilesKept
  OBVIOUS
<1>1. /\ at[p] = "dev" /\ ~Found(FileOf(v), n) /\ S # {} /\ Enough(1)
      /\ ch' = Close(WithFile(Clone(ch, x), y, n), v)
      /\ n # ".." => Onward(p, y)
      /\ UNCHANGED <<tables, grp, fd, job, fork, left>>
  BY DEF WalkUnion, WithFile
<1>2. at[p] \in HasWalk
  BY <1>1 DEF HasWalk
<1>3. /\ v \in Chan /\ g \in Group /\ FileOf(v) \in File /\ n \in Elem /\ rest \in Seq(Elem)
      /\ Len(got[p]) < Len(Names(job[p]))
  BY <1>1, <1>2, Walking DEF FileOf
<1>4. n # ".."
  BY <1>1, <1>3 DEF Orderly, Found
<1>5. ShowsIn(g, v)
  BY <1>1, <1>4 DEF IndInv, ShowsInv, Showing
<1>6. S = {i \in ToSet(ms) : Found(FileOf(To(i)), n)}
  BY DEF Members
<1>7. o # Nil
  <2>1. CASE o = Nil
    <3>1. ms = <<>>
      BY <2>1, NoList DEF ListFrom
    <3>2. ToSet(ms) = {}
      BY <3>1 DEF ToSet
    <3> QED
      BY <1>1, <1>6, <3>2
  <2> QED
    BY <2>1
<1>8. PICK d \in File : o \in MountsOn(g, d)
  BY <1>5, <1>7 DEF ShowsIn, Table
<1>9. /\ ms \in Seq(Mount)
      /\ \A i \in ToSet(ms) : i \in Mount /\ mount[i].live
  <2>1. ms = ListFrom(o)
    OBVIOUS
  <2>2. ms \in Seq(Mount) /\ ToSet(ms) \subseteq MountsOn(g, d)
    BY <1>3, <1>8, <2>1, TableLive DEF IndInv
  <2> QED
    BY <1>3, <2>2, TableLive DEF IndInv
<1>10. m \in S /\ m \in ToSet(ms)
  <2>1. S \cap ToSet(ms) # {}
    BY <1>1, <1>6
  <2>2. m \in S
    BY <1>9, <2>1, FirstIs
  <2> QED
    BY <1>6, <2>2
<1>11. m \in Mount /\ mount[m].live /\ Found(FileOf(To(m)), n)
  BY <1>6, <1>9, <1>10
<1>12. x \in Chan /\ ch.of[x].ref > 0
  BY <1>11, TableChan DEF IndInv
<1>13. /\ ch \in ChansType /\ FreeOK(ch) /\ Len(ch.free) >= 1 /\ ch.of[x].file \in File
  BY <1>1, <1>12, Channels DEF Enough
<1>14. Child[ch.of[x].file][n] \in File
  <2>1. \A f \in File : Child[f][n] \in File \cup {None}
    BY <1>3, NameSpaceAssumption
  <2>2. Child[ch.of[x].file][n] # None
    BY <1>11 DEF Found, FileOf
  <2> QED
    BY <1>13, <2>1, <2>2
<1>15. UNCHANGED <<tables, grp, fork, fd, job, left>>
  BY <1>1
<1>16. ch' = Close(WithFile(Clone(ch, x), y, n), w[p]) /\ Onward(p, y)
  BY <1>1, <1>4
<1> QED
  BY <1>1, <1>3, <1>12, <1>14, <1>15, <1>16, WalkUnionOn

(* p has f open. *)
HasOpen(p, f) == fd' = [fd EXCEPT ![p] = f]

(* The call ends, and p keeps f only. *)
LEMMA EndStep ==
  ASSUME IndInv, NEW p \in Proc, at[p] \notin {"copied", "setdot"}, Return(p),
         NEW f \in Chan \cup {Nil}, HasOpen(p, f),
         UNCHANGED <<tables, grp, job, walking, fork, left>>,
         ch' \in ChansType, FreeOK(ch'), ~ch'.panic,
         \A z \in Chan :
           /\ ch'.of[z].ref + Own(p, z) = ch.of[z].ref + (IF f = z THEN 1 ELSE 0)
           /\ ch'.of[z].ref > 0 => ch'.of[z].file \in File
           /\ ch.of[z].ref > 0 /\ Own(p, z) = 0 => SameFields(z),
         f # Nil => ch'.of[f].ref = 1 /\ \E g \in Group : Users(g) # {} /\ ShowsIn(g, f)'
  PROVE  IndInv' /\ FilesKept
<1> USE DEF IndInv
<1>1. /\ mount' = mount /\ head' = head /\ group' = group /\ mountid' = mountid
      /\ grp' = grp /\ fork' = fork /\ job' = job /\ left' = left
      /\ c' = c /\ w' = w /\ name' = name
  BY DEF tables, walking
<1>2. /\ at' \in [Proc -> Labels] /\ fd' \in [Proc -> Chan \cup {Nil}] /\ got' \in [Proc -> Seq(Chan)]
      /\ at'[p] = "idle" /\ fd'[p] = f /\ got'[p] = <<>> /\ OthersKeep(p)
      /\ \A q \in Proc : Len(got'[q]) <= 2
  <2>1. at' = [at EXCEPT ![p] = "idle"] /\ got' = [got EXCEPT ![p] = <<>>] /\ fd' = [fd EXCEPT ![p] = f]
    BY DEF Return, HasOpen
  <2>2. at \in [Proc -> Labels] /\ fd \in [Proc -> Chan \cup {Nil}] /\ got \in [Proc -> Seq(Chan)]
        /\ \A q \in Proc : Len(got[q]) <= 2
    BY DEF TypeOK
  <2>3. /\ at' \in [Proc -> Labels] /\ at'[p] = "idle" /\ \A q \in Proc \ {p} : at'[q] = at[q]
    BY <2>1, <2>2 DEF Labels
  <2>4. /\ fd' \in [Proc -> Chan \cup {Nil}] /\ fd'[p] = f /\ \A q \in Proc \ {p} : fd'[q] = fd[q]
    BY <2>1, <2>2
  <2>5. /\ got' \in [Proc -> Seq(Chan)] /\ got'[p] = <<>> /\ \A q \in Proc \ {p} : got'[q] = got[q]
    BY <2>1, <2>2
  <2>6. \A q \in Proc : Len(got'[q]) <= 2
    <3>1. Len(got'[p]) <= 2
      BY <2>5
    <3>2. \A q \in Proc \ {p} : Len(got'[q]) <= 2
      BY <2>2, <2>5
    <3> QED
      BY <3>1, <3>2
  <2> QED
    BY <1>1, <2>3, <2>4, <2>5, <2>6 DEF OthersKeep
<1>3. TypeOK'
  BY <1>1, <1>2 DEF TypeOK, ChansType, ChanType
<1>4. \A z \in Chan : Own(p, z)' = (IF f = z THEN 1 ELSE 0)
  <2>1. Len(got'[p]) = 0 /\ at'[p] \notin HasWalk
    BY <1>2 DEF HasWalk
  <2> QED
    BY <1>2, <2>1 DEF Own
<1>5. \A z \in Chan : Own(p, z)' > 0 => ~(ch'.of[z].ref > 1)
  <2>1. ASSUME NEW z \in Chan, Own(p, z)' > 0
        PROVE  ~(ch'.of[z].ref > 1)
    <3>1. z = f
      BY <1>4, <2>1
    <3>2. f # Nil
      BY <3>1, NameSpaceAssumption DEF Chan, Nil
    <3> QED
      BY <3>1, <3>2
  <2> QED
    BY <2>1
<1>6. Calling(p)'
  BY <1>2 DEF Calling, HasWalk
<1>7. Showing(p)'
  <2>1. \A i \in 1..Len(got'[p]) : FALSE
    BY <1>2
  <2>2. FdShows(p)'
    <3>1. \A g \in Group : Users(g)' = Users(g)
      BY <1>1 DEF Users
    <3> QED
      BY <1>2, <3>1 DEF FdShows
  <2> QED
    BY <1>2, <2>1, <2>2 DEF Showing
<1>8. \A z \in Chan : ch'.of[z].ref + Own(p, z) = ch.of[z].ref + Own(p, z)'
  BY <1>4
<1>9. at'[p] \notin {"copied", "setdot", "unclone", "unclone2"}
  BY <1>2
<1>10. UNCHANGED <<tables, grp, fork>>
  BY <1>1 DEF tables
<1> QED
  BY <1>2, <1>3, <1>5, <1>6, <1>7, <1>8, <1>9, <1>10, CountedStep

LEMMA OpenShows ==
  ASSUME IndInv, NEW p \in Proc, fd[p] # Nil, mount' = mount, head' = head, grp' = grp,
         SameFields(fd[p])
  PROVE  /\ fd[p] \in Chan /\ ch.of[fd[p]].ref = 1 /\ Own(p, fd[p]) = 1
         /\ \E g \in Group : Users(g) # {} /\ \A x : x = fd[p] => ShowsIn(g, x)'
<1>1. fd[p] \in Chan /\ ch.of[fd[p]].ref = 1 /\ Own(p, fd[p]) = 1
  BY OwnsThem, OwnAlone DEF IndInv
<1>2. PICK g \in Group : Users(g) # {} /\ ShowsIn(g, fd[p])
  BY DEF IndInv, ShowsInv, Showing, FdShows
<1>3. ASSUME NEW x, x = fd[p]
      PROVE  ShowsIn(g, x)'
  <2>1. ch'.of[x].mnt = ch.of[x].mnt /\ ch'.of[x].mountid = ch.of[x].mountid
    BY <1>3 DEF SameFields
  <2>2. Table(g)' = Table(g)
    BY TablesSame
  <2> QED
    BY <1>2, <1>3, <2>1, <2>2 DEF ShowsIn
<1> QED
  BY <1>1, <1>2, <1>3

(* The call closes the channels xs, all that it has. *)
LEMMA CloseStep ==
  ASSUME IndInv, NEW p \in Proc, at[p] \notin {"copied", "setdot"}, Return(p),
         NEW f, f = Nil \/ f = fd[p], HasOpen(p, f),
         UNCHANGED <<tables, grp, job, walking, fork, left>>,
         NEW xs \in Seq(Chan), ch' = CloseAll(ch, xs),
         \A z \in Chan : Own(p, z) = Count(xs, z) + (IF f = z THEN 1 ELSE 0)
  PROVE  IndInv' /\ FilesKept
<1>1. /\ ch \in ChansType /\ FreeOK(ch) /\ ~ch.panic
      /\ \A z \in Chan : ch.of[z].ref \in Nat /\ (ch.of[z].ref > 0 => ch.of[z].file \in File)
  BY Channels
<1>2. \A z \in Chan : Count(xs, z) \in Nat /\ Own(p, z) \in Nat
  BY CountType, OwnBase
<1>3. ASSUME NEW z \in Chan
      PROVE  Count(xs, z) <= ch.of[z].ref
  <2>1. CASE Own(p, z) > 0
    <3>1. ch.of[z].ref = 1 /\ Own(p, z) = 1
      BY <2>1, OwnAlone DEF IndInv
    <3> QED
      BY <1>2, <3>1
  <2>2. CASE ~(Own(p, z) > 0)
    <3>1. Count(xs, z) = 0
      BY <1>2, <2>2
    <3> QED
      BY <1>1, <3>1
  <2> QED
    BY <2>1, <2>2
<1>4. /\ ch' \in ChansType /\ FreeOK(ch') /\ SameButRefs(ch, ch')
      /\ \A z \in Chan : ch'.of[z].ref = ch.of[z].ref - Count(xs, z)
  <2> DEFINE s == ch
             t == ch'
  <2>1. /\ s \in ChansType /\ FreeOK(s) /\ t = CloseAll(s, xs)
        /\ \A z \in Chan : Count(xs, z) <= s.of[z].ref
    BY <1>1, <1>3
  <2> HIDE DEF s, t
  <2>2. /\ t \in ChansType /\ FreeOK(t) /\ SameButRefs(s, t)
        /\ \A z \in Chan : t.of[z].ref = s.of[z].ref - Count(xs, z)
    BY <2>1, CloseAllEffect
  <2> QED
    BY <2>2 DEF s, t
<1>5. \A z \in Chan : SameFields(z)
  BY <1>4 DEF SameFields, SameButRefs
<1>6. ASSUME NEW z \in Chan
      PROVE  /\ ch'.of[z].ref + Own(p, z) = ch.of[z].ref + (IF f = z THEN 1 ELSE 0)
             /\ ch'.of[z].ref > 0 => ch'.of[z].file \in File
  <2> DEFINE n == ch'.of[z].ref
             k == ch.of[z].ref
             o == Own(p, z)
             j == Count(xs, z)
  <2>1. n = k - j /\ k \in Nat /\ j \in Nat /\ o = j + (IF f = z THEN 1 ELSE 0)
        /\ (k > 0 => ch.of[z].file \in File)
    BY <1>1, <1>2, <1>4
  <2> HIDE DEF n, k, o, j
  <2>2. n + o = k + (IF f = z THEN 1 ELSE 0) /\ (n > 0 => ch.of[z].file \in File)
    BY <2>1
  <2> QED
    BY <1>5, <2>2 DEF n, k, o, SameFields
<1>7. f \in Chan \cup {Nil}
  BY DEF IndInv, TypeOK
<1>8. ASSUME f # Nil
      PROVE  ch'.of[f].ref = 1 /\ \E g \in Group : Users(g) # {} /\ ShowsIn(g, f)'
  <2>1. f = fd[p] /\ f \in Chan
    BY <1>7, <1>8
  <2>2. mount' = mount /\ head' = head /\ grp' = grp /\ SameFields(fd[p])
    BY <1>5, <2>1 DEF tables
  <2>3. /\ ch.of[f].ref = 1 /\ Own(p, f) = 1
        /\ \E g \in Group : Users(g) # {} /\ ShowsIn(g, f)'
    BY <1>8, <2>1, <2>2, OpenShows
  <2>4. ch'.of[f].ref + 1 = 1 + 1
    BY <1>6, <2>1, <2>3
  <2>5. ch'.of[f].ref \in Nat
    BY <1>4, <2>1 DEF ChansType, ChanType
  <2> QED
    BY <2>3, <2>4, <2>5
<1>9. ~ch'.panic
  BY <1>1, <1>4 DEF SameButRefs
<1> QED
  BY <1>4, <1>5, <1>6, <1>7, <1>8, <1>9, EndStep

LEMMA CloseOne ==
  ASSUME NEW s \in ChansType, NEW x \in Chan
  PROVE  CloseAll(s, <<x>>) = Close(s, x)
<1> DEFINE xs == <<x>>
<1>1. xs \in Seq(Chan) /\ Len(xs) = 1 /\ xs[1] = x
  OBVIOUS
<1> HIDE DEF xs
<1>2. PICK f \in [0..Len(xs) -> ChansType] :
         /\ f[0] = s /\ \A i \in 1..Len(xs) : f[i] = Close(f[i - 1], xs[i])
         /\ CloseAll(s, xs) = f[Len(xs)]
  BY <1>1, CloseAllRec
<1>3. CloseAll(s, xs) = f[1] /\ f[1] = Close(f[0], x)
  <2>1. 1 \in 1..1 /\ 1 - 1 = 0
    OBVIOUS
  <2> QED
    BY <1>1, <1>2, <2>1
<1> QED
  BY <1>2, <1>3 DEF xs

LEMMA GotCount ==
  ASSUME TypeOK, NEW p \in Proc, NEW z
  PROVE  /\ got[p] \in Seq(Chan) /\ Count(got[p], z) \in Nat
         /\ Base(p, z) = Count(got[p], z) + (IF fd[p] = z THEN 1 ELSE 0)
<1> DEFINE xs == got[p]
           a  == IF fd[p] = z THEN 1 ELSE 0
           n  == Count(xs, z)
           x1 == IF z = xs[1] THEN 1 ELSE 0
           x2 == IF z = xs[2] THEN 1 ELSE 0
<1>1. xs \in Seq(Chan) /\ Len(xs) \in Nat /\ Len(xs) <= 2
  BY DEF TypeOK
<1>2. /\ Len(xs) = 0 => Base(p, z) = a
      /\ Len(xs) = 1 => Base(p, z) = a + x1
      /\ Len(xs) = 2 => Base(p, z) = a + x1 + x2
  BY DEF Base
<1>3. a \in {0, 1} /\ x1 \in {0, 1} /\ x2 \in {0, 1}
  OBVIOUS
<1>4. n \in Nat
  BY <1>1, CountType
<1>5. Len(xs) = 0 => n = 0
  <2>1. Len(xs) = 0 => xs = <<>>
    BY <1>1
  <2> QED
    BY <2>1, CountOne
<1>6. Len(xs) = 1 => n = x1
  <2> DEFINE x == xs[1]
  <2>1. Len(xs) = 1 => xs = <<x>>
    BY <1>1
  <2> HIDE DEF x, xs
  <2>2. Count(<<x>>, z) = (IF z = x THEN 1 ELSE 0)
    BY CountOne
  <2> QED
    BY <2>1, <2>2 DEF x
<1>7. Len(xs) = 2 => n = x1 + x2
  <2> DEFINE x == xs[1]
             y == xs[2]
  <2>1. Len(xs) = 2 => xs = <<x, y>>
    BY <1>1
  <2> HIDE DEF x, y, xs
  <2>2. Count(<<x, y>>, z) = (IF z = x THEN 1 ELSE 0) + (IF z = y THEN 1 ELSE 0)
    BY CountTwo
  <2> QED
    BY <2>1, <2>2 DEF x, y
<1> HIDE DEF a, n, x1, x2
<1>8. Len(xs) = 0 \/ Len(xs) = 1 \/ Len(xs) = 2
  <2> DEFINE l == Len(xs)
  <2>1. l \in Nat /\ l <= 2
    BY <1>1
  <2> HIDE DEF l
  <2>2. l = 0 \/ l = 1 \/ l = 2
    BY <2>1
  <2> QED
    BY <2>2 DEF l
<1>9. Base(p, z) = n + a
  <2> DEFINE b == Base(p, z)
             l == Len(xs)
  <2>1. /\ l = 0 => b = a /\ n = 0
        /\ l = 1 => b = a + x1 /\ n = x1
        /\ l = 2 => b = a + x1 + x2 /\ n = x1 + x2
        /\ l = 0 \/ l = 1 \/ l = 2
    BY <1>2, <1>5, <1>6, <1>7, <1>8
  <2> HIDE DEF b, l
  <2>2. b = n + a
    BY <1>3, <1>4, <2>1
  <2> QED
    BY <2>2 DEF b
<1> QED
  BY <1>1, <1>4, <1>9 DEF n, a

LEMMA SameOpen ==
  ASSUME TypeOK, NEW p \in Proc, fd' = fd
  PROVE  HasOpen(p, fd[p])
  BY DEF TypeOK, HasOpen

LEMMA WalkFailsKeeps ==
  ASSUME IndInv, Orderly, NEW p \in Proc, WalkFails(p)
  PROVE  IndInv' /\ FilesKept
<1>s. SUFFICES ASSUME NEW x, x = c[p], NEW gs, gs = got[p], NEW f, f = fd[p]
             PROVE  IndInv' /\ FilesKept
  OBVIOUS
<1>0. TypeOK
  BY DEF IndInv
<1>1. /\ at[p] = "dev" /\ ~Found(FileOf(w[p]), Head(name[p])) /\ ch' = CloseAll(ch, <<x>> \o gs)
      /\ UNCHANGED <<tables, grp, job, walking, fork, left>> /\ fd' = fd
  BY <1>s DEF WalkFails
<1>11. Return(p)
  BY DEF WalkFails, Return
<1>2. at[p] \in HasWalk
  BY <1>1 DEF HasWalk
<1>3. w[p] \in Chan /\ FileOf(w[p]) \in File /\ \A z : Own(p, z) = Base(p, z) + (IF z = w[p] THEN 1 ELSE 0)
  BY <1>2, Walking DEF FileOf
<1>4. Head(name[p]) # ".."
  BY <1>1, <1>3 DEF Orderly, Found
<1>5. x = w[p]
  BY <1>1, <1>4, <1>s DEF IndInv, CallInv, Calling
<1>6. gs \in Seq(Chan) /\ <<x>> \in Seq(Chan) /\ x \in Chan
  BY <1>0, <1>3, <1>5, <1>s, GotCount
<1> DEFINE one == <<x>>
           xs  == one \o gs
<1>60. \A z : Count(one, z) = (IF z = x THEN 1 ELSE 0)
  BY CountOne
<1>61. one \in Seq(Chan) /\ ch' = CloseAll(ch, xs)
  BY <1>1, <1>6
<1> HIDE DEF one
<1>7. xs \in Seq(Chan) /\ \A z : Count(xs, z) = Count(one, z) + Count(gs, z)
  BY <1>6, <1>61, CountConcat
<1> HIDE DEF xs
<1>8. ASSUME NEW z \in Chan
      PROVE  Own(p, z) = Count(xs, z) + (IF f = z THEN 1 ELSE 0)
  <2>1. Count(xs, z) = Count(one, z) + Count(gs, z)
    BY <1>7
  <2>2. Count(one, z) = (IF z = x THEN 1 ELSE 0)
    BY <1>60
  <2>3. Base(p, z) = Count(gs, z) + (IF f = z THEN 1 ELSE 0) /\ Count(gs, z) \in Nat
    BY <1>0, <1>s, GotCount
  <2>4. Own(p, z) = Base(p, z) + (IF z = x THEN 1 ELSE 0)
    BY <1>3, <1>5
  <2> QED
    BY <2>1, <2>2, <2>3, <2>4
<1>9. HasOpen(p, f)
  BY <1>0, <1>1, <1>s, SameOpen
<1>10. /\ f = fd[p] /\ at[p] \notin {"copied", "setdot"}
       /\ UNCHANGED <<tables, grp, job, walking, fork, left>>
  BY <1>1, <1>s
<1>12. ch' = CloseAll(ch, xs)
  BY <1>61
<1> QED
  BY <1>11, <1>12, <1>7, <1>8, <1>9, <1>10, CloseStep

LEMMA RefuseKeeps ==
  ASSUME IndInv, NEW p \in Proc, Refuse(p)
  PROVE  IndInv' /\ FilesKept
<1>s. SUFFICES ASSUME NEW gs, gs = got[p], NEW f, f = fd[p],
                    NEW xs, xs = (IF job[p].op = "bind" THEN <<got[p][2], got[p][1]>> ELSE got[p])
             PROVE  IndInv' /\ FilesKept
  OBVIOUS
<1>0. TypeOK
  BY DEF IndInv
<1>1. /\ at[p] = "op" /\ Len(got[p]) = Len(Names(job[p])) /\ ch' = CloseAll(ch, xs) /\ Return(p)
      /\ UNCHANGED <<tables, grp, job, walking, fork, left>> /\ fd' = fd
  BY <1>s DEF Refuse
<1>2. gs \in Seq(Chan)
  BY <1>0, <1>s, GotCount
<1>3. xs \in Seq(Chan) /\ \A z : Count(xs, z) = Count(gs, z)
  <2>1. CASE job[p].op = "bind"
    <3>1. Len(gs) = 2
      BY <1>1, <1>s, <2>1 DEF Names
    <3> DEFINE a == gs[1]
               b == gs[2]
    <3>2. a \in Chan /\ b \in Chan /\ gs = <<a, b>> /\ xs = <<b, a>>
      BY <1>2, <1>s, <2>1, <3>1
    <3> HIDE DEF a, b
    <3>3. \A z : Count(<<a, b>>, z) = (IF z = a THEN 1 ELSE 0) + (IF z = b THEN 1 ELSE 0)
                 /\ Count(<<b, a>>, z) = (IF z = b THEN 1 ELSE 0) + (IF z = a THEN 1 ELSE 0)
      BY CountTwo
    <3>4. \A z : Count(<<b, a>>, z) = Count(<<a, b>>, z)
      BY <3>3
    <3>5. xs \in Seq(Chan)
      BY <3>2
    <3> QED
      BY <3>2, <3>4, <3>5
  <2>2. CASE job[p].op # "bind"
    BY <1>2, <1>s, <2>2
  <2> QED
    BY <2>1, <2>2
<1>4. ASSUME NEW z \in Chan
      PROVE  Own(p, z) = Count(xs, z) + (IF f = z THEN 1 ELSE 0)
  <2>1. Base(p, z) = Count(gs, z) + (IF f = z THEN 1 ELSE 0)
    BY <1>0, <1>s, GotCount
  <2>2. Own(p, z) = Base(p, z)
    BY <1>1, OwnBase DEF HasWalk
  <2> QED
    BY <1>3, <2>1, <2>2
<1>5. HasOpen(p, f)
  BY <1>0, <1>1, <1>s, SameOpen
<1>6. f = fd[p] /\ at[p] \notin {"copied", "setdot"}
  BY <1>1, <1>s
<1> QED
  BY <1>1, <1>3, <1>4, <1>5, <1>6, CloseStep

(* A call that is ready has the channels of its names. *)
LEMMA ReadyHas ==
  ASSUME IndInv, NEW p \in Proc, NEW op, Ready(p, op)
  PROVE  /\ at[p] = "op" /\ job[p] \in Calls[p] /\ job[p].op = op
         /\ Len(got[p]) = Len(Names(job[p])) /\ got[p] \in Seq(Chan)
         /\ op = "bind" => Len(got[p]) = 2
         /\ op = "unmount" => Len(got[p]) \in {1, 2}
         /\ op \in {"open", "chdir"} => Len(got[p]) = 1
         /\ op \in {"close", "read", "fork"} => got[p] = <<>>
         /\ op = "open" => fd[p] = Nil
         /\ op \in {"close", "read"} => fd[p] # Nil
         /\ \A z : Own(p, z) = Base(p, z) /\ Own(p, z) = Count(got[p], z) + (IF fd[p] = z THEN 1 ELSE 0)
                   /\ Count(got[p], z) \in Nat
<1>1. /\ at[p] = "op" /\ job[p].op = op /\ Len(got[p]) = Len(Names(job[p])) /\ Calling(p)
  BY DEF Ready, IndInv, CallInv
<1>2. got[p] \in Seq(Chan) /\ job[p] \in Calls[p]
  BY <1>1 DEF IndInv, TypeOK, Calling
<1>3. /\ op = "bind" => Len(got[p]) = 2
      /\ op = "unmount" => Len(got[p]) \in {1, 2}
      /\ op \in {"open", "chdir"} => Len(got[p]) = 1
      /\ op \in {"close", "read", "fork"} => Len(got[p]) = 0
  BY <1>1 DEF Names
<1>4. Len(got[p]) = 0 => got[p] = <<>>
  BY <1>2
<1>5. /\ op = "open" => fd[p] = Nil
      /\ op \in {"close", "read"} => fd[p] # Nil
  BY <1>1 DEF Calling
<1>6. ASSUME NEW z
      PROVE  Own(p, z) = Base(p, z) /\ Own(p, z) = Count(got[p], z) + (IF fd[p] = z THEN 1 ELSE 0)
             /\ Count(got[p], z) \in Nat
  <2>1. Own(p, z) = Base(p, z)
    BY <1>1, OwnBase DEF HasWalk
  <2> QED
    BY <2>1, GotCount DEF IndInv
<1> QED
  BY <1>1, <1>2, <1>3, <1>4, <1>5, <1>6

LEMMA CloseFdKeeps ==
  ASSUME IndInv, NEW p \in Proc, CloseFd(p)
  PROVE  IndInv' /\ FilesKept
<1>1. SUFFICES ASSUME NEW x, x = fd[p], NEW xs, xs = <<x>>
               PROVE  IndInv' /\ FilesKept
  OBVIOUS
<1>2. /\ Ready(p, "close") /\ ch' = Close(ch, x) /\ Return(p) /\ HasOpen(p, Nil)
      /\ UNCHANGED <<tables, grp, job, walking, fork, left>>
  BY <1>1 DEF CloseFd, HasOpen
<1>3. /\ at[p] = "op" /\ got[p] = <<>> /\ fd[p] # Nil
      /\ \A z : Own(p, z) = Count(got[p], z) + (IF fd[p] = z THEN 1 ELSE 0)
  BY <1>2, ReadyHas
<1>4. x \in Chan
  BY <1>1, <1>3 DEF IndInv, TypeOK
<1>5. xs \in Seq(Chan)
  BY <1>1, <1>4
<1>6. ch' = CloseAll(ch, xs)
  <2>1. ch \in ChansType
    BY Channels
  <2> QED
    BY <1>1, <1>2, <1>4, <2>1, CloseOne
<1>7. ASSUME NEW z \in Chan
      PROVE  Own(p, z) = Count(xs, z) + (IF Nil = z THEN 1 ELSE 0)
  <2>1. Count(got[p], z) = 0 /\ Count(xs, z) = (IF z = x THEN 1 ELSE 0)
    BY <1>1, <1>3, CountOne
  <2>2. Nil # z
    BY NameSpaceAssumption DEF Chan, Nil
  <2>3. Own(p, z) = 0 + (IF x = z THEN 1 ELSE 0)
    BY <1>1, <1>3, <2>1
  <2> QED
    BY <2>1, <2>2, <2>3
<1>8. at[p] \notin {"copied", "setdot"}
  BY <1>3
<1> QED
  BY <1>2, <1>5, <1>6, <1>7, <1>8, CloseStep

(* A call that has nothing but the open file ends and leaves the channels. *)
LEMMA ReadFileKeeps ==
  ASSUME IndInv, NEW p \in Proc, ReadFile(p)
  PROVE  IndInv' /\ FilesKept
<1>1. SUFFICES ASSUME NEW x, x = fd[p], NEW s, s = ch
               PROVE  IndInv' /\ FilesKept
  OBVIOUS
<1>2. /\ Ready(p, "read") /\ ch' = ch /\ Return(p) /\ fd' = fd
      /\ UNCHANGED <<tables, grp, job, walking, fork, left>>
  BY <1>1 DEF ReadFile
<1>3. /\ at[p] = "op" /\ got[p] = <<>> /\ fd[p] # Nil
      /\ \A z : Own(p, z) = Count(got[p], z) + (IF fd[p] = z THEN 1 ELSE 0)
  BY <1>2, ReadyHas
<1>4. HasOpen(p, x)
  BY <1>1, <1>2, SameOpen DEF IndInv
<1>5. s \in ChansType /\ FreeOK(s) /\ ~s.panic
      /\ \A z \in Chan : s.of[z].ref \in Nat /\ (s.of[z].ref > 0 => s.of[z].file \in File)
  BY <1>1, Channels
<1>6. ASSUME NEW z \in Chan
      PROVE  Own(p, z) = (IF x = z THEN 1 ELSE 0)
  <2>1. Count(got[p], z) = 0
    BY <1>3, CountOne
  <2> QED
    BY <1>1, <1>3, <2>1
<1>7. \A z \in Chan : SameFields(z)
  BY <1>2 DEF SameFields
<1>8. ASSUME NEW z \in Chan
      PROVE  /\ ch'.of[z].ref + Own(p, z) = ch.of[z].ref + (IF x = z THEN 1 ELSE 0)
             /\ ch'.of[z].ref > 0 => ch'.of[z].file \in File
             /\ ch.of[z].ref > 0 /\ Own(p, z) = 0 => SameFields(z)
  BY <1>1, <1>2, <1>5, <1>6, <1>7
<1>9. x \in Chan /\ ch'.of[x].ref = 1 /\ \E g \in Group : Users(g) # {} /\ ShowsIn(g, x)'
  <2>1. mount' = mount /\ head' = head /\ grp' = grp /\ x \in Chan
    BY <1>1, <1>2, <1>3 DEF tables, IndInv, TypeOK
  <2>2. SameFields(fd[p])
    BY <1>1, <1>7, <2>1
  <2>3. ch.of[x].ref = 1 /\ \E g \in Group : Users(g) # {} /\ ShowsIn(g, x)'
    BY <1>1, <1>3, <2>1, <2>2, OpenShows
  <2> QED
    BY <1>2, <2>1, <2>3
<1>10. ch' \in ChansType /\ FreeOK(ch') /\ ~ch'.panic
  BY <1>1, <1>2, <1>5
<1>11. at[p] \notin {"copied", "setdot"}
  BY <1>3
<1> QED
  BY <1>2, <1>4, <1>8, <1>9, <1>10, <1>11, EndStep

LEMMA OpenKeeps ==
  ASSUME IndInv, NEW p \in Proc, Open(p)
  PROVE  IndInv' /\ FilesKept
<1>1. SUFFICES ASSUME NEW x, x = got[p][1], NEW s, s = ch
               PROVE  IndInv' /\ FilesKept
  OBVIOUS
<1>2. /\ Ready(p, "open") /\ ch' = ch /\ Return(p) /\ HasOpen(p, x)
      /\ UNCHANGED <<tables, grp, job, walking, fork, left>>
  BY <1>1 DEF Open, HasOpen
<1>3. /\ at[p] = "op" /\ got[p] \in Seq(Chan) /\ Len(got[p]) = 1 /\ fd[p] = Nil /\ job[p].op = "open"
      /\ \A z : Own(p, z) = Count(got[p], z) + (IF fd[p] = z THEN 1 ELSE 0)
  BY <1>2, ReadyHas
<1>4. x \in Chan /\ got[p] = <<x>>
  BY <1>1, <1>3
<1>5. s \in ChansType /\ FreeOK(s) /\ ~s.panic
      /\ \A z \in Chan : s.of[z].ref \in Nat /\ (s.of[z].ref > 0 => s.of[z].file \in File)
  BY <1>1, Channels
<1>6. ASSUME NEW z \in Chan
      PROVE  Own(p, z) = (IF x = z THEN 1 ELSE 0)
  <2>1. Count(got[p], z) = (IF z = x THEN 1 ELSE 0)
    BY <1>4, CountOne
  <2>2. fd[p] # z
    BY <1>3, NameSpaceAssumption DEF Chan, Nil
  <2>3. Own(p, z) = (IF z = x THEN 1 ELSE 0) + 0
    BY <1>3, <2>1, <2>2
  <2> QED
    BY <2>3
<1>7. \A z \in Chan : SameFields(z)
  BY <1>2 DEF SameFields
<1>8. ASSUME NEW z \in Chan
      PROVE  /\ ch'.of[z].ref + Own(p, z) = ch.of[z].ref + (IF x = z THEN 1 ELSE 0)
             /\ ch'.of[z].ref > 0 => ch'.of[z].file \in File
             /\ ch.of[z].ref > 0 /\ Own(p, z) = 0 => SameFields(z)
  BY <1>1, <1>2, <1>5, <1>6, <1>7
<1>9. ch'.of[x].ref = 1 /\ \E g \in Group : Users(g) # {} /\ ShowsIn(g, x)'
  <2>1. mount' = mount /\ head' = head /\ grp' = grp /\ grp[p] \in Group
    BY <1>2 DEF tables, IndInv, TypeOK
  <2>2. Own(p, x) > 0
    BY <1>4, <1>6
  <2>3. ch.of[x].ref = 1
    BY <1>4, <2>2, OwnAlone DEF IndInv
  <2>4. GotShows(p, 1)
    <3>1. \A i \in 1..Len(got[p]) : GotShows(p, i)
      BY DEF IndInv, ShowsInv, Showing
    <3>2. 1 \in 1..Len(got[p])
      BY <1>3
    <3> QED
      BY <3>1, <3>2
  <2>5. Names(job[p])[1][2] = "open"
    BY <1>3 DEF Names
  <2>6. ShowsIn(grp[p], x)
    BY <1>1, <2>4, <2>5 DEF GotShows
  <2>7. ASSUME NEW g \in Group, g = grp[p]
        PROVE  Users(g) # {} /\ ShowsIn(g, x)'
    <3>1. p \in Users(g)
      BY <2>7 DEF Users
    <3>2. Table(g)' = Table(g)
      BY <2>1, TablesSame
    <3> QED
      BY <1>2, <2>1, <2>6, <2>7, <3>1, <3>2 DEF ShowsIn
  <2> QED
    BY <1>2, <2>1, <2>3, <2>7
<1>10. ch' \in ChansType /\ FreeOK(ch') /\ ~ch'.panic
  BY <1>1, <1>2, <1>5
<1>11. at[p] \notin {"copied", "setdot"}
  BY <1>3
<1> QED
  BY <1>2, <1>4, <1>8, <1>9, <1>10, <1>11, EndStep

LEMMA ReadKeeps ==
  ASSUME IndInv, NEW p \in Proc, Read(p)
  PROVE  IndInv' /\ FilesKept
<1>1. SUFFICES ASSUME NEW x, x = fd[p], NEW m, m = ch.of[x].mnt
               PROVE  IndInv' /\ FilesKept
  OBVIOUS
<1>2. /\ Ready(p, "read") /\ m # Nil /\ Return(p) /\ fd' = fd
      /\ UNCHANGED <<tables, grp, job, walking, fork, left>>
      /\ mount[m].mountid = ch.of[x].mountid =>
           \E n \in ToSet(ListFrom(m)) \cup {Nil} :
              ch' = [ch EXCEPT !.of[x].mnt = n,
                               !.of[x].mountid = IF n = Nil THEN @ ELSE mount[n].mountid]
  BY <1>1 DEF Read
<1>3. /\ at[p] = "op" /\ got[p] = <<>> /\ fd[p] # Nil
      /\ \A z : Own(p, z) = Count(got[p], z) + (IF fd[p] = z THEN 1 ELSE 0)
  BY <1>2, ReadyHas
<1>4. x \in Chan /\ ch.of[x].ref = 1
  BY <1>1, <1>3, OwnsThem, OwnAlone DEF IndInv
<1>5. PICK g \in Group : Users(g) # {} /\ ShowsIn(g, x)
  BY <1>1, <1>3 DEF IndInv, ShowsInv, Showing, FdShows
<1>6. m \in Table(g) /\ mount[m].mountid = ch.of[x].mountid
  BY <1>1, <1>2, <1>5 DEF ShowsIn
<1>7. PICK n \in ToSet(ListFrom(m)) \cup {Nil} :
        ch' = [ch EXCEPT !.of[x].mnt = n,
                         !.of[x].mountid = IF n = Nil THEN @ ELSE mount[n].mountid]
  BY <1>2, <1>6
<1>8. n = Nil \/ (n \in Mount /\ n \in Table(g))
  <2>1. PICK d \in File : m \in MountsOn(g, d)
    BY <1>6 DEF Table
  <2>2. ToSet(ListFrom(m)) \subseteq MountsOn(g, d)
    BY <2>1, TableLive DEF IndInv
  <2> QED
    BY <1>7, <2>1, <2>2, TableLive DEF IndInv
<1>9. /\ ch \in ChansType /\ ch.of[x] \in ChanType /\ ch.of[x].file \in File
      /\ FreeOK(ch) /\ ~ch.panic
      /\ \A z \in Chan : ch.of[z].ref \in Nat /\ (ch.of[z].ref > 0 => ch.of[z].file \in File)
  BY <1>4, Channels
<1>10. PICK r \in ChanType :
         /\ ch' = WithFields(ch, x, r) /\ r.ref = ch.of[x].ref /\ r.file = ch.of[x].file /\ r.mnt = n
         /\ n # Nil => r.mountid = mount[n].mountid
  <2>1. PICK k \in Nat : k = IF n = Nil THEN ch.of[x].mountid ELSE mount[n].mountid
    BY <1>8, <1>9 DEF IndInv, TypeOK, ChanType
  <2> DEFINE r == [ch.of[x] EXCEPT !.mnt = n, !.mountid = k]
  <2>2. ch' = WithFields(ch, x, r)
    BY <1>4, <1>7, <1>9, <2>1 DEF WithFields, ChansType
  <2>3. r \in ChanType
    BY <1>8, <1>9 DEF ChanType
  <2>4. r.ref = ch.of[x].ref /\ r.file = ch.of[x].file /\ r.mnt = n /\ r.mountid = k
    BY <1>9 DEF ChanType
  <2>5. n # Nil => k = mount[n].mountid
    BY <2>1
  <2> HIDE DEF r
  <2> QED
    BY <2>2, <2>3, <2>4, <2>5
<1>11. /\ ch' \in ChansType /\ FreeOK(ch') /\ ch'.panic = ch.panic
       /\ ch'.of[x] = r /\ \A z \in Chan : z # x => ch'.of[z] = ch.of[z]
  <2> DEFINE s == ch
             t == ch'
  <2>1. s \in ChansType /\ FreeOK(s) /\ r.ref = s.of[x].ref /\ t = WithFields(s, x, r)
    BY <1>9, <1>10
  <2> HIDE DEF s, t
  <2>2. /\ t \in ChansType /\ FreeOK(t) /\ t.panic = s.panic
        /\ t.of[x] = r /\ \A z \in Chan : z # x => t.of[z] = s.of[z]
    BY <1>4, <2>1, SetField
  <2> QED
    BY <2>2 DEF s, t
<1>12. ASSUME NEW z \in Chan
       PROVE  /\ ch'.of[z].ref + Own(p, z) = ch.of[z].ref + (IF x = z THEN 1 ELSE 0)
              /\ ch'.of[z].ref > 0 => ch'.of[z].file \in File
              /\ ch.of[z].ref > 0 /\ Own(p, z) = 0 => SameFields(z)
  <2>1. Count(got[p], z) = 0
    BY <1>3, CountOne
  <2>2. Own(p, z) = (IF x = z THEN 1 ELSE 0)
    BY <1>1, <1>3, <2>1
  <2>3. CASE z = x
    BY <1>9, <1>10, <1>11, <2>2, <2>3
  <2>4. CASE z # x
    BY <1>9, <1>11, <2>2, <2>4 DEF SameFields
  <2> QED
    BY <2>3, <2>4
<1>13. ch'.of[x].ref = 1 /\ ShowsIn(g, x)'
  <2>1. mount' = mount /\ head' = head /\ grp' = grp
    BY <1>2 DEF tables
  <2>2. Table(g)' = Table(g)
    BY <2>1, TablesSame
  <2> QED
    BY <1>4, <1>8, <1>10, <1>11, <2>1, <2>2 DEF ShowsIn
<1>14. /\ HasOpen(p, x) /\ x \in Chan \cup {Nil} /\ at[p] \notin {"copied", "setdot"} /\ ~ch'.panic
       /\ x # Nil => ch'.of[x].ref = 1 /\ \E h \in Group : Users(h) # {} /\ ShowsIn(h, x)'
  BY <1>1, <1>2, <1>3, <1>4, <1>5, <1>9, <1>11, <1>13, SameOpen DEF IndInv
<1> QED
  BY <1>2, <1>11, <1>12, <1>14, EndStep

LEMMA AskKeeps ==
  ASSUME IndInv, NEW p \in Proc, NEW q \in Calls[p], Ask(p, q)
  PROVE  IndInv' /\ FilesKept
<1>1. /\ at[p] = "idle" /\ at' = [at EXCEPT ![p] = "op"] /\ job' = [job EXCEPT ![p] = q]
      /\ left[p] > 0 /\ left' = [left EXCEPT ![p] = @ - 1]
      /\ q.op = "open" => fd[p] = Nil
      /\ q.op \in {"read", "close"} => fd[p] # Nil
      /\ ch' = ch /\ mount' = mount /\ head' = head /\ group' = group /\ mountid' = mountid
      /\ grp' = grp /\ fd' = fd /\ name' = name /\ c' = c /\ w' = w /\ got' = got /\ fork' = fork
  BY DEF Ask, tables, walking
<1>2. TypeOK
  BY DEF IndInv
<1>3. /\ at' \in [Proc -> Labels] /\ at'[p] = "op" /\ job'[p] = q
      /\ job' = [r \in Proc |-> job'[r]] /\ left' \in [Proc -> Nat] /\ OthersKeep(p)
  <2>1. at \in [Proc -> Labels] /\ job = [r \in Proc |-> job[r]] /\ left \in [Proc -> Nat]
    BY <1>2 DEF TypeOK
  <2>2. at' \in [Proc -> Labels] /\ at'[p] = "op" /\ \A r \in Proc \ {p} : at'[r] = at[r]
    BY <1>1, <2>1 DEF Labels
  <2>3. job'[p] = q /\ job' = [r \in Proc |-> job'[r]] /\ \A r \in Proc \ {p} : job'[r] = job[r]
    BY <1>1, <2>1
  <2>4. left[p] \in Nat /\ left[p] - 1 \in Nat
    BY <1>1, <2>1
  <2>5. left' \in [Proc -> Nat]
    BY <1>1, <2>1, <2>4
  <2> QED
    BY <1>1, <2>2, <2>3, <2>5 DEF OthersKeep
<1>4. TypeOK'
  BY <1>1, <1>2, <1>3 DEF TypeOK
<1>5. got[p] = <<>> /\ Len(got[p]) = 0
  BY <1>1 DEF IndInv, CallInv, Calling
<1>6. \A z \in Chan : Own(p, z)' = Own(p, z)
  BY <1>1, <1>3 DEF Own, HasWalk
<1>7. /\ FreeOK(ch') /\ ~ch'.panic
      /\ \A z \in Chan : (ch'.of[z].ref > 0 => ch'.of[z].file \in File) /\ SameFields(z)
  BY <1>1, Channels DEF SameFields
<1>8. \A z \in Chan : Own(p, z)' > 0 => ~(ch'.of[z].ref > 1)
  <2>1. \A z \in Chan : Own(p, z) > 0 => ch.of[z].ref = 1
    BY OwnAlone DEF IndInv
  <2> QED
    BY <1>1, <1>6, <2>1
<1>9. Calling(p)'
  <2>1. Len(Names(q)) \in Nat
    BY NamesType
  <2> QED
    BY <1>1, <1>3, <1>5, <2>1 DEF Calling, HasWalk
<1>10. Showing(p)'
  <2>1. \A i \in 1..Len(got'[p]) : FALSE
    BY <1>1, <1>5
  <2>2. FdShows(p)'
    <3>1. CASE fd[p] = Nil
      BY <1>1, <3>1 DEF FdShows
    <3>2. CASE fd[p] # Nil
      <4>1. fd[p] \in Chan
        BY <1>2, <3>2 DEF TypeOK
      <4>2. PICK g \in Group : Users(g) # {} /\ \A x : x = fd[p] => ShowsIn(g, x)'
        BY <1>1, <1>7, <3>2, <4>1, OpenShows
      <4>3. Users(g)' = Users(g)
        BY <1>1 DEF Users
      <4>4. fd'[p] = fd[p]
        BY <1>1
      <4>5. ShowsIn(g, fd[p])'
        <5>1. SUFFICES ASSUME NEW x, x = fd[p]
                       PROVE  ShowsIn(g, x)'
          BY <4>4
        <5> QED
          BY <4>2, <5>1
      <4> QED
        BY <4>2, <4>3, <4>5 DEF FdShows
    <3> QED
      BY <3>1, <3>2
  <2> QED
    BY <1>3, <2>1, <2>2 DEF Showing
<1>11. \A z \in Chan : ch'.of[z].ref + Own(p, z) = ch.of[z].ref + Own(p, z)'
  BY <1>1, <1>6
<1>12. /\ UNCHANGED <<tables, grp, fork>>
       /\ at[p] \notin {"copied", "setdot"} /\ at'[p] \notin {"copied", "setdot", "unclone", "unclone2"}
  BY <1>1, <1>3 DEF tables
<1> QED
  BY <1>3, <1>4, <1>7, <1>8, <1>9, <1>10, <1>11, <1>12, CountedStep

(* The channels of the tables, and those of calls and open files. *)
InTables(x) == Cardinality(MountsTo(x)) + Cardinality(HeadsOf(x))
               + Cardinality(SlashesOf(x)) + Cardinality(DotsOf(x))
InCalls(x)  == Cardinality(FdsOf(x)) + Cardinality(WalksOf(x))
               + Cardinality(GotOf(1, x)) + Cardinality(GotOf(2, x))

LEMMA RefsParts ==
  ASSUME TypeOK, NEW x
  PROVE  Refs(x) = InTables(x) + InCalls(x) /\ InTables(x) \in Nat /\ InCalls(x) \in Nat
<1> DEFINE a1 == Cardinality(MountsTo(x))
           a2 == Cardinality(HeadsOf(x))
           a3 == Cardinality(SlashesOf(x))
           a4 == Cardinality(DotsOf(x))
           b1 == Cardinality(FdsOf(x))
           b2 == Cardinality(WalksOf(x))
           b3 == Cardinality(GotOf(1, x))
           b4 == Cardinality(GotOf(2, x))
<1>1. /\ a1 \in Nat /\ a2 \in Nat /\ a3 \in Nat /\ a4 \in Nat
      /\ b1 \in Nat /\ b2 \in Nat /\ b3 \in Nat /\ b4 \in Nat
  BY RefsType
<1>2. /\ InTables(x) = a1 + a2 + a3 + a4 /\ InCalls(x) = b1 + b2 + b3 + b4
      /\ Refs(x) = a1 + a2 + a3 + a4 + b1 + b2 + b3 + b4
  BY DEF InTables, InCalls, Refs
<1> HIDE DEF a1, a2, a3, a4, b1, b2, b3, b4
<1> QED
  BY <1>1, <1>2

LEMMA RefsPartsNext ==
  ASSUME NEW x
  PROVE  (TypeOK => Refs(x) = InTables(x) + InCalls(x) /\ InTables(x) \in Nat /\ InCalls(x) \in Nat)'
<1>1. TypeOK => Refs(x) = InTables(x) + InCalls(x) /\ InTables(x) \in Nat /\ InCalls(x) \in Nat
  BY RefsParts
<1> QED
  BY <1>1, PTL

(* What a step of p does to the references of calls. *)
LEMMA CallsPart ==
  ASSUME TypeOK, TypeOK', NEW p \in Proc, OthersKeep(p), NEW x
  PROVE  /\ InCalls(x)' + Own(p, x) = InCalls(x) + Own(p, x)'
         /\ Own(p, x) \in Nat /\ Own(p, x)' \in Nat /\ InCalls(x) \in Nat /\ InCalls(x)' \in Nat
<1>3. /\ FdsOf(x) \ {p} = FdsOf(x)' \ {p} /\ WalksOf(x) \ {p} = WalksOf(x)' \ {p}
      /\ GotOf(1, x) \ {p} = GotOf(1, x)' \ {p} /\ GotOf(2, x) \ {p} = GotOf(2, x)' \ {p}
  <2>1. FdsOf(x) \ {p} = FdsOf(x)' \ {p}
    BY DEF OthersKeep, FdsOf
  <2>2. WalksOf(x) \ {p} = WalksOf(x)' \ {p}
    BY DEF OthersKeep, WalksOf
  <2>3. GotOf(1, x) \ {p} = GotOf(1, x)' \ {p}
    BY DEF OthersKeep, GotOf
  <2>4. GotOf(2, x) \ {p} = GotOf(2, x)' \ {p}
    BY DEF OthersKeep, GotOf
  <2> QED
    BY <2>1, <2>2, <2>3, <2>4
<1>4. /\ p \in FdsOf(x) <=> fd[p] = x
      /\ p \in FdsOf(x)' <=> fd'[p] = x
      /\ p \in WalksOf(x) <=> w[p] = x /\ at[p] \in HasWalk
      /\ p \in WalksOf(x)' <=> w'[p] = x /\ at'[p] \in HasWalk
      /\ p \in GotOf(1, x) <=> 1 <= Len(got[p]) /\ got[p][1] = x
      /\ p \in GotOf(1, x)' <=> 1 <= Len(got'[p]) /\ got'[p][1] = x
      /\ p \in GotOf(2, x) <=> 2 <= Len(got[p]) /\ got[p][2] = x
      /\ p \in GotOf(2, x)' <=> 2 <= Len(got'[p]) /\ got'[p][2] = x
  BY DEF FdsOf, WalksOf, GotOf, HasWalk
<1> DEFINE f == FdsOf(x)
           ff == FdsOf(x)'
           u == WalksOf(x)
           uu == WalksOf(x)'
           a == GotOf(1, x)
           aa == GotOf(1, x)'
           b == GotOf(2, x)
           bb == GotOf(2, x)'
           has(S) == IF p \in S THEN 1 ELSE 0
<1>5. /\ Own(p, x) = has(f) + has(u) + has(a) + has(b)
      /\ Own(p, x)' = has(ff) + has(uu) + has(aa) + has(bb)
  BY <1>4 DEF Own, HasWalk
<1>7. /\ InCalls(x) = Cardinality(f) + Cardinality(u) + Cardinality(a) + Cardinality(b)
      /\ InCalls(x)' = Cardinality(ff) + Cardinality(uu) + Cardinality(aa) + Cardinality(bb)
  BY DEF InCalls
<1>8. /\ IsFiniteSet(f) /\ IsFiniteSet(u) /\ IsFiniteSet(a) /\ IsFiniteSet(b)
      /\ f \ {p} = ff \ {p} /\ u \ {p} = uu \ {p} /\ a \ {p} = aa \ {p} /\ b \ {p} = bb \ {p}
  BY <1>3, RefsFinite
<1> HIDE DEF f, ff, u, uu, a, aa, b, bb
<1>9. /\ Cardinality(f) \in Nat /\ Cardinality(ff) \in Nat
      /\ Cardinality(ff) + has(f) = Cardinality(f) + has(ff)
  BY <1>8, OneDiffers
<1>10. /\ Cardinality(u) \in Nat /\ Cardinality(uu) \in Nat
       /\ Cardinality(uu) + has(u) = Cardinality(u) + has(uu)
  BY <1>8, OneDiffers
<1>11. /\ Cardinality(a) \in Nat /\ Cardinality(aa) \in Nat
       /\ Cardinality(aa) + has(a) = Cardinality(a) + has(aa)
  BY <1>8, OneDiffers
<1>12. /\ Cardinality(b) \in Nat /\ Cardinality(bb) \in Nat
       /\ Cardinality(bb) + has(b) = Cardinality(b) + has(bb)
  BY <1>8, OneDiffers
<1>13. has(f) \in Nat /\ has(ff) \in Nat /\ has(u) \in Nat /\ has(uu) \in Nat
       /\ has(a) \in Nat /\ has(aa) \in Nat /\ has(b) \in Nat /\ has(bb) \in Nat
  OBVIOUS
<1> HIDE DEF has
<1> QED
  BY <1>5, <1>7, <1>9, <1>10, <1>11, <1>12, <1>13

LEMMA ChdirCloseKeeps ==
  ASSUME IndInv, Orderly, NEW p \in Proc, ChdirClose(p)
  PROVE  IndInv' /\ FilesKept
<1>s. SUFFICES ASSUME NEW g, g = grp[p], NEW x, x = group[g].dot
               PROVE  IndInv' /\ FilesKept
  OBVIOUS
<1>1. /\ Ready(p, "chdir") /\ DotUsable(p) /\ ch' = Close(ch, x) /\ at' = [at EXCEPT ![p] = "setdot"]
      /\ mount' = mount /\ head' = head /\ group' = group /\ mountid' = mountid
      /\ grp' = grp /\ fd' = fd /\ job' = job /\ name' = name /\ c' = c /\ w' = w /\ got' = got
      /\ fork' = fork /\ left' = left
  BY <1>s DEF ChdirClose, tables, walking
<1>2. /\ at[p] = "op" /\ job[p] \in Calls[p] /\ job[p].op = "chdir" /\ Len(got[p]) = 1
      /\ Len(got[p]) = Len(Names(job[p]))
  BY <1>1, ReadyHas
<1>3. TypeOK /\ g \in Group /\ \A q \in Proc \ {p} : grp[q] = g => at[q] # "setdot"
  BY <1>1, <1>s DEF IndInv, TypeOK, DotUsable, Orderly
<1>4. x \in Chan /\ ch.of[x].ref > 0 /\ \A q \in Proc : Own(q, x) = 0
  <2>1. x \in Chan
    BY <1>s, StartFrom
  <2>2. x # Nil
    BY <2>1, NameSpaceAssumption DEF Chan, Nil
  <2>3. \A q \in Proc : grp[q] = g => at[q] # "setdot"
    BY <1>2, <1>3
  <2> QED
    BY <1>3, <1>s, <2>1, <2>2, <2>3, TableChan DEF IndInv
<1>5. /\ ch' \in ChansType /\ FreeOK(ch') /\ SameButRefs(ch, ch')
      /\ \A z \in Chan : ch'.of[z].ref = ch.of[z].ref - (IF z = x THEN 1 ELSE 0)
  <2> DEFINE s == ch
             t == ch'
  <2>1. s \in ChansType /\ FreeOK(s) /\ s.of[x].ref > 0 /\ t = Close(s, x)
    BY <1>1, <1>4, Channels
  <2> HIDE DEF s, t
  <2>2. /\ t \in ChansType /\ FreeOK(t) /\ SameButRefs(s, t)
        /\ \A z \in Chan : t.of[z].ref = s.of[z].ref - (IF z = x THEN 1 ELSE 0)
    BY <1>4, <2>1, CloseEffect
  <2> QED
    BY <2>2 DEF s, t
<1>6. at' \in [Proc -> Labels] /\ at'[p] = "setdot" /\ OthersKeep(p)
      /\ \A q \in Proc \ {p} : at'[q] = at[q]
  BY <1>1, <1>3 DEF TypeOK, OthersKeep, Labels
<1>7. TypeOK'
  BY <1>1, <1>3, <1>5, <1>6 DEF TypeOK, ChansType, ChanType
<1>8. \A z \in Chan : Own(p, z)' = Own(p, z)
  BY <1>1, <1>2, <1>6 DEF Own, HasWalk
<1>9. ASSUME NEW z \in Chan
      PROVE  InTables(z)' + (IF z = x THEN 1 ELSE 0) = InTables(z)
  <2> DEFINE D == DotsOf(z)
             E == DotsOf(z)'
             rest == Cardinality(MountsTo(z)) + Cardinality(HeadsOf(z)) + Cardinality(SlashesOf(z))
  <2>1. MountsTo(z)' = MountsTo(z) /\ HeadsOf(z)' = HeadsOf(z) /\ SlashesOf(z)' = SlashesOf(z)
    BY <1>1 DEF MountsTo, HeadsOf, SlashesOf, To
  <2>2. rest \in Nat /\ IsFiniteSet(D) /\ InTables(z) = rest + Cardinality(D)
    BY <1>3, RefsType, RefsFinite DEF InTables
  <2>3. InTables(z)' = rest + Cardinality(E)
    BY <2>1 DEF InTables
  <2>4. D \ {g} = E \ {g}
    BY <1>1, <1>6, <1>s DEF DotsOf
  <2>5. g \in D <=> z = x
    BY <1>2, <1>3, <1>s DEF DotsOf
  <2>6. g \notin E
    BY <1>1, <1>6, <1>s DEF DotsOf
  <2> HIDE DEF D, E, rest
  <2>7. /\ Cardinality(D) \in Nat /\ Cardinality(E) \in Nat
        /\ Cardinality(E) + (IF g \in D THEN 1 ELSE 0) = Cardinality(D) + (IF g \in E THEN 1 ELSE 0)
    BY <2>2, <2>4, OneDiffers
  <2> QED
    BY <2>2, <2>3, <2>5, <2>6, <2>7
<1>10. RefsExact'
  <2>1. ASSUME NEW z \in Chan
        PROVE  ch'.of[z].ref = Refs(z)'
    <3> DEFINE k == ch.of[z].ref
               n == ch'.of[z].ref
               a == InTables(z)
               aa == InTables(z)'
               b == InCalls(z)
               bb == InCalls(z)'
    <3>1. k = a + b /\ a \in Nat /\ b \in Nat
      BY <1>3, RefsParts DEF IndInv, RefsExact
    <3>2. Refs(z)' = aa + bb /\ aa \in Nat /\ bb \in Nat
      BY <1>7, RefsPartsNext
    <3>3. bb = b
      BY <1>3, <1>6, <1>7, <1>8, CallsPart
    <3>4. aa + (IF z = x THEN 1 ELSE 0) = a /\ n = k - (IF z = x THEN 1 ELSE 0)
      BY <1>5, <1>9
    <3> HIDE DEF k, n, a, aa, b, bb
    <3>5. n = aa + bb
      BY <3>1, <3>2, <3>3, <3>4
    <3> QED
      BY <3>2, <3>5 DEF n
  <2> QED
    BY <2>1 DEF RefsExact
<1>11. \A z \in Chan : SameFields(z)
  BY <1>5 DEF SameFields, SameButRefs
<1>12. ASSUME NEW z \in Chan
       PROVE  /\ ch'.of[z].ref > 0 => ch'.of[z].file \in File
              /\ ch'.of[z].ref > 1 => ch.of[z].ref > 1
              /\ Own(p, z)' > 0 => ~(ch'.of[z].ref > 1)
              /\ ch.of[z].ref > 0 /\ Own(p, z) = 0 => SameFields(z)
  <2>1. ch'.of[z].ref > 0 => ch.of[z].ref > 0
    BY <1>5, Channels
  <2>2. ch'.of[z].ref > 1 => ch.of[z].ref > 1
    BY <1>5, Channels
  <2>3. ch.of[z].ref > 0 => ch.of[z].file \in File
    BY Channels
  <2>4. ch'.of[z].file = ch.of[z].file
    BY <1>11 DEF SameFields
  <2>5. Own(p, z) > 0 => ch.of[z].ref = 1
    BY <1>3, OwnAlone DEF IndInv
  <2> QED
    BY <1>8, <1>11, <2>1, <2>2, <2>3, <2>4, <2>5
<1>13. CallOnly(p)
  <2>1. UNCHANGED <<tables, grp, fork>> /\ at[p] # "copied" /\ at'[p] # "copied"
    BY <1>1, <1>2, <1>6 DEF tables
  <2>2. FreeOK(ch') /\ ~ch'.panic
    BY <1>5, Channels DEF SameButRefs
  <2> QED
    BY <1>6, <1>12, <2>1, <2>2 DEF CallOnly
<1>14. Calling(p)'
  <2>1. /\ job'[p] \in Calls[p] /\ job'[p].op = "chdir" /\ Len(got'[p]) = 1
        /\ Len(got'[p]) <= Len(Names(job'[p]))
    <3>1. job'[p] = job[p] /\ got'[p] = got[p]
      BY <1>1
    <3> DEFINE n == Len(got[p])
               k == Len(Names(job[p]))
    <3>2. n = 1 /\ n = k
      BY <1>2
    <3> HIDE DEF n, k
    <3>3. n <= k
      BY <3>2
    <3> QED
      BY <1>2, <3>1, <3>3 DEF n, k
  <2> QED
    BY <1>6, <2>1 DEF Calling, HasWalk
<1>15. Showing(p)'
  <2>1. /\ \A i \in 1..Len(got[p]) : GotShows(p, i)'
        /\ FdShows(p)'
    BY <1>1, <1>11, KeepsShowing
  <2> QED
    BY <1>1, <1>6, <2>1 DEF Showing
<1>16. at'[p] = "setdot" => \A r \in Proc \ {p} : grp[r] = grp[p] => at[r] # "setdot"
  BY <1>3, <1>s
<1> QED
  BY <1>6, <1>7, <1>10, <1>13, <1>14, <1>15, <1>16, CallStep

-----------------------------------------------------------------------------
(* Steps that change the tables. *)

LEMMA OthersOwn ==
  ASSUME NEW p \in Proc, OthersKeep(p), NEW q \in Proc \ {p}, NEW x
  PROVE  Own(q, x)' = Own(q, x)
  BY DEF OthersKeep, Own, HasWalk

(* What the tables lose and get is what the channels count. *)
LEMMA TableRefs ==
  ASSUME IndInv, TypeOK', NEW p \in Proc, OthersKeep(p),
         \A z \in Chan : ch'.of[z].ref + InTables(z) + Own(p, z) = ch.of[z].ref + InTables(z)' + Own(p, z)'
  PROVE  RefsExact'
<1>1. ASSUME NEW z \in Chan
      PROVE  ch'.of[z].ref = Refs(z)'
  <2> DEFINE k == ch.of[z].ref
             n == ch'.of[z].ref
             a == InTables(z)
             aa == InTables(z)'
             b == InCalls(z)
             bb == InCalls(z)'
             o == Own(p, z)
             oo == Own(p, z)'
  <2>1. k = a + b /\ a \in Nat /\ b \in Nat
    BY RefsParts DEF IndInv, RefsExact
  <2>2. Refs(z)' = aa + bb /\ aa \in Nat /\ bb \in Nat
    BY RefsPartsNext
  <2>3. bb + o = b + oo /\ o \in Nat /\ oo \in Nat
    BY CallsPart DEF IndInv
  <2>4. n + a + o = k + aa + oo
    OBVIOUS
  <2>5. n \in Nat
    BY DEF TypeOK
  <2> HIDE DEF k, n, a, aa, b, bb, o, oo
  <2>6. n = aa + bb
    BY <2>1, <2>2, <2>3, <2>4, <2>5
  <2> QED
    BY <2>2, <2>6 DEF n
<1> QED
  BY <1>1 DEF RefsExact

LEMMA TablePrivate ==
  ASSUME \A q \in Proc, z \in Chan : Own(q, z)' > 0 => ~(ch'.of[z].ref > 1)
  PROVE  Private'
<1>1. ASSUME NEW x \in Chan, ch'.of[x].ref > 1
      PROVE  FdsOf(x)' = {} /\ WalksOf(x)' = {} /\ GotOf(1, x)' = {} /\ GotOf(2, x)' = {}
  <2>1. \A q \in Proc : ~(Own(q, x)' > 0)
    BY <1>1
  <2>2. ASSUME NEW q \in Proc
        PROVE  /\ fd'[q] # x /\ ~(w'[q] = x /\ at'[q] \in HasWalk)
               /\ ~(1 <= Len(got'[q]) /\ got'[q][1] = x)
               /\ ~(2 <= Len(got'[q]) /\ got'[q][2] = x)
    <3>1. ~(Own(q, x)' > 0)
      BY <2>1
    <3> QED
      BY <3>1 DEF Own, HasWalk
  <2> QED
    BY <2>2 DEF FdsOf, WalksOf, GotOf, HasWalk
<1> QED
  BY <1>1 DEF Private

(* m stays what it is in g. *)
KeepsMount(g, m) == m \in Table(g)' /\ mount'[m].mountid = mount[m].mountid /\ To(m)' = To(m)

(* What others show is followed. *)
LEMMA FollowedHas ==
  ASSUME IndInv, NEW p \in Proc, NEW q \in Proc, NEW x \in Chan,
         \/ x = fd[q]
         \/ q # p /\ at[q] = "dev" /\ x = w[q]
         \/ q # p /\ \E i \in 1..Len(got[q]) : x = got[q][i],
         NEW g \in Group, ShowsIn(g, x), NEW m, m = ch.of[x].mnt, m # Nil
  PROVE  m \in Followed(p) /\ m \in Table(g) /\ m \in Mount /\ mount[m].live
<1>1. m \in Table(g)
  BY DEF ShowsIn
<1>2. PICK d \in File : m \in MountsOn(g, d)
  BY <1>1 DEF Table
<1>3. m \in Mount /\ mount[m].live /\ ListFrom(m) \in Seq(Mount) /\ ListFrom(m) # <<>> /\ ListFrom(m)[1] = m
  BY <1>2, TableLive DEF IndInv
<1>4. m \in ToSet(ListFrom(m))
  <2>1. 1 \in DOMAIN ListFrom(m)
    BY <1>3
  <2> QED
    BY <1>3, <2>1 DEF ToSet
<1> DEFINE used == {fd[r] : r \in Proc}
              \cup {w[r] : r \in {y \in Proc \ {p} : at[y] \notin {"idle", "op"}}}
              \cup UNION {ToSet(got[r]) : r \in Proc \ {p}}
<1>5. x \in used
  <2>1. \A r \in Proc : \A i \in 1..Len(got[r]) : got[r][i] \in ToSet(got[r])
    <3>1. \A r \in Proc : got[r] \in Seq(Chan)
      BY DEF IndInv, TypeOK
    <3>2. \A s \in Seq(Chan) : \A i \in 1..Len(s) : s[i] \in ToSet(s)
      BY DEF ToSet
    <3> QED
      BY <3>1, <3>2
  <2> QED
    BY <2>1
<1>6. x # Nil
  BY NameSpaceAssumption DEF Chan, Nil
<1>7. Followed(p) = UNION {ToSet(ListFrom(ch.of[y].mnt)) : y \in used \ {Nil}}
  BY DEF Followed
<1> HIDE DEF used
<1>8. m \in Followed(p)
  <2>1. x \in used \ {Nil} /\ m \in ToSet(ListFrom(ch.of[x].mnt))
    BY <1>4, <1>5, <1>6
  <2> QED
    BY <1>7, <2>1
<1> QED
  BY <1>1, <1>3, <1>8

LEMMA OthersShow ==
  ASSUME IndInv, TypeOK', NEW p \in Proc, OthersKeep(p), fd' = fd,
         \A q \in Proc \ {p} : grp'[q] = grp[q],
         \A g \in Group : Users(g) # {} => \A m \in Table(g) \cap Followed(p) :
           Users(g)' # {} /\ KeepsMount(g, m),
         \A m \in Mount : mount[m].live => SameFields(To(m)),
         \A q \in Proc, z \in Chan : Own(q, z) > 0 /\ (q # p \/ z = fd[p]) => SameFields(z)
  PROVE  /\ \A q \in Proc : FdShows(q)'
         /\ \A q \in Proc \ {p} : Showing(q)'
<1> USE DEF IndInv
<1>1. \A q \in Proc : Showing(q) /\ grp[q] \in Group
  BY DEF ShowsInv, TypeOK
<1>2. \A q \in Proc : Users(grp[q]) # {} /\ \E h \in Group : Users(h)' # {}
  <2>1. ASSUME NEW q \in Proc
        PROVE  Users(grp[q]) # {} /\ \E h \in Group : Users(h)' # {}
    <3>1. grp'[q] \in Group
      BY DEF TypeOK
    <3>2. PICK h \in Group : h = grp'[q]
      BY <3>1
    <3>3. q \in Users(h)' /\ q \in Users(grp[q])
      BY <3>2 DEF Users
    <3> QED
      BY <3>3
  <2> QED
    BY <2>1
<1>3. ASSUME NEW q \in Proc, NEW x \in Chan,
         \/ x = fd[q]
         \/ q # p /\ at[q] = "dev" /\ x = w[q]
         \/ q # p /\ \E i \in 1..Len(got[q]) : x = got[q][i],
         NEW g \in Group, Users(g) # {}, ShowsIn(g, x), NEW m, m = ch.of[x].mnt,
         NEW y, y = To(m)
      PROVE  /\ SameFields(x) => ShowsIn(g, x)'
             /\ m # Nil => Users(g)' # {} /\ To(m)' = y /\ SameFields(y)
  <2>1. CASE m = Nil
    <3>1. SameFields(x) => ch'.of[x].mnt = Nil
      BY <1>3, <2>1 DEF SameFields
    <3> QED
      BY <2>1, <3>1 DEF ShowsIn
  <2>2. CASE m # Nil
    <3>1. m \in Followed(p) /\ m \in Table(g) /\ m \in Mount /\ mount[m].live
      BY <1>3, <2>2, FollowedHas
    <3>2. Users(g)' # {} /\ KeepsMount(g, m)
      BY <1>3, <3>1
    <3>3. mount[m].mountid = ch.of[x].mountid
      BY <1>3, <2>2 DEF ShowsIn
    <3>4. SameFields(y)
      BY <1>3, <3>1
    <3>5. SameFields(x) => ShowsIn(g, x)'
      BY <1>3, <3>2, <3>3 DEF ShowsIn, SameFields, KeepsMount
    <3>6. To(m)' = y
      BY <1>3, <3>2 DEF KeepsMount
    <3> QED
      BY <3>2, <3>4, <3>5, <3>6
  <2> QED
    BY <2>1, <2>2
<1>4. ASSUME NEW q \in Proc
      PROVE  FdShows(q)'
  <2>s. SUFFICES ASSUME NEW x, x = fd[q], NEW m, m = ch.of[x].mnt, x # Nil
                 PROVE  \E g \in Group : Users(g)' # {} /\ ShowsIn(g, x)'
    BY DEF FdShows
  <2>1. x \in Chan /\ Own(q, x) > 0
    BY <2>s, OwnsThem
  <2>2. PICK g \in Group : Users(g) # {} /\ ShowsIn(g, x)
    BY <1>1, <2>s DEF Showing, FdShows
  <2>3. SameFields(x)
    BY <2>1, <2>s
  <2>4. ShowsIn(g, x)' /\ (m # Nil => Users(g)' # {})
    BY <1>3, <2>1, <2>2, <2>3, <2>s
  <2>5. CASE m # Nil
    BY <2>4, <2>5
  <2>6. CASE m = Nil
    <3>1. ch'.of[x].mnt = Nil
      BY <2>3, <2>6, <2>s DEF SameFields
    <3>2. ShowsIn(g, x)' /\ \A h \in Group : ShowsIn(h, x)'
      BY <3>1 DEF ShowsIn
    <3> QED
      BY <1>2, <3>2
  <2> QED
    BY <2>5, <2>6
<1>5. ASSUME NEW q \in Proc \ {p}
      PROVE  Showing(q)'
  <2>s. SUFFICES ASSUME NEW g, g = grp[q]
                 PROVE  Showing(q)'
    OBVIOUS
  <2>0. /\ fd'[q] = fd[q] /\ at'[q] = at[q] /\ job'[q] = job[q] /\ name'[q] = name[q]
        /\ c'[q] = c[q] /\ w'[q] = w[q] /\ got'[q] = got[q] /\ grp'[q] = g
        /\ g \in Group /\ Users(g) # {}
    BY <1>1, <1>2, <2>s DEF OthersKeep
  <2>1. at'[q] = "dev" /\ Head(name'[q]) # ".." => ShowsIn(grp[q], w[q])'
    <3>s. SUFFICES ASSUME NEW x, x = w[q], at[q] = "dev", Head(name[q]) # ".."
                   PROVE  ShowsIn(g, x)'
      BY <2>0
    <3>1. x \in Chan /\ Own(q, x) > 0
      BY <3>s, OwnsThem DEF CallInv, Calling, HasWalk
    <3>2. SameFields(x)
      BY <3>1
    <3>3. ShowsIn(g, x)
      BY <1>1, <2>s, <3>s DEF Showing
    <3> QED
      BY <1>3, <2>0, <3>1, <3>2, <3>3, <3>s
  <2>2. ASSUME NEW i \in 1..Len(got[q])
        PROVE  GotShows(q, i)'
    <3>s. SUFFICES ASSUME NEW x, x = got[q][i], NEW m, m = ch.of[x].mnt, NEW y, y = To(m),
                          Names(job[q])[i][2] \in {"access", "open"}
                   PROVE  GotShows(q, i)'
      BY <2>0 DEF GotShows
    <3>1. x \in Chan /\ Own(q, x) > 0
      BY <3>s, OwnsThem
    <3>2. SameFields(x)
      BY <3>1
    <3>3. ShowsIn(g, x) /\ (m # Nil => FileOf(x) = FileOf(y))
      BY <1>1, <2>s, <3>s DEF Showing, GotShows
    <3>4. ShowsIn(g, x)' /\ (m # Nil => To(m)' = y /\ SameFields(y))
      <4>1. \E j \in 1..Len(got[q]) : x = got[q][j]
        BY <3>s
      <4> QED
        BY <1>3, <2>0, <3>1, <3>2, <3>3, <3>s, <4>1
    <3>5. ch'.of[x].mnt = m /\ ch'.of[x].file = FileOf(x)
      BY <3>2, <3>s DEF SameFields, FileOf
    <3>6. m # Nil => ch'.of[y].file = FileOf(x)
      BY <3>3, <3>4 DEF SameFields, FileOf
    <3>7. m # Nil => ch'.of[mount'[m].to].file = ch'.of[x].file
      BY <3>4, <3>5, <3>6 DEF To
    <3> QED
      BY <2>0, <3>4, <3>5, <3>7, <3>s DEF GotShows, FileOf, To
  <2>3. FdShows(q)'
    BY <1>4
  <2> QED
    BY <2>0, <2>1, <2>2, <2>3 DEF Showing
<1> QED
  BY <1>4, <1>5

(* A step of p that changes the tables and ends its call or copies. *)
LEMMA TableStep ==
  ASSUME IndInv, TypeOK', NEW p \in Proc, OthersKeep(p), fd' = fd, w' = w,
         at[p] \notin HasWalk, at'[p] \in {"idle", "copied"}, got'[p] = <<>>,
         FreeOK(ch'), ~ch'.panic,
         \A z \in Chan :
           /\ ch'.of[z].ref > 0 => ch'.of[z].file \in File
           /\ ch'.of[z].ref + InTables(z) + Own(p, z) = ch.of[z].ref + InTables(z)' + Own(p, z)'
           /\ ch.of[z].ref > 0 => SameFields(z)
           /\ z = fd[p] \/ (\E q \in Proc \ {p} : Own(q, z) > 0) => ~(ch'.of[z].ref > 1),
         \A q \in Proc \ {p} : grp'[q] = grp[q],
         \A g \in Group : Users(g) # {} => \A m \in Table(g) \cap Followed(p) :
           Users(g)' # {} /\ KeepsMount(g, m),
         ListInv', GroupInv', IdInv', CopyInv', BetweenInv', Calling(p)'
  PROVE  IndInv' /\ FilesKept
<1>1. RefsExact'
  BY TableRefs
<1>2. \A z : Own(p, z)' = (IF fd[p] = z THEN 1 ELSE 0)
  BY DEF Own, HasWalk
<1>3. Private'
  <2>1. ASSUME NEW q \in Proc, NEW z \in Chan, Own(q, z)' > 0
        PROVE  ~(ch'.of[z].ref > 1)
    <3>1. CASE q = p
      <4>1. z = fd[p]
        BY <1>2, <2>1, <3>1
      <4> QED
        BY <4>1
    <3>2. CASE q # p
      <4>1. q \in Proc \ {p} /\ Own(q, z) > 0
        BY <2>1, <3>2, OthersOwn
      <4> QED
        BY <4>1
    <3> QED
      BY <3>1, <3>2
  <2> QED
    BY <2>1, TablePrivate
<1>4. ChanInv'
  BY DEF ChanInv, FreeOK
<1>5. \A m \in Mount : mount[m].live => SameFields(To(m))
  BY TableChan DEF IndInv
<1>6. \A q \in Proc, z \in Chan : Own(q, z) > 0 => SameFields(z)
  BY OwnAlone DEF IndInv
<1>7. /\ \A q \in Proc : FdShows(q)'
      /\ \A q \in Proc \ {p} : Showing(q)'
  BY <1>5, <1>6, OthersShow
<1>8. Showing(p)'
  <2>1. Len(got'[p]) = 0 /\ at'[p] # "dev"
    BY DEF HasWalk
  <2> QED
    BY <1>7, <2>1 DEF Showing
<1>9. ShowsInv'
  BY <1>7, <1>8 DEF ShowsInv
<1>10. CallInv'
  <2>1. ASSUME NEW q \in Proc \ {p}
        PROVE  Calling(q)'
    <3>1. /\ fd'[q] = fd[q] /\ at'[q] = at[q] /\ job'[q] = job[q] /\ name'[q] = name[q]
          /\ c'[q] = c[q] /\ w'[q] = w[q] /\ got'[q] = got[q]
      BY DEF OthersKeep
    <3>2. Calling(q)
      BY DEF IndInv, CallInv
    <3> QED
      BY <3>1, <3>2 DEF Calling, HasWalk
  <2> QED
    BY <2>1 DEF CallInv
<1>11. FilesKept
  BY <1>5 DEF FilesKept, SameFields
<1> QED
  BY <1>1, <1>3, <1>4, <1>9, <1>10, <1>11 DEF IndInv

(* The end of a call. *)
LEMMA ReturnIs ==
  ASSUME IndInv, NEW p \in Proc, Return(p), fd' = fd, job' = job, name' = name, c' = c, w' = w
  PROVE  /\ OthersKeep(p) /\ at'[p] = "idle" /\ got'[p] = <<>> /\ Calling(p)'
         /\ at' \in [Proc -> Labels] /\ got' \in [Proc -> Seq(Chan)] /\ \A q \in Proc : Len(got'[q]) <= 2
<1>1. /\ at' = [at EXCEPT ![p] = "idle"] /\ got' = [got EXCEPT ![p] = <<>>]
      /\ at \in [Proc -> Labels] /\ got \in [Proc -> Seq(Chan)] /\ \A q \in Proc : Len(got[q]) <= 2
  BY DEF Return, IndInv, TypeOK
<1>2. at'[p] = "idle" /\ got'[p] = <<>> /\ \A q \in Proc \ {p} : at'[q] = at[q] /\ got'[q] = got[q]
  BY <1>1
<1>3. OthersKeep(p)
  BY <1>2 DEF OthersKeep
<1>4. "idle" \in Labels /\ <<>> \in Seq(Chan) /\ Len(<<>>) = 0
  BY DEF Labels
<1>5. \A q \in Proc : Len(got'[q]) <= 2
  <2>1. ASSUME NEW q \in Proc
        PROVE  Len(got'[q]) <= 2
    <3>1. CASE q = p
      BY <1>2, <1>4, <3>1
    <3>2. CASE q # p
      BY <1>1, <1>2, <3>2
    <3> QED
      BY <3>1, <3>2
  <2> QED
    BY <2>1
<1>6. Calling(p)'
  BY <1>2 DEF Calling, HasWalk
<1> QED
  BY <1>1, <1>2, <1>3, <1>4, <1>5, <1>6

LEMMA ChdirSetKeeps ==
  ASSUME IndInv, NEW p \in Proc, ChdirSet(p)
  PROVE  IndInv' /\ FilesKept
<1>s. SUFFICES ASSUME NEW g, g = grp[p], NEW y, y = got[p][1]
               PROVE  IndInv' /\ FilesKept
  OBVIOUS
<1>1. /\ at[p] = "setdot" /\ Return(p) /\ group' = [group EXCEPT ![g].dot = y]
      /\ mount' = mount /\ head' = head /\ ch' = ch /\ mountid' = mountid
      /\ grp' = grp /\ fd' = fd /\ job' = job /\ name' = name /\ c' = c /\ w' = w
      /\ fork' = fork /\ left' = left
  BY <1>s DEF ChdirSet, walking
<1>2. Calling(p) /\ Between(p) /\ TypeOK
  BY DEF IndInv, CallInv, BetweenInv
<1>3. Len(got[p]) = 1 /\ y \in Chan /\ g \in Group
  <2>1. Len(got[p]) = 1
    BY <1>1, <1>2 DEF Calling
  <2>2. 1 \in 1..Len(got[p])
    BY <2>1
  <2> QED
    BY <1>2, <1>s, <2>1, <2>2, OwnsThem DEF TypeOK
<1>4. /\ OthersKeep(p) /\ at'[p] = "idle" /\ got'[p] = <<>> /\ Calling(p)'
      /\ at' \in [Proc -> Labels] /\ got' \in [Proc -> Seq(Chan)] /\ \A q \in Proc : Len(got'[q]) <= 2
  BY <1>1, ReturnIs
<1>5. /\ group' \in [Group -> [ref : Nat, slash : Chan \cup {Nil}, dot : Chan \cup {Nil}]]
      /\ \A h \in Group : /\ group'[h].ref = group[h].ref /\ group'[h].slash = group[h].slash
                          /\ group'[h].dot = IF h = g THEN y ELSE group[h].dot
  <2> DEFINE r == [group[g] EXCEPT !.dot = y]
             R == [ref : Nat, slash : Chan \cup {Nil}, dot : Chan \cup {Nil}]
  <2>1. group \in [Group -> R] /\ group[g] \in R
    BY <1>2, <1>3 DEF TypeOK
  <2>2. r \in R /\ r.ref = group[g].ref /\ r.slash = group[g].slash /\ r.dot = y
    BY <1>3, <2>1
  <2>3. group' = [group EXCEPT ![g] = r]
    BY <1>1
  <2> HIDE DEF r, R
  <2>4. group' \in [Group -> R] /\ group'[g] = r /\ \A h \in Group : h # g => group'[h] = group[h]
    BY <1>3, <2>1, <2>2, <2>3
  <2>5. ASSUME NEW h \in Group
        PROVE  /\ group'[h].ref = group[h].ref /\ group'[h].slash = group[h].slash
               /\ group'[h].dot = IF h = g THEN y ELSE group[h].dot
    <3>1. CASE h = g
      BY <2>2, <2>4, <3>1
    <3>2. CASE h # g
      BY <2>4, <3>2
    <3> QED
      BY <3>1, <3>2
  <2> QED
    BY <2>4, <2>5 DEF R
<1>6. TypeOK'
  <2>1. job' = [q \in Proc |-> job'[q]]
    BY <1>1, <1>2 DEF TypeOK
  <2> QED
    BY <1>1, <1>2, <1>4, <1>5, <2>1 DEF TypeOK
<1>7. /\ \A h \in Group : Users(h)' = Users(h) /\ Grows(h)' = Grows(h) /\ Table(h)' = Table(h)
      /\ \A m \in Mount : To(m)' = To(m)
      /\ ListInv' /\ IdInv' /\ CopyInv'
  <2>1. \A q \in Proc : at'[q] = "copied" <=> at[q] = "copied"
    BY <1>1, <1>4 DEF OthersKeep
  <2> QED
    BY <1>1, <1>2, <2>1, TablesKeep DEF IndInv
<1>8. GroupInv'
  <2>1. GroupInv
    BY DEF IndInv
  <2>2. Users(g) # {}
    BY <1>s DEF Users
  <2>3. \A h \in Group :
       /\ group'[h].ref = Cardinality(Users(h)') + IF Grows(h)' THEN 1 ELSE 0
       /\ Users(h)' # {} => group'[h].slash \in Chan /\ group'[h].dot \in Chan
       /\ Users(h)' = {} => group'[h].slash = Nil /\ group'[h].dot = Nil
       /\ Users(h)' = {} /\ ~Grows(h)' => \A d \in File : head'[h][d] = NoHead
    BY <1>1, <1>3, <1>5, <1>7, <2>1, <2>2 DEF GroupInv
  <2>4. \A q \in Proc : at'[q] = "copied" => at[q] = "copied"
    BY <1>4 DEF OthersKeep
  <2>5. \A q \in Proc : fork[q].to \in Group
    BY <1>2 DEF TypeOK
  <2>6. \A q \in Proc : at'[q] = "copied" =>
       /\ Users(fork[q].to)' = {}
       /\ \A r \in Proc \ {q} : at'[r] = "copied" => fork'[r].to # fork'[q].to
    BY <1>1, <1>7, <2>1, <2>4, <2>5 DEF GroupInv
  <2> QED
    BY <2>3, <2>6 DEF GroupInv
<1>9. BetweenInv'
  <2>1. ASSUME NEW q \in Proc
        PROVE  Between(q)'
    <3>1. Between(q)
      BY DEF IndInv, BetweenInv
    <3>2. \A r \in Proc : at'[r] = at[r] \/ at'[r] = "idle"
      BY <1>4 DEF OthersKeep
    <3> QED
      BY <1>1, <3>1, <3>2 DEF Between
  <2> QED
    BY <2>1 DEF BetweenInv
<1>10. \A z \in Chan : Own(p, z) = Own(p, z)' + (IF z = y THEN 1 ELSE 0) /\ Own(p, z)' \in Nat
  BY <1>1, <1>3, <1>4, <1>s DEF Own, HasWalk
<1>11. ASSUME NEW z \in Chan
       PROVE  InTables(z)' = InTables(z) + (IF z = y THEN 1 ELSE 0) /\ InTables(z) \in Nat
  <2> DEFINE D == DotsOf(z)
             E == DotsOf(z)'
             rest == Cardinality(MountsTo(z)) + Cardinality(HeadsOf(z)) + Cardinality(SlashesOf(z))
  <2>1. MountsTo(z)' = MountsTo(z) /\ HeadsOf(z)' = HeadsOf(z) /\ SlashesOf(z)' = SlashesOf(z)
    BY <1>1, <1>5 DEF MountsTo, HeadsOf, SlashesOf, To
  <2>2. rest \in Nat /\ IsFiniteSet(D) /\ InTables(z) = rest + Cardinality(D)
    BY <1>2, RefsType, RefsFinite DEF InTables
  <2>3. InTables(z)' = rest + Cardinality(E)
    BY <2>1 DEF InTables
  <2>4. D \ {g} = E \ {g}
    <3>1. ASSUME NEW h \in Group, h # g
          PROVE  h \in D <=> h \in E
      <4>1. \A q \in Proc : grp[q] = h => at'[q] = at[q]
        BY <1>4, <1>s, <3>1 DEF OthersKeep
      <4>2. group'[h].dot = group[h].dot
        BY <1>5, <3>1
      <4> QED
        BY <1>1, <4>1, <4>2 DEF DotsOf
    <3>2. D \subseteq Group /\ E \subseteq Group
      BY DEF DotsOf
    <3> HIDE DEF D, E
    <3> QED
      BY <3>1, <3>2
  <2>5. g \notin D
    BY <1>1, <1>s DEF DotsOf
  <2>6. g \in E <=> z = y
    <3>1. \A q \in Proc : grp[q] = g => at'[q] # "setdot"
      BY <1>1, <1>2, <1>4, <1>s DEF Between, OthersKeep
    <3> QED
      BY <1>1, <1>3, <1>5, <3>1 DEF DotsOf
  <2> HIDE DEF D, E, rest
  <2>7. /\ Cardinality(D) \in Nat /\ Cardinality(E) \in Nat
        /\ Cardinality(E) + (IF g \in D THEN 1 ELSE 0) = Cardinality(D) + (IF g \in E THEN 1 ELSE 0)
    BY <2>2, <2>4, OneDiffers
  <2> QED
    BY <2>2, <2>3, <2>5, <2>6, <2>7
<1>12. ASSUME NEW z \in Chan
       PROVE  /\ ch'.of[z].ref > 0 => ch'.of[z].file \in File
              /\ ch'.of[z].ref + InTables(z) + Own(p, z) = ch.of[z].ref + InTables(z)' + Own(p, z)'
              /\ ch.of[z].ref > 0 => SameFields(z)
              /\ z = fd[p] \/ (\E q \in Proc \ {p} : Own(q, z) > 0) => ~(ch'.of[z].ref > 1)
  <2>1. ch'.of[z].ref > 0 => ch'.of[z].file \in File
    BY <1>1, Channels
  <2>2. ch'.of[z].ref + InTables(z) + Own(p, z) = ch.of[z].ref + InTables(z)' + Own(p, z)'
    <3> DEFINE k == ch.of[z].ref
               a == InTables(z)
               aa == InTables(z)'
               o == Own(p, z)
               oo == Own(p, z)'
    <3>1. k \in Nat /\ ch'.of[z].ref = k
      BY <1>1, <1>2 DEF TypeOK
    <3>2. aa = a + (IF z = y THEN 1 ELSE 0) /\ o = oo + (IF z = y THEN 1 ELSE 0) /\ a \in Nat /\ oo \in Nat
      BY <1>10, <1>11
    <3> HIDE DEF k, a, aa, o, oo
    <3>3. k + a + o = k + aa + oo
      BY <3>1, <3>2
    <3> QED
      BY <3>1, <3>3 DEF k, a, aa, o, oo
  <2>3. SameFields(z)
    BY <1>1 DEF SameFields
  <2>4. z = fd[p] => Own(p, z) > 0
    BY <1>2, <2>1, OwnsThem, NameSpaceAssumption DEF Chan, Nil
  <2>5. \A q \in Proc : Own(q, z) > 0 => ~(ch.of[z].ref > 1)
    BY <1>2, OwnAlone DEF IndInv
  <2> QED
    BY <1>1, <2>1, <2>2, <2>3, <2>4, <2>5
<1>13. \A h \in Group : Users(h) # {} => \A m \in Table(h) \cap Followed(p) :
         Users(h)' # {} /\ KeepsMount(h, m)
  <2>1. \A h \in Group : \A m \in Table(h) : m \in Mount
    BY <1>2, TableLive DEF IndInv, Table
  <2> QED
    BY <1>1, <1>7, <2>1 DEF KeepsMount
<1>14. FreeOK(ch') /\ ~ch'.panic
  BY <1>1, Channels
<1>15. at[p] \notin HasWalk /\ at'[p] \in {"idle", "copied"} /\ \A q \in Proc \ {p} : grp'[q] = grp[q]
  BY <1>1, <1>4 DEF HasWalk
<1> QED
  BY <1>1, <1>4, <1>6, <1>7, <1>8, <1>9, <1>12, <1>13, <1>14, <1>15, TableStep

(* A list stays as long as its mounts are linked as before. *)
LEMMA SameList ==
  ASSUME NEW mt, NEW mu, \A x \in Mount : mu[x].next \in Mount \cup {Nil},
         NEW ms, NEW m, IsList(mt, ms, m), \A x \in ToSet(ms) : mu[x].next = mt[x].next
  PROVE  IsList(mu, ms, m) /\ ListIn(mu, m) = ms
<1>1. ms \in Seq(Mount) /\ \A i \in 1..Len(ms) : ms[i] \in ToSet(ms)
  <2>1. ms \in Seq(Mount)
    BY DEF IsList
  <2>2. DOMAIN ms = 1..Len(ms)
    BY <2>1
  <2> QED
    BY <2>1, <2>2 DEF ToSet
<1>2. IsList(mu, ms, m)
  BY <1>1 DEF IsList
<1> QED
  BY <1>2, ListIs

(* The list of d in g is now chain, and the others are left alone. *)
Edited(g, d, chain) ==
  /\ \A h \in Group, e \in File : h # g \/ e # d => head'[h][e] = head[h][e]
  /\ IsList(mount', chain, head'[g][d].mount)
  /\ head'[g][d].from = Nil <=> head'[g][d].mount = Nil
  /\ \A m \in ToSet(chain) : mount'[m].live /\ (mount[m].live => m \in MountsOn(g, d))
  /\ \A m \in Mount : mount[m].live /\ m \notin MountsOn(g, d) =>
       mount'[m].live /\ mount'[m].next = mount[m].next
  /\ \A m \in Mount : mount[m].live /\ (m \notin MountsOn(g, d) \/ m \in ToSet(chain)) =>
       mount'[m].mountid = mount[m].mountid /\ To(m)' = To(m) /\ mount'[m].copy = mount[m].copy
  /\ \A m \in Mount : mount'[m].live => To(m)' \in Chan

LEMMA EditLists ==
  ASSUME TypeOK, TypeOK', ListInv, NEW g \in Group, NEW d \in File, NEW chain, Edited(g, d, chain)
  PROVE  /\ ListInv'
         /\ List(g, d)' = chain /\ MountsOn(g, d)' = ToSet(chain)
         /\ \A h \in Group, e \in File : h # g \/ e # d =>
              List(h, e)' = List(h, e) /\ MountsOn(h, e)' = MountsOn(h, e)
         /\ \A h \in Group : h # g => Table(h)' = Table(h)
         /\ Table(g)' = (Table(g) \ MountsOn(g, d)) \cup ToSet(chain)
         /\ \A h \in Group : \A m \in Table(h) : m \in Mount /\ mount[m].live /\ (h # g => m \notin MountsOn(g, d))
<1>1. \A x \in Mount : mount'[x].next \in Mount \cup {Nil}
  BY DEF TypeOK
<1>2. \A h \in Group, e \in File : \A m \in MountsOn(h, e) : m \in Mount /\ mount[m].live
  BY TableLive
<1>3. \A h \in Group, e \in File : h # g \/ e # d => MountsOn(h, e) \cap MountsOn(g, d) = {}
  BY DEF ListInv
<1>4. ASSUME NEW h \in Group, NEW e \in File, h # g \/ e # d
      PROVE  /\ List(h, e)' = List(h, e) /\ MountsOn(h, e)' = MountsOn(h, e)
             /\ IsList(mount', List(h, e), head'[h][e].mount)
             /\ \A m \in MountsOn(h, e) : mount'[m].live
             /\ head'[h][e] = head[h][e]
  <2> DEFINE ms == List(h, e)
             m == head[h][e].mount
             mt == mount
             mu == mount'
  <2>1. head'[h][e] = head[h][e]
    BY <1>4 DEF Edited
  <2>2. IsList(mt, ms, m)
    BY DEF ListInv
  <2>3. \A x \in ToSet(ms) : x \in Mount /\ mount[x].live /\ x \notin MountsOn(g, d)
    BY <1>2, <1>3, <1>4 DEF MountsOn
  <2>4. \A x \in ToSet(ms) : mu[x].next = mt[x].next /\ mu[x].live
    BY <2>3 DEF Edited
  <2>5. \A x \in Mount : mu[x].next \in Mount \cup {Nil}
    BY <1>1
  <2>6. List(h, e)' = ListIn(mu, m)
    BY <2>1 DEF List, ListFrom
  <2> HIDE DEF ms, m, mt, mu
  <2>7. IsList(mu, ms, m) /\ ListIn(mu, m) = ms
    BY <2>2, <2>4, <2>5, SameList
  <2>8. List(h, e)' = List(h, e)
    BY <2>6, <2>7 DEF ms
  <2>9. MountsOn(h, e)' = MountsOn(h, e)
    BY <2>8 DEF MountsOn
  <2> QED
    BY <2>1, <2>4, <2>7, <2>8, <2>9 DEF ms, m, mu, MountsOn
<1>5. List(g, d)' = chain /\ MountsOn(g, d)' = ToSet(chain)
  <2> DEFINE m == head'[g][d].mount
             mu == mount'
  <2>1. IsList(mu, chain, m) /\ \A x \in Mount : mu[x].next \in Mount \cup {Nil}
    BY <1>1 DEF Edited
  <2>2. List(g, d)' = ListIn(mu, m)
    BY DEF List, ListFrom
  <2> HIDE DEF m, mu
  <2>3. ListIn(mu, m) = chain
    BY <2>1, ListIs
  <2> QED
    BY <2>2, <2>3 DEF MountsOn
<1>6. \A h \in Group, e \in File :
       /\ IsList(mount', List(h, e)', head'[h][e].mount)
       /\ head'[h][e].from = Nil <=> head'[h][e].mount = Nil
       /\ \A m \in MountsOn(h, e)' : mount'[m].live
  <2>1. ASSUME NEW h \in Group, NEW e \in File
        PROVE  /\ IsList(mount', List(h, e)', head'[h][e].mount)
               /\ head'[h][e].from = Nil <=> head'[h][e].mount = Nil
               /\ \A m \in MountsOn(h, e)' : mount'[m].live
    <3>1. CASE h = g /\ e = d
      BY <1>5, <3>1 DEF Edited
    <3>2. CASE h # g \/ e # d
      BY <1>4, <3>2 DEF ListInv
    <3> QED
      BY <3>1, <3>2
  <2> QED
    BY <2>1
<1>7. ASSUME NEW h \in Group, NEW e \in File, h # g \/ e # d
      PROVE  MountsOn(h, e) \cap ToSet(chain) = {}
  BY <1>2, <1>3, <1>7 DEF Edited
<1>8. \A h, i \in Group, e, f \in File : h # i \/ e # f => MountsOn(h, e)' \cap MountsOn(i, f)' = {}
  <2>1. ASSUME NEW h \in Group, NEW i \in Group, NEW e \in File, NEW f \in File, h # i \/ e # f
        PROVE  MountsOn(h, e)' \cap MountsOn(i, f)' = {}
    <3>1. CASE (h # g \/ e # d) /\ (i # g \/ f # d)
      BY <1>4, <2>1, <3>1 DEF ListInv
    <3>2. CASE h = g /\ e = d
      BY <1>4, <1>5, <1>7, <2>1, <3>2
    <3>3. CASE i = g /\ f = d
      BY <1>4, <1>5, <1>7, <2>1, <3>3
    <3> QED
      BY <3>1, <3>2, <3>3
  <2> QED
    BY <2>1
<1>9. \A m \in Mount : mount'[m].live => To(m)' \in Chan
  BY DEF Edited
<1>10. ListInv'
  BY <1>6, <1>8, <1>9 DEF ListInv
<1>11. ASSUME NEW h \in Group, h # g
       PROVE  Table(h)' = Table(h)
  BY <1>4, <1>11 DEF Table
<1>12. Table(g)' = (Table(g) \ MountsOn(g, d)) \cup ToSet(chain)
  <2>1. \A m : m \in Table(g)' <=> \E e \in File : m \in MountsOn(g, e)'
    BY DEF Table
  <2>2. \A m : m \in Table(g) <=> \E e \in File : m \in MountsOn(g, e)
    BY DEF Table
  <2>3. \A m : m \in Table(g)' <=> m \in ToSet(chain) \/ \E e \in File : e # d /\ m \in MountsOn(g, e)
    BY <2>1, <1>4, <1>5
  <2>4. \A m : m \in Table(g) \ MountsOn(g, d) <=> \E e \in File : e # d /\ m \in MountsOn(g, e)
    BY <2>2, <1>3
  <2> QED
    BY <2>3, <2>4
<1>13. \A h \in Group : \A m \in Table(h) : m \in Mount /\ mount[m].live /\ (h # g => m \notin MountsOn(g, d))
  BY <1>2, <1>3 DEF Table
<1>14. \A h \in Group, e \in File : h # g \/ e # d =>
              List(h, e)' = List(h, e) /\ MountsOn(h, e)' = MountsOn(h, e)
  BY <1>4
<1> QED
  BY <1>5, <1>10, <1>11, <1>12, <1>13, <1>14

(* What is left of the invariant after that. *)
LEMMA EditKeeps ==
  ASSUME IndInv, TypeOK', NEW p \in Proc, NEW g \in Group, NEW d \in File, NEW chain,
         Edited(g, d, chain), g = grp[p], Reading(g) = {},
         OthersKeep(p), at[p] = "op", at'[p] = "idle", grp' = grp, fork' = fork, group' = group,
         mountid <= mountid',
         \A m \in ToSet(chain) : /\ mount'[m].mountid <= mountid'
                                 /\ \A n \in Table(g)' : n # m => mount'[n].mountid # mount'[m].mountid
  PROVE  /\ ListInv' /\ GroupInv' /\ IdInv' /\ CopyInv' /\ BetweenInv'
         /\ \A h \in Group : Users(h) # {} =>
              Users(h)' # {} /\ \A m \in Table(h) : m \notin MountsOn(g, d) \/ m \in ToSet(chain) => KeepsMount(h, m)
<1> USE DEF IndInv
<1>1. /\ ListInv'
      /\ \A h \in Group, e \in File : h # g \/ e # d =>
              List(h, e)' = List(h, e) /\ MountsOn(h, e)' = MountsOn(h, e)
      /\ \A h \in Group : h # g => Table(h)' = Table(h)
      /\ Table(g)' = (Table(g) \ MountsOn(g, d)) \cup ToSet(chain)
      /\ \A h \in Group : \A m \in Table(h) : m \in Mount /\ mount[m].live /\ (h # g => m \notin MountsOn(g, d))
  BY EditLists
<1>2. \A q \in Proc : at'[q] = "copied" <=> at[q] = "copied"
  BY DEF OthersKeep
<1>3. \A h \in Group : Users(h)' = Users(h) /\ Grows(h)' = Grows(h)
  BY <1>2 DEF Users, Grows
<1>4. \A q \in Proc : fork[q].to \in Group /\ grp[q] \in Group
  BY DEF TypeOK
<1>5. Users(g) # {}
  BY DEF Users
<1>6. \A h \in Group : \A m \in Table(h) : m \notin MountsOn(g, d) \/ m \in ToSet(chain) =>
         mount'[m].mountid = mount[m].mountid /\ To(m)' = To(m) /\ mount'[m].copy = mount[m].copy
  BY <1>1 DEF Edited
<1>7. GroupInv'
  <2>1. GroupInv
    OBVIOUS
  <2>2. \A h \in Group : h # g => \A e \in File : head'[h][e] = head[h][e]
    BY DEF Edited
  <2>3. \A h \in Group :
       /\ group'[h].ref = Cardinality(Users(h)') + IF Grows(h)' THEN 1 ELSE 0
       /\ Users(h)' # {} => group'[h].slash \in Chan /\ group'[h].dot \in Chan
       /\ Users(h)' = {} => group'[h].slash = Nil /\ group'[h].dot = Nil
       /\ Users(h)' = {} /\ ~Grows(h)' => \A e \in File : head'[h][e] = NoHead
    BY <1>3, <1>5, <2>1, <2>2 DEF GroupInv
  <2>4. \A q \in Proc : at'[q] = "copied" =>
       /\ Users(fork[q].to)' = {}
       /\ \A r \in Proc \ {q} : at'[r] = "copied" => fork'[r].to # fork'[q].to
    BY <1>2, <1>3, <1>4, <2>1 DEF GroupInv
  <2> QED
    BY <2>3, <2>4 DEF GroupInv
<1>8. IdInv'
  <2>1. ASSUME NEW h \in Group, Users(h) # {}, NEW m \in Table(h)', NEW n \in Table(h)'
        PROVE  mount'[m].mountid <= mountid' /\ (m # n => mount'[m].mountid # mount'[n].mountid)
    <3>0. \A k \in Table(h) : mount[k].mountid <= mountid /\ \A j \in Table(h) : j # k => mount[k].mountid # mount[j].mountid
      BY <2>1 DEF IdInv
    <3>1. mountid \in Nat /\ mountid' \in Nat /\ \A k \in Mount : mount[k].mountid \in Nat
      BY DEF TypeOK
    <3>2. CASE h # g
      <4>1. /\ m \in Table(h) /\ n \in Table(h) /\ m \notin MountsOn(g, d) /\ n \notin MountsOn(g, d)
            /\ m \in Mount
        BY <1>1, <2>1, <3>2
      <4>2. mount'[m].mountid = mount[m].mountid /\ mount'[n].mountid = mount[n].mountid
        BY <1>6, <4>1
      <4>3. mount[m].mountid <= mountid /\ (m # n => mount[m].mountid # mount[n].mountid)
        BY <3>0, <4>1
      <4> QED
        BY <3>1, <4>1, <4>2, <4>3
    <3>3. CASE h = g /\ (m \in ToSet(chain) \/ n \in ToSet(chain))
      <4>1. CASE m \in ToSet(chain)
        BY <2>1, <3>3, <4>1
      <4>2. CASE n \in ToSet(chain) /\ m \notin ToSet(chain)
        <5>1. m \in Table(g) /\ m \notin MountsOn(g, d) /\ m \in Mount
          BY <1>1, <2>1, <3>3, <4>2
        <5>2. mount'[m].mountid = mount[m].mountid /\ mount[m].mountid <= mountid
          BY <1>6, <3>0, <3>3, <5>1
        <5>3. m # n => mount'[m].mountid # mount'[n].mountid
          BY <2>1, <3>3, <4>2
        <5> QED
          BY <3>1, <5>1, <5>2, <5>3
      <4> QED
        BY <3>3, <4>1, <4>2
    <3>4. CASE h = g /\ m \notin ToSet(chain) /\ n \notin ToSet(chain)
      <4>1. /\ m \in Table(h) /\ n \in Table(h) /\ m \notin MountsOn(g, d) /\ n \notin MountsOn(g, d)
            /\ m \in Mount
        BY <1>1, <2>1, <3>4
      <4>2. mount'[m].mountid = mount[m].mountid /\ mount'[n].mountid = mount[n].mountid
        BY <1>6, <4>1
      <4>3. mount[m].mountid <= mountid /\ (m # n => mount[m].mountid # mount[n].mountid)
        BY <3>0, <4>1
      <4> QED
        BY <3>1, <4>1, <4>2, <4>3
    <3> QED
      BY <3>2, <3>3, <3>4
  <2> QED
    BY <1>3, <2>1 DEF IdInv
<1>9. CopyInv'
  <2>1. ASSUME NEW q \in Proc, at[q] = "copied"
        PROVE  /\ \A e \in File :
                    /\ Len(List(fork[q].to, e)') = Len(List(grp[q], e)')
                    /\ \A i \in 1..Len(List(grp[q], e)') :
                         List(fork[q].to, e)'[i] = mount'[List(grp[q], e)'[i]].copy
               /\ ToSet(fork[q].order) = Table(grp[q])'
               /\ \A i, j \in 1..Len(fork[q].order) : i < j =>
                    mount'[fork[q].order[i]].mountid < mount'[fork[q].order[j]].mountid
    <3>s. SUFFICES ASSUME NEW h, h = fork[q].to, NEW k, k = grp[q], NEW o, o = fork[q].order
                   PROVE  /\ \A e \in File :
                              /\ Len(List(h, e)') = Len(List(k, e)')
                              /\ \A i \in 1..Len(List(k, e)') : List(h, e)'[i] = mount'[List(k, e)'[i]].copy
                          /\ ToSet(o) = Table(k)'
                          /\ \A i, j \in 1..Len(o) : i < j => mount'[o[i]].mountid < mount'[o[j]].mountid
      OBVIOUS
    <3>1. k # g /\ k \in Group /\ h \in Group
      BY <1>4, <2>1, <3>s DEF Reading
    <3>2. h # g
      BY <1>5, <2>1, <3>s DEF GroupInv
    <3>3. Copying(q)
      BY DEF CopyInv
    <3>4. /\ \A e \in File :
              /\ Len(List(h, e)) = Len(List(k, e))
              /\ \A i \in 1..Len(List(k, e)) : List(h, e)[i] = mount[List(k, e)[i]].copy
          /\ ToSet(o) = Table(k)
          /\ \A i, j \in 1..Len(o) : i < j => mount[o[i]].mountid < mount[o[j]].mountid
      BY <2>1, <3>3, <3>s DEF Copying
    <3>5. /\ \A e \in File : List(h, e)' = List(h, e) /\ List(k, e)' = List(k, e)
          /\ Table(k)' = Table(k)
      BY <1>1, <3>1, <3>2
    <3>6. \A m \in Table(k) : mount'[m].mountid = mount[m].mountid /\ mount'[m].copy = mount[m].copy
      BY <1>1, <1>6, <3>1
    <3>7. \A e \in File : \A i \in 1..Len(List(k, e)) : List(k, e)[i] \in Table(k)
      <4>1. ASSUME NEW e \in File, NEW i \in 1..Len(List(k, e))
            PROVE  List(k, e)[i] \in Table(k)
        <5>1. List(k, e) \in Seq(Mount)
          BY <3>1, TableLive
        <5>2. List(k, e)[i] \in MountsOn(k, e)
          BY <5>1 DEF MountsOn, ToSet
        <5> QED
          BY <5>2 DEF Table
      <4> QED
        BY <4>1
    <3>8. \A i \in 1..Len(o) : o[i] \in Table(k)
      <4>1. o \in Seq(Mount)
        BY <3>s DEF TypeOK
      <4>2. \A i \in 1..Len(o) : o[i] \in ToSet(o)
        BY <4>1 DEF ToSet
      <4> QED
        BY <3>4, <4>2
    <3>9. /\ \A e \in File :
              /\ Len(List(h, e)') = Len(List(k, e)')
              /\ \A i \in 1..Len(List(k, e)') : List(h, e)'[i] = mount'[List(k, e)'[i]].copy
      BY <3>4, <3>5, <3>6, <3>7
    <3>10. \A i, j \in 1..Len(o) : i < j => mount'[o[i]].mountid < mount'[o[j]].mountid
      BY <3>4, <3>6, <3>8
    <3> QED
      BY <3>4, <3>5, <3>9, <3>10
  <2>2. ASSUME NEW q \in Proc
        PROVE  Copying(q)'
    <3>1. at'[q] = "copied" <=> at[q] = "copied"
      BY <1>2
    <3> QED
      BY <2>1, <3>1 DEF Copying
  <2> QED
    BY <2>2 DEF CopyInv
<1>10. BetweenInv'
  <2>1. ASSUME NEW q \in Proc
        PROVE  Between(q)'
    <3>1. Between(q)
      BY DEF BetweenInv
    <3>2. \A r \in Proc : at'[r] = at[r] \/ at'[r] = "idle"
      BY DEF OthersKeep
    <3>3. at[q] \in {"unclone", "unclone2"} => grp[q] # g
      BY DEF Reading
    <3>4. at'[q] \in {"unclone", "unclone2"} => w'[q] = w[q] /\ at'[q] = at[q]
      BY DEF OthersKeep
    <3>5. at'[q] \in {"unclone", "unclone2"} => \E e \in File : head'[grp[q]][e].from = w'[q]
      BY <1>4, <3>1, <3>3, <3>4 DEF Between, Edited
    <3> QED
      BY <3>1, <3>2, <3>5 DEF Between
  <2> QED
    BY <2>1 DEF BetweenInv
<1>11. ASSUME NEW h \in Group, NEW m \in Table(h), m \notin MountsOn(g, d) \/ m \in ToSet(chain)
       PROVE  KeepsMount(h, m)
  <2>1. m \in Table(h)'
    BY <1>1, <1>11
  <2> QED
    BY <1>6, <1>11, <2>1 DEF KeepsMount
<1> QED
  BY <1>1, <1>3, <1>7, <1>8, <1>9, <1>10, <1>11

-----------------------------------------------------------------------------
(* Mounts that are taken, linked and freed. *)

LEMMA SeqIs ==
  ASSUME NEW S, NEW s \in Seq(S)
  PROVE  /\ Len(s) \in Nat /\ DOMAIN s = 1..Len(s) /\ ToSet(s) = {s[i] : i \in 1..Len(s)}
         /\ \A i \in 1..Len(s) : s[i] \in S /\ s[i] \in ToSet(s)
         /\ \A x \in ToSet(s) : x \in S /\ \E i \in 1..Len(s) : s[i] = x
         /\ (s = <<>> <=> Len(s) = 0) /\ (s = <<>> <=> ToSet(s) = {})
         /\ IsInjective(s) <=> \A i, j \in 1..Len(s) : s[i] = s[j] => i = j
<1>1. Len(s) \in Nat /\ DOMAIN s = 1..Len(s)
  OBVIOUS
<1>2. ToSet(s) = {s[i] : i \in 1..Len(s)}
  BY <1>1 DEF ToSet
<1>3. \A i \in 1..Len(s) : s[i] \in S
  OBVIOUS
<1>4. s = <<>> <=> Len(s) = 0
  OBVIOUS
<1>5. s = <<>> <=> ToSet(s) = {}
  <2>1. s = <<>> => 1..Len(s) = {}
    BY <1>4
  <2>2. s # <<>> => 1 \in 1..Len(s)
    BY <1>1, <1>4
  <2> QED
    BY <1>2, <2>1, <2>2
<1>6. IsInjective(s) <=> \A i, j \in 1..Len(s) : s[i] = s[j] => i = j
  BY <1>1 DEF IsInjective
<1> QED
  BY <1>1, <1>2, <1>3, <1>4, <1>5, <1>6

LEMMA JoinIs ==
  ASSUME NEW S, NEW xs \in Seq(S), NEW ys \in Seq(S),
         IsInjective(xs), IsInjective(ys), ToSet(xs) \cap ToSet(ys) = {}
  PROVE  /\ xs \o ys \in Seq(S) /\ IsInjective(xs \o ys) /\ ToSet(xs \o ys) = ToSet(xs) \cup ToSet(ys)
         /\ Len(xs \o ys) = Len(xs) + Len(ys)
<1> DEFINE n == Len(xs)
           k == Len(ys)
           zs == xs \o ys
<1>1. n \in Nat /\ k \in Nat /\ zs \in Seq(S) /\ Len(zs) = n + k /\ ToSet(zs) = ToSet(xs) \cup ToSet(ys)
  BY CountConcat
<1>2. \A i \in 1..(n + k) : IF i \in 1..n THEN zs[i] = xs[i] /\ zs[i] \in ToSet(xs)
                            ELSE i - n \in 1..k /\ zs[i] = ys[i - n] /\ zs[i] \in ToSet(ys)
  <2>1. \A i \in 1..(n + k) : IF i \in 1..n THEN zs[i] = xs[i]
                              ELSE i - n \in 1..k /\ zs[i] = ys[i - n]
    OBVIOUS
  <2>2. (\A i \in 1..n : xs[i] \in ToSet(xs)) /\ \A i \in 1..k : ys[i] \in ToSet(ys)
    BY SeqIs
  <2> HIDE DEF n, k, zs
  <2> QED
    BY <2>1, <2>2
<1>3. (\A i, j \in 1..n : xs[i] = xs[j] => i = j) /\ \A i, j \in 1..k : ys[i] = ys[j] => i = j
  BY SeqIs
<1> HIDE DEF n, k, zs
<1>4. ASSUME NEW i \in 1..(n + k), NEW j \in 1..(n + k), zs[i] = zs[j]
      PROVE  i = j
  <2>1. CASE i \in 1..n /\ j \in 1..n
    BY <1>2, <1>3, <1>4, <2>1
  <2>2. CASE i \notin 1..n /\ j \notin 1..n
    <3>1. i - n = j - n /\ i \in Int /\ j \in Int
      BY <1>2, <1>3, <1>4, <2>2
    <3> QED
      BY <1>1, <3>1
  <2>3. CASE (i \in 1..n /\ j \notin 1..n) \/ (i \notin 1..n /\ j \in 1..n)
    <3>1. zs[i] \in ToSet(xs) \cap ToSet(ys)
      BY <1>2, <1>4, <2>3
    <3> QED
      BY <3>1
  <2> QED
    BY <2>1, <2>2, <2>3
<1>5. IsInjective(zs)
  BY <1>1, <1>4, SeqIs
<1> QED
  BY <1>1, <1>5 DEF zs, n, k

LEMMA InjIs ==
  ASSUME NEW S, NEW s \in Seq(S), NEW n, n = Len(s),
         \A i, j \in 1..n : s[i] = s[j] => i = j
  PROVE  IsInjective(s)
  BY SeqIs

(* u is a part of xs. *)
Part(u, xs, i, j) == Len(u) = j - i /\ \A k \in 1..(j - i) : u[k] = xs[i + k]

LEMMA PartIs ==
  ASSUME NEW S, NEW xs \in Seq(S), IsInjective(xs), NEW i \in 0..Len(xs), NEW j \in i..Len(xs),
         NEW u \in Seq(S), Part(u, xs, i, j)
  PROVE  IsInjective(u) /\ \A x : x \in ToSet(u) <=> \E k \in (i + 1)..j : x = xs[k]
<1> DEFINE n == Len(xs)
           l == j - i
<1>1. n \in Nat /\ \A k, m \in 1..n : xs[k] = xs[m] => k = m
  BY SeqIs
<1>2. l \in Nat /\ l = Len(u) /\ \A k \in 1..l : u[k] = xs[i + k]
  BY DEF Part
<1>3. (\A k \in 1..l : i + k \in 1..n /\ i + k \in (i + 1)..j) /\ \A k, m \in 1..l : i + k = i + m => k = m
  BY <1>1
<1>4. \A k \in (i + 1)..j : k - i \in 1..l /\ i + (k - i) = k
  BY <1>1
<1> HIDE DEF n, l
<1>5. IsInjective(u)
  <2>1. ASSUME NEW k \in 1..l, NEW m \in 1..l, u[k] = u[m]
        PROVE  k = m
    <3>1. xs[i + k] = xs[i + m] /\ i + k \in 1..n /\ i + m \in 1..n
      BY <1>2, <1>3, <2>1
    <3>2. i + k = i + m
      BY <1>1, <3>1
    <3> QED
      BY <1>3, <3>2
  <2> QED
    BY <1>2, <2>1, InjIs
<1>6. ASSUME NEW x
      PROVE  x \in ToSet(u) <=> \E k \in (i + 1)..j : x = xs[k]
  <2>1. x \in ToSet(u) <=> \E k \in 1..l : x = u[k]
    <3>1. ToSet(u) = {u[k] : k \in 1..Len(u)}
      BY SeqIs
    <3> QED
      BY <1>2, <3>1
  <2>2. ASSUME NEW k \in 1..l, x = u[k]
        PROVE  \E m \in (i + 1)..j : x = xs[m]
    <3>1. i + k \in (i + 1)..j /\ x = xs[i + k]
      BY <1>2, <1>3, <2>2
    <3> QED
      BY <3>1
  <2>3. ASSUME NEW m \in (i + 1)..j, x = xs[m]
        PROVE  \E k \in 1..l : x = u[k]
    <3>1. m - i \in 1..l /\ u[m - i] = xs[i + (m - i)] /\ i + (m - i) = m
      BY <1>2, <1>4
    <3> QED
      BY <2>3, <3>1
  <2> QED
    BY <2>1, <2>2, <2>3
<1> QED
  BY <1>5, <1>6

IsSub(u, xs, i, j) == u = SubSeq(xs, i, j)

LEMMA SubSeqIs ==
  ASSUME NEW S, NEW xs \in Seq(S), IsInjective(xs), NEW i \in 0..Len(xs), NEW j \in i..Len(xs),
         NEW u, IsSub(u, xs, i + 1, j)
  PROVE  u \in Seq(S) /\ Len(u) = j - i /\ IsInjective(u)
         /\ \A x : x \in ToSet(u) <=> \E k \in (i + 1)..j : x = xs[k]
<1>1. u \in Seq(S) /\ Len(u) = j - i /\ \A k \in 1..(j - i) : u[k] = xs[i + k]
  BY DEF IsSub
<1>2. Part(u, xs, i, j)
  BY <1>1 DEF Part
<1>3. IsInjective(u) /\ \A x : x \in ToSet(u) <=> \E k \in (i + 1)..j : x = xs[k]
  BY <1>1, <1>2, PartIs
<1> QED
  BY <1>1, <1>3

(* The start of a sequence. *)
LEMMA StartIs ==
  ASSUME NEW S, NEW xs \in Seq(S), IsInjective(xs), NEW i \in 0..Len(xs), NEW u, IsSub(u, xs, 1, i)
  PROVE  u \in Seq(S) /\ Len(u) = i /\ IsInjective(u)
         /\ \A x : x \in ToSet(u) <=> \E k \in 1..i : x = xs[k]
<1> DEFINE z == 0
<1>1. z \in 0..Len(xs) /\ i \in z..Len(xs) /\ z + 1 = 1 /\ i - z = i
  OBVIOUS
<1>2. IsSub(u, xs, z + 1, i)
  BY <1>1
<1> HIDE DEF z
<1>3. u \in Seq(S) /\ Len(u) = i - z /\ IsInjective(u)
      /\ \A x : x \in ToSet(u) <=> \E k \in (z + 1)..i : x = xs[k]
  BY <1>1, <1>2, SubSeqIs
<1> QED
  BY <1>1, <1>3

(* The end of a sequence. *)
LEMMA EndIs ==
  ASSUME NEW S, NEW xs \in Seq(S), IsInjective(xs), NEW j \in 0..Len(xs),
         NEW v, IsSub(v, xs, j + 1, Len(xs))
  PROVE  v \in Seq(S) /\ Len(v) = Len(xs) - j /\ IsInjective(v)
         /\ \A x : x \in ToSet(v) <=> \E k \in (j + 1)..Len(xs) : x = xs[k]
<1> DEFINE n == Len(xs)
<1>1. n \in j..Len(xs) /\ IsSub(v, xs, j + 1, n)
  OBVIOUS
<1> HIDE DEF n
<1>2. v \in Seq(S) /\ Len(v) = n - j /\ IsInjective(v)
      /\ \A x : x \in ToSet(v) <=> \E k \in (j + 1)..n : x = xs[k]
  BY <1>1, SubSeqIs
<1> QED
  BY <1>2 DEF n

LEMMA RemoveIs ==
  ASSUME NEW S, NEW xs \in Seq(S), IsInjective(xs), NEW k \in 1..Len(xs)
  PROVE  /\ RemoveAt(xs, k) \in Seq(S) /\ IsInjective(RemoveAt(xs, k))
         /\ ToSet(RemoveAt(xs, k)) = ToSet(xs) \ {xs[k]}
<1> DEFINE u == SubSeq(xs, 1, k - 1)
           v == SubSeq(xs, k + 1, Len(xs))
           n == Len(xs)
           i == k - 1
<1>1. i \in 0..n /\ k \in 0..n /\ n \in Nat
  OBVIOUS
<1>3. RemoveAt(xs, k) = u \o v
  BY DEF RemoveAt
<1>4. IsSub(u, xs, 1, i) /\ IsSub(v, xs, k + 1, Len(xs))
  BY DEF IsSub
<1>6. (\A x : x \in ToSet(xs) <=> \E l \in 1..n : x = xs[l]) /\ \A l, j \in 1..n : xs[l] = xs[j] => l = j
  BY SeqIs DEF n
<1>7. \A l \in 1..n : l # k => l \in 1..i \/ l \in (k + 1)..n
  BY <1>1
<1>8. (\A l \in 1..i : l \in 1..n /\ l # k /\ ~(l \in (k + 1)..n)) /\ (\A l \in (k + 1)..n : l \in 1..n /\ l # k) /\ k \in 1..n
  BY <1>1 DEF n
<1> HIDE DEF u, v, i
<1>2. u \in Seq(S) /\ IsInjective(u) /\ \A x : x \in ToSet(u) <=> \E l \in 1..i : x = xs[l]
  BY <1>1, <1>4, StartIs
<1>5. v \in Seq(S) /\ IsInjective(v) /\ \A x : x \in ToSet(v) <=> \E l \in (k + 1)..n : x = xs[l]
  BY <1>1, <1>4, EndIs
<1> HIDE DEF n
<1>11. ToSet(u) \cap ToSet(v) = {}
  <2>1. ASSUME NEW x \in ToSet(u), x \in ToSet(v)
        PROVE  FALSE
    <3>1. PICK l \in 1..i : x = xs[l]
      BY <1>2
    <3>2. PICK m \in (k + 1)..n : x = xs[m]
      BY <1>5, <2>1
    <3>3. l = m
      BY <1>6, <1>8, <3>1, <3>2
    <3> QED
      BY <1>8, <3>3
  <2> QED
    BY <2>1
<1>12. u \o v \in Seq(S) /\ IsInjective(u \o v) /\ ToSet(u \o v) = ToSet(u) \cup ToSet(v)
  BY <1>2, <1>5, <1>11, JoinIs
<1>9. \A x : x \in ToSet(xs) \ {xs[k]} => x \in ToSet(u) \cup ToSet(v)
  BY <1>2, <1>5, <1>6, <1>7
<1>10. \A x : x \in ToSet(u) \cup ToSet(v) => x \in ToSet(xs) \ {xs[k]}
  BY <1>2, <1>5, <1>6, <1>8
<1> QED
  BY <1>3, <1>12, <1>9, <1>10

(* The mounts of chain linked in that order, and those of gone freed. *)
LEMMA RelinkedIs ==
  ASSUME NEW mt \in MountsType, NEW chain \in Seq(Mount), IsInjective(chain), NEW gone \in Seq(Mount),
         NEW mu, mu = MountFree(Linked(mt, chain), gone)
  PROVE  /\ mu \in MountsType
         /\ \A m : m = (IF chain = <<>> THEN Nil ELSE chain[1]) => IsList(mu, chain, m)
         /\ \A m \in Mount :
              /\ mu[m].to = mt[m].to /\ mu[m].copy = mt[m].copy
              /\ m \notin ToSet(chain) => mu[m].next = mt[m].next
              /\ m \notin ToSet(gone) => mu[m].mountid = mt[m].mountid /\ mu[m].live = mt[m].live
              /\ m \in ToSet(gone) => ~mu[m].live
<1> DEFINE n == Len(chain)
           pos(m) == CHOOSE i \in 1..n : chain[i] = m
           follow(m) == IF pos(m) = n THEN Nil ELSE chain[pos(m) + 1]
           lk == Linked(mt, chain)
<1>1. /\ n \in Nat /\ (\A i \in 1..n : chain[i] \in Mount /\ chain[i] \in ToSet(chain))
      /\ (\A m \in ToSet(chain) : \E i \in 1..n : chain[i] = m)
      /\ \A i, j \in 1..n : chain[i] = chain[j] => i = j
  BY SeqIs
<1>2. \A i \in 1..n : pos(chain[i]) = i
  BY <1>1
<1>3. \A m \in ToSet(chain) : pos(m) \in 1..n /\ chain[pos(m)] = m
  BY <1>1
<1>4. lk = [m \in Mount |-> IF m \in ToSet(chain) THEN [mt[m] EXCEPT !.next = follow(m)] ELSE mt[m]]
  BY DEF Linked
<1> HIDE DEF pos, lk, n
<1>5. \A m \in ToSet(chain) : follow(m) \in Mount \cup {Nil}
  <2>1. ASSUME NEW m \in ToSet(chain)
        PROVE  follow(m) \in Mount \cup {Nil}
    <3>1. pos(m) # n => pos(m) + 1 \in 1..n
      BY <1>1, <1>3
    <3> QED
      BY <1>1, <3>1
  <2> QED
    BY <2>1
<1>6. \A i \in 1..n : follow(chain[i]) = IF i = n THEN Nil ELSE chain[i + 1]
  BY <1>2
<1> HIDE DEF follow
<1>7. ASSUME NEW m \in Mount
      PROVE  /\ lk[m].to = mt[m].to /\ lk[m].copy = mt[m].copy /\ lk[m].live = mt[m].live
             /\ lk[m].mountid = mt[m].mountid
             /\ lk[m].next = IF m \in ToSet(chain) THEN follow(m) ELSE mt[m].next
             /\ lk[m] \in [mountid : Nat, next : Mount \cup {Nil}, to : Chan \cup {Nil},
                           copy : Mount \cup {Nil}, live : BOOLEAN]
  <2>1. mt[m] \in [mountid : Nat, next : Mount \cup {Nil}, to : Chan \cup {Nil},
                   copy : Mount \cup {Nil}, live : BOOLEAN]
    BY DEF MountsType
  <2>2. CASE m \in ToSet(chain)
    <3>1. lk[m] = [mt[m] EXCEPT !.next = follow(m)]
      BY <1>4, <2>2
    <3> QED
      BY <1>5, <2>1, <2>2, <3>1
  <2>3. CASE m \notin ToSet(chain)
    <3>1. lk[m] = mt[m]
      BY <1>4, <2>3
    <3> QED
      BY <2>1, <2>3, <3>1
  <2> QED
    BY <2>2, <2>3
<1>8. mu = [m \in Mount |-> IF m \in ToSet(gone) THEN [lk[m] EXCEPT !.mountid = 0, !.live = FALSE] ELSE lk[m]]
  BY DEF MountFree, lk
<1>9. ASSUME NEW m \in Mount
      PROVE  /\ mu[m].to = mt[m].to /\ mu[m].copy = mt[m].copy
             /\ mu[m].next = IF m \in ToSet(chain) THEN follow(m) ELSE mt[m].next
             /\ m \notin ToSet(gone) => mu[m].mountid = mt[m].mountid /\ mu[m].live = mt[m].live
             /\ m \in ToSet(gone) => ~mu[m].live
             /\ mu[m] \in [mountid : Nat, next : Mount \cup {Nil}, to : Chan \cup {Nil},
                           copy : Mount \cup {Nil}, live : BOOLEAN]
  <2>2. CASE m \in ToSet(gone)
    <3> DEFINE r == lk[m]
               t == mu[m]
               R == [mountid : Nat, next : Mount \cup {Nil}, to : Chan \cup {Nil},
                     copy : Mount \cup {Nil}, live : BOOLEAN]
    <3>1. t = [r EXCEPT !.mountid = 0, !.live = FALSE]
      BY <1>8, <2>2
    <3>2. r \in R
      BY <1>7
    <3> HIDE DEF r, t
    <3>3. t \in R /\ t.to = r.to /\ t.copy = r.copy /\ t.next = r.next /\ ~t.live
      <4>1. r = [mountid |-> r.mountid, next |-> r.next, to |-> r.to, copy |-> r.copy, live |-> r.live]
            /\ r.next \in Mount \cup {Nil} /\ r.to \in Chan \cup {Nil} /\ r.copy \in Mount \cup {Nil}
        BY <3>2
      <4>2. t = [mountid |-> 0, next |-> r.next, to |-> r.to, copy |-> r.copy, live |-> FALSE]
        BY <3>1, <4>1
      <4> QED
        BY <4>1, <4>2
    <3> HIDE DEF R
    <3>4. mu[m] \in R
      BY <3>3 DEF t
    <3>5. mu[m].to = lk[m].to /\ mu[m].copy = lk[m].copy /\ mu[m].next = lk[m].next /\ ~mu[m].live
      BY <3>3 DEF t, r
    <3> QED
      BY <1>7, <2>2, <3>4, <3>5 DEF R
  <2>3. CASE m \notin ToSet(gone)
    <3>1. mu[m] = lk[m]
      BY <1>8, <2>3
    <3> QED
      BY <1>7, <2>3, <3>1
  <2> QED
    BY <2>2, <2>3
<1>10. mu \in MountsType
  BY <1>8, <1>9 DEF MountsType
<1>11. ASSUME NEW m, m = IF chain = <<>> THEN Nil ELSE chain[1]
       PROVE  IsList(mu, chain, m)
  <2>1. \A i \in 1..n : mu[chain[i]].next = IF i = n THEN Nil ELSE chain[i + 1]
    BY <1>1, <1>6, <1>9
  <2> QED
    BY <1>11, <2>1 DEF IsList, n
<1> QED
  BY <1>9, <1>10, <1>11

(* newmount finds as many as there are. *)
LEMMA FreshIs ==
  ASSUME NEW k \in Nat, EnoughMounts(k), TypeOK
  PROVE  /\ Fresh(k) \in Seq(Mount) /\ Len(Fresh(k)) = k /\ IsInjective(Fresh(k))
         /\ \A m \in ToSet(Fresh(k)) : m \in Mount /\ ~mount[m].live
<1> DEFINE below(m) == {x \in Unused : x < m}
           nth(i) == CHOOSE m \in Unused : Cardinality({x \in Unused : x < m}) = i - 1
           s == Fresh(k)
<1>1. IsFiniteSet(Unused) /\ Unused \subseteq Nat /\ Unused \subseteq Mount /\ Cardinality(Unused) >= k
      /\ Cardinality(Unused) \in Nat
  <2>1. IsFiniteSet(Mount) /\ Mount \subseteq Nat /\ Unused \in SUBSET Mount
    BY FS_Interval, NameSpaceAssumption DEF Mount, Unused
  <2>2. IsFiniteSet(Unused)
    BY <2>1, FS_Subset
  <2> QED
    BY <2>1, <2>2, FS_CardinalityType DEF EnoughMounts
<1>2. ASSUME NEW m \in Unused
      PROVE  IsFiniteSet(below(m)) /\ m \notin below(m) /\ below(m) \in SUBSET Unused
  <2>1. below(m) \in SUBSET Unused /\ m \notin below(m)
    BY <1>1
  <2> HIDE DEF below
  <2> QED
    BY <1>1, <2>1, FS_Subset
<1> DEFINE T == {i \in 0..k : i = k \/ \E m \in Unused : Cardinality(below(m)) = i}
<1>3. 0 \in T
  <2>0. 0 \in 0..k
    OBVIOUS
  <2>1. CASE k = 0
    BY <2>0, <2>1
  <2>2. CASE k # 0
    <3>1. Unused # {}
      BY <1>1, <2>2, FS_EmptySet
    <3>2. PICK m \in Unused : \A x \in Unused : m <= x
      BY <1>1, <3>1, LeastNat
    <3>3. below(m) = {}
      <4>1. \A x \in Unused : ~(x < m)
        BY <1>1, <3>2
      <4> QED
        BY <4>1
    <3>4. Cardinality(below(m)) = 0
      BY <3>3, FS_EmptySet
    <3>5. \E l \in Unused : Cardinality(below(l)) = 0
      BY <3>4
    <3> HIDE DEF below
    <3> QED
      BY <2>0, <3>5
  <2> QED
    BY <2>1, <2>2
<1>4. ASSUME NEW i \in 0..(k - 1), i \in T
      PROVE  i + 1 \in T
  <2>0. i # k /\ i + 1 \in 0..k
    OBVIOUS
  <2>1. CASE i + 1 = k
    BY <2>0, <2>1
  <2>2. CASE i + 1 # k
    <3>1. PICK m \in Unused : Cardinality(below(m)) = i
      BY <1>4, <2>0
    <3> DEFINE B == below(m) \cup {m}
               R == Unused \ B
    <3>2. IsFiniteSet(B) /\ Cardinality(B) = i + 1
      <4>1. IsFiniteSet(below(m)) /\ m \notin below(m)
        BY <1>2
      <4> HIDE DEF below
      <4> QED
        BY <3>1, <4>1, FS_AddElement
    <3>3. B \in SUBSET Unused
      BY <1>2
    <3>4. R # {}
      <4>1. ASSUME R = {}
            PROVE  FALSE
        <5>1. B = Unused
          BY <3>3, <4>1
        <5>2. Cardinality(Unused) = i + 1
          BY <3>2, <5>1
        <5> HIDE DEF B, R
        <5> QED
          BY <1>1, <2>2, <5>2
      <4> QED
        BY <4>1
    <3>5. R \subseteq Nat
      BY <1>1
    <3>6. PICK l \in R : \A x \in R : l <= x
      <4> HIDE DEF R
      <4> QED
        BY <3>4, <3>5, LeastNat
    <3>7. l \in Unused /\ l \in Nat /\ m \in Nat
      BY <1>1
    <3>8. m < l
      BY <1>1, <3>6, <3>7
    <3>9. below(l) = B
      <4>1. \A x \in Unused : x < l => x \in B
        BY <1>1, <3>6, <3>7
      <4>2. \A x \in B : x \in Unused /\ x < l
        BY <1>1, <3>7, <3>8
      <4> QED
        BY <4>1, <4>2
    <3>10. Cardinality(below(l)) = i + 1
      BY <3>2, <3>9
    <3> QED
      BY <2>0, <3>7, <3>10
  <2> QED
    BY <2>1, <2>2
<1>5. \A i \in 0..k : i \in T
  <2> HIDE DEF T
  <2> QED
    BY <1>3, <1>4, Upto
<1>6. \A i \in 1..k : nth(i) \in Unused /\ Cardinality(below(nth(i))) = i - 1
  <2>1. ASSUME NEW i \in 1..k
        PROVE  nth(i) \in Unused /\ Cardinality(below(nth(i))) = i - 1
    <3>1. i - 1 \in 0..k /\ i - 1 # k
      OBVIOUS
    <3>2. i - 1 \in T
      BY <1>5, <3>1
    <3>3. \E m \in Unused : Cardinality(below(m)) = i - 1
      BY <3>1, <3>2
    <3> HIDE DEF T
    <3> QED
      BY <3>3
  <2> QED
    BY <2>1
<1>7. s = [i \in 1..k |-> nth(i)]
  BY DEF Fresh
<1> HIDE DEF T, nth, s
<1>8. \A i \in 1..k : s[i] \in Unused /\ Cardinality(below(s[i])) = i - 1
  BY <1>6, <1>7
<1>9. s \in Seq(Mount) /\ Len(s) = k /\ DOMAIN s = 1..k
  <2>1. \A i \in 1..k : nth(i) \in Mount
    BY <1>1, <1>6
  <2>2. s \in [1..k -> Mount]
    BY <1>7, <2>1
  <2> HIDE DEF Mount
  <2> QED
    BY <2>2
<1>10. \A i, j \in 1..k : s[i] = s[j] => i = j
  <2>1. ASSUME NEW i \in 1..k, NEW j \in 1..k, s[i] = s[j]
        PROVE  i = j
    <3>1. i - 1 = j - 1
      BY <1>8, <2>1
    <3> QED
      BY <3>1
  <2> QED
    BY <2>1
<1>11. IsInjective(s)
  BY <1>9, <1>10, InjIs
<1>12. \A m \in ToSet(s) : m \in Mount /\ ~mount[m].live
  <2>1. \A m \in ToSet(s) : \E i \in 1..k : m = s[i]
    BY <1>9 DEF ToSet
  <2> QED
    BY <1>8, <2>1 DEF Unused
<1> QED
  BY <1>9, <1>11, <1>12 DEF s

(* References are added, and channels closed. *)
LEMMA NetEffect ==
  ASSUME NEW s \in ChansType, FreeOK(s), NEW n \in [Chan -> Nat],
         \A x \in Chan : n[x] > 0 => s.of[x].ref > 0, NEW xs \in Seq(Chan),
         \A x \in Chan : Count(xs, x) <= s.of[x].ref + n[x],
         NEW t, t = CloseAll(IncrefAll(s, n), xs)
  PROVE  /\ t \in ChansType /\ FreeOK(t) /\ SameButRefs(s, t)
         /\ \A y \in Chan : t.of[y].ref = s.of[y].ref + n[y] - Count(xs, y)
<1> DEFINE u == IncrefAll(s, n)
<1>1. u = IncrefAll(s, n) /\ t = CloseAll(u, xs)
  OBVIOUS
<1> HIDE DEF u
<1>2. /\ u \in ChansType /\ FreeOK(u) /\ SameButRefs(s, u)
      /\ \A y \in Chan : u.of[y].ref = s.of[y].ref + n[y]
  BY <1>1, IncrefAllEffect
<1>3. /\ t \in ChansType /\ FreeOK(t) /\ SameButRefs(u, t)
      /\ \A y \in Chan : t.of[y].ref = u.of[y].ref - Count(xs, y)
  <2>1. \A x \in Chan : Count(xs, x) <= u.of[x].ref
    BY <1>2
  <2> QED
    BY <1>1, <1>2, <2>1, CloseAllEffect
<1>4. SameButRefs(s, t)
  BY <1>2, <1>3 DEF SameButRefs
<1>5. ASSUME NEW y \in Chan
      PROVE  t.of[y].ref = s.of[y].ref + n[y] - Count(xs, y)
  <2> DEFINE a == s.of[y].ref
             l == n[y]
             b == t.of[y].ref
             k == Count(xs, y)
             e == u.of[y].ref
  <2>1. e = a + l
    BY <1>2
  <2>2. b = e - k
    BY <1>3
  <2>4. a \in Nat /\ l \in Nat /\ k \in Nat
    BY CountType DEF ChansType, ChanType
  <2> HIDE DEF a, b, e, k, l
  <2>3. b = a + l - k
    BY <2>1, <2>2, <2>4
  <2> QED
    BY <2>3 DEF a, b, k, l
<1> QED
  BY <1>3, <1>4, <1>5

-----------------------------------------------------------------------------
(* Bind and unmount. *)

LEMMA ToCount ==
  ASSUME TypeOK, NEW ms \in Seq(Mount), IsInjective(ms), NEW z
  PROVE  /\ IsFiniteSet({m \in ToSet(ms) : To(m) = z})
         /\ Count(ToOf(ms), z) = Cardinality({m \in ToSet(ms) : To(m) = z})
         /\ (\A m \in ToSet(ms) : To(m) \in Chan) => ToOf(ms) \in Seq(Chan)
<1> DEFINE f == [m \in Mount |-> To(m)]
           S == {m \in ToSet(ms) : f[m] = z}
           k == Len(ms)
<1>1. /\ k \in Nat /\ (\A i \in 1..k : ms[i] \in Mount /\ ms[i] \in ToSet(ms))
      /\ \A m \in ToSet(ms) : m \in Mount
  BY SeqIs
<1>2. S = {m \in ToSet(ms) : To(m) = z}
  BY <1>1
<1>3. ToOf(ms) = [i \in 1..k |-> f[ms[i]]]
  BY <1>1 DEF ToOf
<1>4. ToOf(ms) = [i \in 1..k |-> To(ms[i])]
  BY DEF ToOf
<1>5. (\A m \in ToSet(ms) : To(m) \in Chan) => ToOf(ms) \in Seq(Chan)
  <2>1. ASSUME \A m \in ToSet(ms) : To(m) \in Chan
        PROVE  ToOf(ms) \in Seq(Chan)
    <3>1. ToOf(ms) \in [1..k -> Chan]
      BY <1>1, <1>4, <2>1
    <3> HIDE DEF k
    <3> QED
      BY <1>1, <3>1
  <2> QED
    BY <2>1
<1> HIDE DEF f
<1>6. /\ IsFiniteSet(S)
      /\ Count([i \in 1..k |-> f[ms[i]]], z) = Cardinality(S)
  BY CountEach
<1> QED
  BY <1>2, <1>3, <1>5, <1>6

(* The head of d in g changes. *)
LEMMA HeadCount ==
  ASSUME TypeOK, NEW g \in Group, NEW d \in File,
         \A h \in Group, e \in File : h # g \/ e # d => head'[h][e] = head[h][e],
         NEW z
  PROVE  /\ Cardinality(HeadsOf(z)) \in Nat /\ Cardinality(HeadsOf(z)') \in Nat
         /\ Cardinality(HeadsOf(z)') + (IF head[g][d].from = z THEN 1 ELSE 0)
              = Cardinality(HeadsOf(z)) + (IF head'[g][d].from = z THEN 1 ELSE 0)
<1> DEFINE S == HeadsOf(z)
           T == HeadsOf(z)'
           e == <<g, d>>
<1>1. IsFiniteSet(S)
  BY RefsFinite
<1>2. S \ {e} = T \ {e}
  BY DEF HeadsOf
<1>3. (e \in S <=> head[g][d].from = z) /\ (e \in T <=> head'[g][d].from = z)
  BY DEF HeadsOf
<1> HIDE DEF S, T, e
<1>4. /\ Cardinality(S) \in Nat /\ Cardinality(T) \in Nat
      /\ Cardinality(T) + (IF e \in S THEN 1 ELSE 0) = Cardinality(S) + (IF e \in T THEN 1 ELSE 0)
  BY <1>1, <1>2, OneDiffers
<1> QED
  BY <1>3, <1>4 DEF S, T

LEMMA NumbersNext ==
  ASSUME NEW z
  PROVE  (TypeOK => Cardinality(MountsTo(z)) \in Nat /\ Cardinality(HeadsOf(z)) \in Nat)'
<1>1. TypeOK => Cardinality(MountsTo(z)) \in Nat /\ Cardinality(HeadsOf(z)) \in Nat
  BY RefsType
<1> QED
  BY <1>1, PTL

(* A step of p that edits the list of d in its group, and ends its call. *)
LEMMA EditStep ==
  ASSUME IndInv, TypeOK', NEW p \in Proc, NEW g \in Group, g = grp[p], NEW d \in File, NEW chain,
         Edited(g, d, chain), Reading(g) = {}, at[p] = "op", Return(p),
         group' = group, grp' = grp, fd' = fd, job' = job, name' = name, c' = c, w' = w, fork' = fork,
         mountid <= mountid',
         \A m \in ToSet(chain) : /\ mount'[m].mountid <= mountid'
                                 /\ \A n \in Table(g)' : n # m => mount'[n].mountid # mount'[m].mountid,
         \A m \in MountsOn(g, d) : m \in Followed(p) => m \in ToSet(chain),
         FreeOK(ch'), SameButRefs(ch, ch'),
         \A z \in Chan :
           /\ ch'.of[z].ref + Cardinality(MountsTo(z)) + Cardinality(HeadsOf(z)) + Count(got[p], z)
                = ch.of[z].ref + Cardinality(MountsTo(z)') + Cardinality(HeadsOf(z)')
           /\ ch'.of[z].ref > 0 => ch.of[z].ref > 0
           /\ z = fd[p] \/ (\E q \in Proc \ {p} : Own(q, z) > 0) => ~(ch'.of[z].ref > 1)
  PROVE  IndInv' /\ FilesKept
<1>1. /\ OthersKeep(p) /\ at'[p] = "idle" /\ got'[p] = <<>> /\ Calling(p)'
  BY ReturnIs
<1>2. /\ ListInv' /\ GroupInv' /\ IdInv' /\ CopyInv' /\ BetweenInv'
      /\ \A h \in Group : Users(h) # {} =>
           Users(h)' # {} /\ \A m \in Table(h) : m \notin MountsOn(g, d) \/ m \in ToSet(chain) => KeepsMount(h, m)
  BY <1>1, EditKeeps
<1>3. TypeOK /\ ListInv
  BY DEF IndInv
<1>4. ASSUME NEW z \in Chan
      PROVE  ch'.of[z].ref + InTables(z) + Own(p, z) = ch.of[z].ref + InTables(z)' + Own(p, z)'
  <2> DEFINE k == ch.of[z].ref
             n == ch'.of[z].ref
             a == Cardinality(MountsTo(z))
             aa == Cardinality(MountsTo(z)')
             b == Cardinality(HeadsOf(z))
             bb == Cardinality(HeadsOf(z)')
             s == Cardinality(SlashesOf(z))
             t == Cardinality(DotsOf(z))
             u == Count(got[p], z)
             f == IF fd[p] = z THEN 1 ELSE 0
  <2>1. n + a + b + u = k + aa + bb
    OBVIOUS
  <2>2. InTables(z) = a + b + s + t /\ a \in Nat /\ b \in Nat /\ s \in Nat /\ t \in Nat
    BY <1>3, RefsType DEF InTables
  <2>3. (TypeOK => Cardinality(MountsTo(z)) \in Nat /\ Cardinality(HeadsOf(z)) \in Nat)'
    BY NumbersNext
  <2>4. aa \in Nat /\ bb \in Nat
    BY <2>3
  <2>5. SlashesOf(z)' = SlashesOf(z) /\ DotsOf(z)' = DotsOf(z)
    <3>1. \A q \in Proc : at'[q] = "setdot" <=> at[q] = "setdot"
      BY <1>1 DEF OthersKeep
    <3> QED
      BY <3>1 DEF SlashesOf, DotsOf
  <2>6. InTables(z)' = aa + bb + s + t
    BY <2>5 DEF InTables
  <2>7. Own(p, z) = u + f /\ u \in Nat
    <3>1. at[p] \notin HasWalk
      BY DEF HasWalk
    <3> QED
      BY <1>3, <3>1, GotCount, OwnBase
  <2>8. Own(p, z)' = f
    BY <1>1 DEF Own, HasWalk
  <2>9. f \in Nat
    OBVIOUS
  <2>10. k \in Nat /\ n \in Nat
    BY <1>3 DEF TypeOK
  <2> HIDE DEF k, n, a, aa, b, bb, s, t, u, f
  <2>11. n + (a + b + s + t) + (u + f) = k + (aa + bb + s + t) + f
    BY <2>1, <2>2, <2>4, <2>7, <2>9, <2>10
  <2> QED
    BY <2>2, <2>6, <2>7, <2>8, <2>11 DEF k, n
<1>5. ASSUME NEW z \in Chan
      PROVE  /\ ch'.of[z].ref > 0 => ch'.of[z].file \in File
             /\ ch.of[z].ref > 0 => SameFields(z)
  <2>1. SameFields(z)
    BY DEF SameButRefs, SameFields
  <2>2. ch.of[z].ref > 0 => ch.of[z].file \in File
    BY Channels
  <2> QED
    BY <2>1, <2>2 DEF SameFields
<1>6. \A h \in Group : Users(h) # {} => \A m \in Table(h) \cap Followed(p) :
        Users(h)' # {} /\ KeepsMount(h, m)
  BY <1>2
<1>7. FreeOK(ch') /\ ~ch'.panic
  BY Channels DEF SameButRefs
<1>8. at[p] \notin HasWalk /\ at'[p] \in {"idle", "copied"} /\ \A q \in Proc \ {p} : grp'[q] = grp[q]
  BY <1>1 DEF HasWalk
<1> QED
  BY <1>1, <1>2, <1>4, <1>5, <1>6, <1>7, <1>8, TableStep

LEMMA PutIs ==
  ASSUME NEW A, NEW B, NEW R, NEW h \in [A -> [B -> R]], NEW a \in A, NEW b \in B, NEW r \in R,
         NEW k, k = [h EXCEPT ![a][b] = r]
  PROVE  /\ k \in [A -> [B -> R]] /\ k[a][b] = r
         /\ \A x \in A, y \in B : x # a \/ y # b => k[x][y] = h[x][y]
<1> DEFINE s == [h[a] EXCEPT ![b] = r]
<1>1. s \in [B -> R] /\ s[b] = r /\ \A y \in B : y # b => s[y] = h[a][y]
  OBVIOUS
<1>2. k = [h EXCEPT ![a] = s]
  OBVIOUS
<1> HIDE DEF s
<1>3. k \in [A -> [B -> R]] /\ k[a] = s /\ \A x \in A : x # a => k[x] = h[x]
  BY <1>1, <1>2
<1> QED
  BY <1>1, <1>3

HeadType == [from : Chan \cup {Nil}, mount : Mount \cup {Nil}]

(* What cunmount takes, and what is left. *)
LEMMA TakenIs ==
  ASSUME TypeOK, ListInv, NEW p \in Proc, NEW d \in File, NEW ms, ms = List(grp[p], d),
         NEW gone, gone = Taken(p, d), gone # <<>>, NEW kept, kept = Without(ms, gone)
  PROVE  /\ gone \in Seq(Mount) /\ IsInjective(gone) /\ ToSet(gone) \subseteq ToSet(ms)
         /\ kept \in Seq(Mount) /\ IsInjective(kept) /\ ToSet(kept) = ToSet(ms) \ ToSet(gone)
<1> DEFINE same == {m \in ToSet(ms) : FileOf(To(m)) = FileOf(got[p][2])}
<1>0. grp[p] \in Group
  BY DEF TypeOK
<1>1. ms \in Seq(Mount) /\ IsInjective(ms)
  BY <1>0, TableLive
<1>2. gone = IF Len(got[p]) = 1 THEN ms ELSE IF same = {} THEN <<>> ELSE <<First(ms, same)>>
  BY DEF Taken
<1>3. same \subseteq ToSet(ms)
  OBVIOUS
<1> HIDE DEF same
<1>4. <<>> \in Seq(Mount) /\ IsInjective(<<>>) /\ ToSet(<<>>) = {}
  BY DEF IsInjective, ToSet
<1>5. CASE gone = ms
  <2>1. kept = <<>>
    BY <1>5 DEF Without
  <2> QED
    BY <1>1, <1>4, <1>5, <2>1
<1>6. CASE gone # ms
  <2>1. same # {} /\ gone = <<First(ms, same)>>
    BY <1>2, <1>6
  <2>2. PICK k \in 1..Len(ms) : First(ms, same) = ms[k]
    <3>1. same \cap ToSet(ms) # {}
      BY <1>3, <2>1
    <3> QED
      BY <1>1, <3>1, FirstIs
  <2>s. SUFFICES ASSUME NEW x, x = ms[k]
                 PROVE  /\ gone \in Seq(Mount) /\ IsInjective(gone) /\ ToSet(gone) \subseteq ToSet(ms)
                        /\ kept \in Seq(Mount) /\ IsInjective(kept) /\ ToSet(kept) = ToSet(ms) \ ToSet(gone)
    OBVIOUS
  <2>3. x \in Mount /\ x \in ToSet(ms) /\ gone = <<x>>
    BY <1>1, <2>1, <2>2, <2>s, SeqIs
  <2>4. gone \in Seq(Mount) /\ IsInjective(gone) /\ ToSet(gone) = {x} /\ gone[1] = x
    BY <2>3 DEF IsInjective, ToSet
  <2> DEFINE i == CHOOSE i \in 1..Len(ms) : ms[i] = gone[1]
  <2>5. i \in 1..Len(ms) /\ ms[i] = x
    BY <2>4, <2>s
  <2>6. kept = RemoveAt(ms, i)
    BY <1>6 DEF Without
  <2> HIDE DEF i
  <2>7. /\ RemoveAt(ms, i) \in Seq(Mount) /\ IsInjective(RemoveAt(ms, i))
        /\ ToSet(RemoveAt(ms, i)) = ToSet(ms) \ {ms[i]}
    BY <1>1, <2>5, RemoveIs
  <2> QED
    BY <2>3, <2>4, <2>5, <2>6, <2>7
<1> QED
  BY <1>5, <1>6

(* What an unmount has done to the list of d. *)
UnmountDone(p, g, d, ms, gone, kept) ==
  /\ g = grp[p] /\ g \in Group /\ d \in File
  /\ ms = List(g, d) /\ gone = Taken(p, d) /\ gone # <<>> /\ kept = Without(ms, gone)
  /\ Edited(g, d, kept)
UnmountEdits(p) == \E g, d, ms, gone, kept : UnmountDone(p, g, d, ms, gone, kept)

LEMMA UnmountKeeps ==
  ASSUME IndInv, Orderly, NEW p \in Proc, Unmount(p)
  PROVE  IndInv' /\ FilesKept /\ UnmountEdits(p)
<1>s. SUFFICES ASSUME NEW g, g = grp[p], NEW d, d = FileOf(got[p][1]), NEW ms, ms = List(g, d),
                      NEW gone, gone = Taken(p, d), NEW kept, kept = Without(ms, gone),
                      NEW from, from = head[g][d].from,
                      NEW last, last = IF kept = <<>> THEN <<from>> ELSE <<>>,
                      NEW r, r = IF kept = <<>> THEN NoHead ELSE [head[g][d] EXCEPT !.mount = kept[1]]
               PROVE  IndInv' /\ FilesKept /\ UnmountEdits(p)
  OBVIOUS
<1>1. /\ Ready(p, "unmount") /\ ~Refused(p) /\ Reading(g) = {} /\ Removable(p, gone)
      /\ mount' = MountFree(Linked(mount, kept), gone)
      /\ head' = [head EXCEPT ![g][d] = r]
      /\ ch' = CloseAll(ch, ToOf(gone) \o last \o got[p])
      /\ Return(p)
      /\ group' = group /\ mountid' = mountid /\ grp' = grp /\ fd' = fd /\ job' = job /\ name' = name
      /\ c' = c /\ w' = w /\ fork' = fork /\ left' = left
  BY <1>s DEF Unmount, walking
<1>2. TypeOK /\ ListInv /\ IdInv /\ RefsExact /\ Private
  BY DEF IndInv
<1>3. /\ at[p] = "op" /\ job[p].op = "unmount" /\ Len(got[p]) \in {1, 2} /\ got[p] \in Seq(Chan)
      /\ g \in Group
      /\ \A z : Own(p, z) = Count(got[p], z) + (IF fd[p] = z THEN 1 ELSE 0) /\ Count(got[p], z) \in Nat
  BY <1>1, <1>2, <1>s, ReadyHas DEF TypeOK
<1>4. d \in File
  <2>0. Len(got[p]) = 1 \/ Len(got[p]) = 2
    BY <1>3
  <2> DEFINE n == Len(got[p])
  <2>n. n = 1 \/ n = 2
    BY <2>0
  <2> HIDE DEF n
  <2>m. 1 \in 1..n
    BY <2>n
  <2>1. 1 \in 1..Len(got[p])
    BY <2>m DEF n
  <2>2. got[p][1] \in Chan /\ Own(p, got[p][1]) > 0
    BY <1>2, <2>1, OwnsThem
  <2>3. ch.of[got[p][1]].ref > 0
    BY <1>2, <2>2, OwnAlone
  <2> QED
    BY <1>s, <2>2, <2>3, Channels DEF FileOf
<1>5. gone # <<>>
  BY <1>1, <1>3, <1>s DEF Refused
<1>6. /\ gone \in Seq(Mount) /\ IsInjective(gone) /\ ToSet(gone) \subseteq ToSet(ms)
      /\ kept \in Seq(Mount) /\ IsInjective(kept) /\ ToSet(kept) = ToSet(ms) \ ToSet(gone)
  BY <1>2, <1>4, <1>5, <1>s, TakenIs
<1>7. /\ ToSet(ms) = MountsOn(g, d) /\ (\A m \in ToSet(ms) : m \in Mount /\ mount[m].live /\ m \in Table(g))
      /\ (\A m \in ToSet(ms) : To(m) \in Chan) /\ from # Nil
  <2>1. ToSet(ms) = MountsOn(g, d) /\ \A m \in ToSet(ms) : m \in Mount /\ mount[m].live /\ m \in Table(g)
    BY <1>2, <1>3, <1>4, <1>s, TableLive DEF MountsOn
  <2>2. \A m \in ToSet(ms) : To(m) \in Chan
    BY <1>2, <2>1 DEF ListInv
  <2>3. ms # <<>>
    <3>1. ToSet(gone) # {}
      BY <1>5, <1>6, SeqIs
    <3>2. ToSet(ms) # {} /\ ms \in Seq(Mount)
      BY <1>2, <1>3, <1>4, <1>6, <1>s, <3>1, TableLive
    <3> QED
      BY <3>2, SeqIs
  <2>4. IsList(mount, ms, head[g][d].mount) /\ (head[g][d].from = Nil <=> head[g][d].mount = Nil)
    BY <1>2, <1>3, <1>4, <1>s DEF ListInv
  <2>5. head[g][d].mount = ms[1] /\ ms \in Seq(Mount)
    BY <2>3, <2>4 DEF IsList
  <2>6. ms[1] \in Mount
    BY <2>3, <2>5
  <2>7. Nil \notin Mount
    BY DEF Nil, Mount
  <2> QED
    BY <1>s, <2>1, <2>2, <2>4, <2>5, <2>6, <2>7
<1>8. /\ mount' \in MountsType
      /\ \A m : m = (IF kept = <<>> THEN Nil ELSE kept[1]) => IsList(mount', kept, m)
      /\ \A m \in Mount :
           /\ mount'[m].to = mount[m].to /\ mount'[m].copy = mount[m].copy
           /\ m \notin ToSet(kept) => mount'[m].next = mount[m].next
           /\ m \notin ToSet(gone) => mount'[m].mountid = mount[m].mountid /\ mount'[m].live = mount[m].live
           /\ m \in ToSet(gone) => ~mount'[m].live
  <2> DEFINE mt == mount
             mu == mount'
  <2>1. mt \in MountsType /\ mu = MountFree(Linked(mt, kept), gone)
    BY <1>1, <1>2 DEF TypeOK, MountsType
  <2> HIDE DEF mt, mu
  <2>2. /\ mu \in MountsType
        /\ \A m : m = (IF kept = <<>> THEN Nil ELSE kept[1]) => IsList(mu, kept, m)
        /\ \A m \in Mount :
           /\ mu[m].to = mt[m].to /\ mu[m].copy = mt[m].copy
           /\ m \notin ToSet(kept) => mu[m].next = mt[m].next
           /\ m \notin ToSet(gone) => mu[m].mountid = mt[m].mountid /\ mu[m].live = mt[m].live
           /\ m \in ToSet(gone) => ~mu[m].live
    BY <1>6, <2>1, RelinkedIs
  <2> QED
    BY <2>2 DEF mt, mu
<1>9. r \in HeadType /\ r.mount = (IF kept = <<>> THEN Nil ELSE kept[1])
      /\ r.from = (IF kept = <<>> THEN Nil ELSE from) /\ (r.from = Nil <=> r.mount = Nil)
  <2>1. head[g][d] \in HeadType
    BY <1>2, <1>3, <1>4 DEF TypeOK, HeadType
  <2>2. kept # <<>> => kept[1] \in Mount
    BY <1>6
  <2>3. Nil \notin Mount
    BY DEF Nil, Mount
  <2>4. CASE kept = <<>>
    BY <1>s, <2>4 DEF NoHead, HeadType
  <2>5. CASE kept # <<>>
    <3>1. r = [head[g][d] EXCEPT !.mount = kept[1]]
      BY <1>s, <2>5
    <3>2. r \in HeadType /\ r.mount = kept[1] /\ r.from = from
      BY <1>s, <2>1, <2>2, <2>5, <3>1 DEF HeadType
    <3> QED
      BY <1>7, <2>2, <2>3, <2>5, <3>2
  <2> QED
    BY <2>4, <2>5
<1>10. /\ head' \in [Group -> [File -> HeadType]] /\ head'[g][d] = r
       /\ \A h \in Group, e \in File : h # g \/ e # d => head'[h][e] = head[h][e]
  <2> DEFINE hh == head
             kk == head'
  <2>1. hh \in [Group -> [File -> HeadType]] /\ kk = [hh EXCEPT ![g][d] = r]
    BY <1>1, <1>2 DEF TypeOK, HeadType
  <2> HIDE DEF hh, kk
  <2>2. /\ kk \in [Group -> [File -> HeadType]] /\ kk[g][d] = r
        /\ \A h \in Group, e \in File : h # g \/ e # d => kk[h][e] = hh[h][e]
    BY <1>3, <1>4, <1>9, <2>1, PutIs
  <2> QED
    BY <2>2 DEF hh, kk
<1>11. Edited(g, d, kept)
  <2>1. IsList(mount', kept, head'[g][d].mount) /\ (head'[g][d].from = Nil <=> head'[g][d].mount = Nil)
    BY <1>8, <1>9, <1>10
  <2>2. \A m \in ToSet(kept) : mount'[m].live /\ m \in MountsOn(g, d)
    BY <1>6, <1>7, <1>8
  <2>3. \A m \in Mount : mount[m].live /\ m \notin MountsOn(g, d) =>
          mount'[m].live /\ mount'[m].next = mount[m].next
    BY <1>6, <1>7, <1>8
  <2>4. \A m \in Mount : mount[m].live /\ (m \notin MountsOn(g, d) \/ m \in ToSet(kept)) =>
          mount'[m].mountid = mount[m].mountid /\ To(m)' = To(m) /\ mount'[m].copy = mount[m].copy
    BY <1>6, <1>7, <1>8 DEF To
  <2>5. \A m \in Mount : mount'[m].live => To(m)' \in Chan
    BY <1>2, <1>8 DEF To, ListInv
  <2> QED
    BY <1>10, <2>1, <2>2, <2>3, <2>4, <2>5 DEF Edited
<1> DEFINE xs == ToOf(gone) \o last \o got[p]
<1>12. /\ xs \in Seq(Chan) /\ ToOf(gone) \in Seq(Chan)
       /\ \A z : /\ Count(xs, z) = Count(ToOf(gone), z) + (IF kept = <<>> /\ z = from THEN 1 ELSE 0) + Count(got[p], z)
                 /\ Count(ToOf(gone), z) \in Nat /\ Count(got[p], z) \in Nat
  <2>1. ToOf(gone) \in Seq(Chan)
    BY <1>2, <1>6, <1>7, ToCount
  <2>2. from \in Chan
    <3>1. head[g][d] \in HeadType
      BY <1>2, <1>3, <1>4 DEF TypeOK, HeadType
    <3> QED
      BY <1>7, <1>s, <3>1 DEF HeadType
  <2>3. last \in Seq(Chan) /\ \A z : Count(last, z) = (IF kept = <<>> /\ z = from THEN 1 ELSE 0)
    BY <1>s, <2>2, CountOne
  <2> DEFINE ys == ToOf(gone) \o last
             a == ToOf(gone)
             b == got[p]
  <2>4. a \in Seq(Chan) /\ b \in Seq(Chan)
    BY <1>3, <2>1
  <2>x. ys = a \o last /\ xs = ys \o b
    OBVIOUS
  <2> HIDE DEF a, b, ys, xs
  <2>5. ys \in Seq(Chan) /\ \A z : Count(ys, z) = Count(a, z) + Count(last, z)
    BY <2>3, <2>4, <2>x, CountConcat
  <2>6. xs \in Seq(Chan) /\ \A z : Count(xs, z) = Count(ys, z) + Count(b, z)
    <3>1. ys \in Seq(Chan)
      BY <2>5
    <3>2. ys \o b \in Seq(Chan) /\ \A z : Count(ys \o b, z) = Count(ys, z) + Count(b, z)
      BY <2>4, <3>1, CountConcat
    <3> QED
      BY <2>x, <3>2
  <2>7. \A z : Count(a, z) \in Nat /\ Count(b, z) \in Nat
    BY <2>4, CountType
  <2>8. \A z : Count(xs, z) = Count(a, z) + (IF kept = <<>> /\ z = from THEN 1 ELSE 0) + Count(b, z)
    BY <2>3, <2>5, <2>6
  <2> QED
    BY <2>1, <2>6, <2>7, <2>8 DEF a, b
<1>13. \A z \in Chan : /\ Cardinality(MountsTo(z)) = Cardinality(MountsTo(z)') + Count(ToOf(gone), z)
                       /\ Cardinality(MountsTo(z)') \in Nat
  <2>1. ASSUME NEW z \in Chan
        PROVE  /\ Cardinality(MountsTo(z)) = Cardinality(MountsTo(z)') + Count(ToOf(gone), z)
               /\ Cardinality(MountsTo(z)') \in Nat
    <3> DEFINE A == MountsTo(z)
               B == MountsTo(z)'
               G == {m \in ToSet(gone) : To(m) = z}
    <3>1. IsFiniteSet(A)
      BY <1>2, RefsFinite
    <3>2. IsFiniteSet(G) /\ Count(ToOf(gone), z) = Cardinality(G)
      BY <1>2, <1>6, ToCount
    <3>3. A = B \cup G /\ B \cap G = {}
      BY <1>6, <1>7, <1>8 DEF MountsTo, To
    <3> HIDE DEF A, B, G
    <3>4. IsFiniteSet(B)
      BY <3>1, <3>3, FS_Subset
    <3>5. Cardinality(A) = Cardinality(B) + Cardinality(G) /\ Cardinality(B) \in Nat
      BY <3>2, <3>3, <3>4, Apart
    <3> QED
      BY <3>2, <3>5 DEF A, B
  <2> QED
    BY <2>1
<1>14. \A z \in Chan :
         /\ Cardinality(HeadsOf(z)) \in Nat /\ Cardinality(HeadsOf(z)') \in Nat
         /\ Cardinality(HeadsOf(z)) = Cardinality(HeadsOf(z)') + (IF kept = <<>> /\ z = from THEN 1 ELSE 0)
  <2>1. ASSUME NEW z \in Chan
        PROVE  /\ Cardinality(HeadsOf(z)) \in Nat /\ Cardinality(HeadsOf(z)') \in Nat
               /\ Cardinality(HeadsOf(z)) = Cardinality(HeadsOf(z)') + (IF kept = <<>> /\ z = from THEN 1 ELSE 0)
    <3> DEFINE a == Cardinality(HeadsOf(z))
               b == Cardinality(HeadsOf(z)')
    <3>1. /\ a \in Nat /\ b \in Nat
          /\ b + (IF head[g][d].from = z THEN 1 ELSE 0) = a + (IF head'[g][d].from = z THEN 1 ELSE 0)
      BY <1>2, <1>3, <1>4, <1>10, HeadCount
    <3>2. z # Nil
      BY NameSpaceAssumption DEF Chan, Nil
    <3>3. head[g][d].from = from /\ head'[g][d].from = (IF kept = <<>> THEN Nil ELSE from)
      BY <1>9, <1>10, <1>s
    <3> HIDE DEF a, b
    <3>4. a = b + (IF kept = <<>> /\ z = from THEN 1 ELSE 0)
      BY <3>1, <3>2, <3>3
    <3> QED
      BY <3>1, <3>4 DEF a, b
  <2> QED
    BY <2>1
<1> HIDE DEF xs
<1>15. ASSUME NEW z \in Chan
       PROVE  /\ Count(xs, z) <= ch.of[z].ref /\ Count(xs, z) \in Nat
              /\ Own(p, z) = 0 => Count(got[p], z) = 0
  <2> DEFINE k == ch.of[z].ref
             a == Cardinality(MountsTo(z))
             b == Cardinality(HeadsOf(z))
             s == Cardinality(SlashesOf(z))
             t == Cardinality(DotsOf(z))
             u == Count(got[p], z)
             v == InCalls(z)
             n == Count(xs, z)
             o == Own(p, z)
  <2>1. k = a + b + s + t + v /\ a \in Nat /\ b \in Nat /\ s \in Nat /\ t \in Nat /\ v \in Nat
    BY <1>2, RefsParts, RefsType DEF RefsExact, InTables
  <2>2. n <= a + b + u /\ u \in Nat /\ n \in Nat
    <3> DEFINE e == IF kept = <<>> /\ z = from THEN 1 ELSE 0
               i == Count(ToOf(gone), z)
               aa == Cardinality(MountsTo(z)')
               bb == Cardinality(HeadsOf(z)')
    <3>1. n = i + e + u /\ i \in Nat /\ u \in Nat
      BY <1>12
    <3>2. a = aa + i /\ aa \in Nat /\ b = bb + e /\ bb \in Nat /\ e \in Nat
      BY <1>13, <1>14
    <3> HIDE DEF n, i, e, u, a, b, aa, bb
    <3> QED
      BY <3>1, <3>2
  <2>3. o = u + (IF fd[p] = z THEN 1 ELSE 0)
    BY <1>3
  <2>4. o > 0 => k = 1 /\ o = 1 /\ MountsTo(z) = {} /\ HeadsOf(z) = {}
    BY <1>2, OwnAlone
  <2>5. o > 0 => a = 0 /\ b = 0
    BY <2>4, FS_EmptySet
  <2> HIDE DEF k, a, b, s, t, u, v, n, o
  <2>6. n <= k /\ (o = 0 => u = 0)
    BY <2>1, <2>2, <2>3, <2>4, <2>5
  <2> QED
    BY <2>2, <2>6 DEF n, k, o, u
<1>16. /\ ch' \in ChansType /\ FreeOK(ch') /\ SameButRefs(ch, ch')
       /\ \A z \in Chan : ch'.of[z].ref = ch.of[z].ref - Count(xs, z)
  <2> DEFINE s == ch
             t == ch'
  <2>1. s \in ChansType /\ FreeOK(s) /\ t = CloseAll(s, xs) /\ \A z \in Chan : Count(xs, z) <= s.of[z].ref
    BY <1>1, <1>15, Channels DEF xs
  <2> HIDE DEF s, t
  <2>2. /\ t \in ChansType /\ FreeOK(t) /\ SameButRefs(s, t)
        /\ \A z \in Chan : t.of[z].ref = s.of[z].ref - Count(xs, z)
    BY <1>12, <2>1, CloseAllEffect
  <2> QED
    BY <2>2 DEF s, t
<1>17. ASSUME NEW z \in Chan
       PROVE  /\ ch'.of[z].ref + Cardinality(MountsTo(z)) + Cardinality(HeadsOf(z)) + Count(got[p], z)
                   = ch.of[z].ref + Cardinality(MountsTo(z)') + Cardinality(HeadsOf(z)')
              /\ ch'.of[z].ref > 0 => ch.of[z].ref > 0
              /\ z = fd[p] \/ (\E q \in Proc \ {p} : Own(q, z) > 0) => ~(ch'.of[z].ref > 1)
  <2> DEFINE k == ch.of[z].ref
             n == ch'.of[z].ref
             a == Cardinality(MountsTo(z))
             aa == Cardinality(MountsTo(z)')
             b == Cardinality(HeadsOf(z))
             bb == Cardinality(HeadsOf(z)')
             u == Count(got[p], z)
             i == Count(ToOf(gone), z)
             j == Count(xs, z)
             e == IF kept = <<>> /\ z = from THEN 1 ELSE 0
  <2>1. n = k - j /\ j \in Nat /\ j = i + e + u /\ i \in Nat /\ u \in Nat /\ j <= k
    BY <1>12, <1>15, <1>16
  <2>2. a = aa + i /\ aa \in Nat /\ b = bb + e /\ bb \in Nat /\ e \in Nat
    BY <1>13, <1>14
  <2>3. k \in Nat
    BY <1>2 DEF TypeOK
  <2>4. z = fd[p] => Own(p, z) > 0
    BY <1>2, OwnsThem, NameSpaceAssumption DEF Chan, Nil
  <2>5. \A q \in Proc : Own(q, z) > 0 => k = 1
    BY <1>2, OwnAlone
  <2> HIDE DEF k, n, a, aa, b, bb, u, i, j, e
  <2>6. n + a + b + u = k + aa + bb /\ (n > 0 => k > 0) /\ (k = 1 => ~(n > 1))
    BY <2>1, <2>2, <2>3
  <2> QED
    BY <2>4, <2>5, <2>6 DEF k, n, a, aa, b, bb, u
<1>18. TypeOK'
  <2>1. at' \in [Proc -> Labels] /\ got' \in [Proc -> Seq(Chan)] /\ \A q \in Proc : Len(got'[q]) <= 2
    BY <1>1, ReturnIs
  <2>2. job' = [q \in Proc |-> job'[q]]
    BY <1>1, <1>2 DEF TypeOK
  <2>3. ch' \in ChansType /\ mount' \in MountsType /\ head' \in [Group -> [File -> HeadType]]
    BY <1>8, <1>10, <1>16
  <2> QED
    BY <1>1, <1>2, <2>1, <2>2, <2>3 DEF TypeOK, ChansType, ChanType, MountsType, HeadType
<1>19. ASSUME NEW m \in ToSet(kept)
       PROVE  /\ mount'[m].mountid <= mountid'
              /\ \A n \in Table(g)' : n # m => mount'[n].mountid # mount'[m].mountid
  <2>1. Users(g) # {}
    BY <1>s DEF Users
  <2>2. m \in Table(g) /\ m \notin ToSet(gone) /\ m \in Mount
    BY <1>6, <1>7, <1>19
  <2>3. ASSUME NEW n \in Table(g)'
        PROVE  n \in Table(g) /\ n \notin ToSet(gone) /\ n \in Mount
    <3>1. Table(g)' = (Table(g) \ MountsOn(g, d)) \cup ToSet(kept)
          /\ \A k \in Table(g) : k \in Mount
      BY <1>2, <1>3, <1>4, <1>11, <1>18, EditLists
    <3> QED
      BY <1>6, <1>7, <2>3, <3>1
  <2>4. mount[m].mountid <= mountid /\ \A n \in Table(g) : n # m => mount[n].mountid # mount[m].mountid
    BY <1>2, <1>3, <2>1, <2>2 DEF IdInv
  <2> QED
    BY <1>1, <1>8, <2>2, <2>3, <2>4
<1>20. \A m \in MountsOn(g, d) : m \in Followed(p) => m \in ToSet(kept)
  BY <1>1, <1>6, <1>7 DEF Removable, Orderly
<1>21. mountid <= mountid'
  BY <1>1, <1>2 DEF TypeOK
<1>22. /\ Reading(g) = {} /\ at[p] = "op" /\ Return(p) /\ g \in Group /\ g = grp[p]
       /\ group' = group /\ grp' = grp /\ fd' = fd /\ job' = job /\ name' = name
       /\ c' = c /\ w' = w /\ fork' = fork /\ FreeOK(ch') /\ SameButRefs(ch, ch')
  BY <1>1, <1>3, <1>16, <1>s
<1>23. IndInv' /\ FilesKept
  BY <1>4, <1>11, <1>17, <1>18, <1>19, <1>20, <1>21, <1>22, EditStep
<1>24. UnmountDone(p, g, d, ms, gone, kept)
  BY <1>3, <1>4, <1>5, <1>11, <1>s DEF UnmountDone
<1> QED
  BY <1>23, <1>24 DEF UnmountEdits

LEMMA MadeIs ==
  ASSUME TypeOK, NEW to \in Seq(Chan), NEW ms \in Seq(Mount), IsInjective(ms), Len(ms) = Len(to),
         NEW made, made = Made(to, ms)
  PROVE  /\ made \in MountsType
         /\ \A m \in Mount : m \notin ToSet(ms) => made[m] = mount[m]
         /\ \A i \in 1..Len(ms) : /\ made[ms[i]].mountid = mountid + i /\ made[ms[i]].to = to[i]
                                  /\ made[ms[i]].live
<1> DEFINE n == Len(ms)
           at1(m) == CHOOSE i \in 1..n : ms[i] = m
           R == [mountid : Nat, next : Mount \cup {Nil}, to : Chan \cup {Nil},
                 copy : Mount \cup {Nil}, live : BOOLEAN]
           rec(i) == [NoMount EXCEPT !.mountid = mountid + i, !.to = to[i], !.live = TRUE]
<1>1. /\ n \in Nat /\ (\A i \in 1..n : ms[i] \in Mount /\ ms[i] \in ToSet(ms))
      /\ (\A m \in ToSet(ms) : \E i \in 1..n : ms[i] = m)
      /\ \A i, j \in 1..n : ms[i] = ms[j] => i = j
  BY SeqIs
<1>2. \A i \in 1..n : at1(ms[i]) = i
  BY <1>1
<1>3. \A m \in ToSet(ms) : at1(m) \in 1..n /\ ms[at1(m)] = m
  BY <1>1
<1>4. ASSUME NEW i \in 1..n
      PROVE  rec(i) \in R /\ rec(i).mountid = mountid + i /\ rec(i).to = to[i] /\ rec(i).live
  <2> DEFINE k == mountid + i
             x == to[i]
  <2>1. k \in Nat /\ x \in Chan
    <3>1. i \in Nat /\ i \in 1..Len(to) /\ mountid \in Nat
      BY <1>1, <1>4 DEF TypeOK
    <3> QED
      BY <3>1
  <2> HIDE DEF k, x
  <2>2. rec(i) = [mountid |-> k, next |-> Nil, to |-> x, copy |-> Nil, live |-> TRUE]
    <3>1. rec(i) = [NoMount EXCEPT !.mountid = k, !.to = x, !.live = TRUE]
      BY DEF k, x
    <3> HIDE DEF rec
    <3> QED
      BY <3>1 DEF NoMount
  <2>3. rec(i) \in R /\ rec(i).mountid = k /\ rec(i).to = x /\ rec(i).live
    BY <2>1, <2>2
  <2> QED
    BY <2>3 DEF k, x
<1>5. made = [m \in Mount |-> IF m \in ToSet(ms) THEN rec(at1(m)) ELSE mount[m]]
  BY DEF Made
<1>6. mount \in [Mount -> R]
  BY DEF TypeOK
<1> HIDE DEF at1, n, R, rec
<1>7. made \in [Mount -> R]
  BY <1>3, <1>4, <1>5, <1>6
<1>8. \A m \in Mount : m \notin ToSet(ms) => made[m] = mount[m]
  BY <1>5
<1>9. \A i \in 1..n : made[ms[i]] = rec(i)
  BY <1>1, <1>2, <1>5
<1> QED
  BY <1>4, <1>7, <1>8, <1>9 DEF n, R, MountsType

(* The list that a bind makes of the new mounts ms and those that are there. *)
Chains(order, u, l, v, chain) ==
  chain = Joined(order, IF order = "replace" THEN <<>> ELSE u \o l, v)

LEMMA ChainIs ==
  ASSUME NEW ms \in Seq(Mount), IsInjective(ms), NEW l \in Seq(Mount), IsInjective(l),
         ToSet(ms) \cap ToSet(l) = {}, NEW i \in 0..Len(ms), i # Len(ms),
         NEW order, order = "replace" => i = 0,
         NEW u, IsSub(u, ms, 1, i), NEW v, IsSub(v, ms, i + 1, Len(ms)),
         NEW chain, Chains(order, u, l, v, chain)
  PROVE  /\ chain \in Seq(Mount) /\ IsInjective(chain) /\ chain # <<>> /\ chain[1] \in Mount
         /\ ToSet(chain) = ToSet(ms) \cup (IF order = "replace" THEN {} ELSE ToSet(l))
<1> DEFINE n == Len(ms)
           base == IF order = "replace" THEN <<>> ELSE u \o l
<1>1. n \in Nat /\ i \in 0..n /\ i # n /\ (\A x : x \in ToSet(ms) <=> \E k \in 1..n : x = ms[k])
      /\ \A k, j \in 1..n : ms[k] = ms[j] => k = j
  BY SeqIs
<1>2. u \in Seq(Mount) /\ IsInjective(u) /\ \A x : x \in ToSet(u) <=> \E k \in 1..i : x = ms[k]
  BY StartIs
<1>3. v \in Seq(Mount) /\ IsInjective(v) /\ Len(v) = n - i
      /\ \A x : x \in ToSet(v) <=> \E k \in (i + 1)..n : x = ms[k]
  BY EndIs
<1> HIDE DEF n
<1>4. ToSet(u) \cap ToSet(v) = {} /\ ToSet(u) \cup ToSet(v) = ToSet(ms)
  <2>1. \A k \in 1..i : k \in 1..n /\ k \notin (i + 1)..n
    BY <1>1
  <2>2. \A k \in (i + 1)..n : k \in 1..n
    BY <1>1
  <2>3. \A k \in 1..n : k \in 1..i \/ k \in (i + 1)..n
    BY <1>1
  <2>4. ASSUME NEW x \in ToSet(u), x \in ToSet(v)
        PROVE  FALSE
    BY <1>1, <1>2, <1>3, <2>1, <2>2, <2>4
  <2>5. \A x : x \in ToSet(ms) => x \in ToSet(u) \cup ToSet(v)
    BY <1>1, <1>2, <1>3, <2>3
  <2>6. \A x : x \in ToSet(u) \cup ToSet(v) => x \in ToSet(ms)
    BY <1>1, <1>2, <1>3, <2>1, <2>2
  <2> QED
    BY <2>4, <2>5, <2>6
<1>5. v # <<>> /\ Len(v) \in Nat /\ Len(v) # 0
  <2>1. Len(v) # 0
    BY <1>1, <1>3
  <2> QED
    BY <1>3, <2>1
<1>6. base \in Seq(Mount) /\ IsInjective(base) /\ ToSet(base) \cap ToSet(v) = {}
      /\ ToSet(base) \cup ToSet(v) = ToSet(ms) \cup (IF order = "replace" THEN {} ELSE ToSet(l))
  <2>1. CASE order = "replace"
    <3>1. base = <<>> /\ ToSet(base) = {} /\ IsInjective(base)
      BY <2>1 DEF ToSet, IsInjective
    <3>2. i = 0
      BY <2>1
    <3>3. ToSet(u) = {}
      BY <1>2, <3>2
    <3> QED
      BY <1>4, <2>1, <3>1, <3>3
  <2>2. CASE order # "replace"
    <3>1. base = u \o l /\ ToSet(u) \cap ToSet(l) = {}
      BY <1>4, <2>2
    <3>2. u \o l \in Seq(Mount) /\ IsInjective(u \o l) /\ ToSet(u \o l) = ToSet(u) \cup ToSet(l)
      BY <1>2, <3>1, JoinIs
    <3> QED
      BY <1>4, <2>2, <3>1, <3>2
  <2> QED
    BY <2>1, <2>2
<1>a. v \in Seq(Mount) /\ IsInjective(v)
  BY <1>3
<1>b. ASSUME NEW b \in Seq(Mount), IsInjective(b), ToSet(b) \cap ToSet(v) = {}
      PROVE  /\ b \o v \in Seq(Mount) /\ IsInjective(b \o v) /\ ToSet(b \o v) = ToSet(b) \cup ToSet(v)
             /\ v \o b \in Seq(Mount) /\ IsInjective(v \o b) /\ ToSet(v \o b) = ToSet(v) \cup ToSet(b)
  <2>1. ToSet(v) \cap ToSet(b) = {}
    BY <1>b
  <2>2. /\ b \o v \in Seq(Mount) /\ IsInjective(b \o v) /\ ToSet(b \o v) = ToSet(b) \cup ToSet(v)
    BY <1>a, <1>b, JoinIs
  <2>3. /\ v \o b \in Seq(Mount) /\ IsInjective(v \o b) /\ ToSet(v \o b) = ToSet(v) \cup ToSet(b)
    BY <1>a, <1>b, <2>1, JoinIs
  <2> QED
    BY <2>2, <2>3
<1>7. /\ base \o v \in Seq(Mount) /\ IsInjective(base \o v) /\ ToSet(base \o v) = ToSet(base) \cup ToSet(v)
  BY <1>6, <1>b
<1>8. /\ v \o base \in Seq(Mount) /\ IsInjective(v \o base) /\ ToSet(v \o base) = ToSet(base) \cup ToSet(v)
  BY <1>6, <1>b
<1>9. chain = base \o v \/ chain = v \o base
  BY DEF Joined, Chains
<1> HIDE DEF base
<1>10. chain \in Seq(Mount) /\ IsInjective(chain) /\ ToSet(chain) = ToSet(base) \cup ToSet(v)
  BY <1>7, <1>8, <1>9
<1>11. ToSet(v) # {}
  BY <1>3, <1>5, SeqIs
<1>12. chain # <<>> /\ chain[1] \in Mount
  <2>1. chain # <<>>
    BY <1>10, <1>11, SeqIs
  <2> QED
    BY <1>10, <2>1
<1> QED
  BY <1>6, <1>10, <1>12

(* The channels of a bind, and the rest of the union that is bound. *)
BindOf(p, g, new, old, more) ==
  /\ g = grp[p] /\ new = got[p][1] /\ old = got[p][2]
  /\ more = IF ch.of[new].mnt = Nil THEN <<>> ELSE Tail(ListFrom(ch.of[new].mnt))

LEMMA BindHas ==
  ASSUME IndInv, NEW p \in Proc, Ready(p, "bind"), NEW g, NEW new, NEW old, NEW more,
         BindOf(p, g, new, old, more)
  PROVE  /\ g \in Group /\ at[p] = "op" /\ job[p] \in Calls[p] /\ job[p].op = "bind"
         /\ new \in Chan /\ old \in Chan /\ new # old /\ got[p] = <<new, old>>
         /\ \A x \in {new, old} : /\ ch.of[x].ref = 1 /\ ch.of[x].file \in File /\ fd[p] # x
                                  /\ \A q \in Proc \ {p} : Own(q, x) = 0
         /\ more \in Seq(Mount) /\ \A m \in ToSet(more) : m \in Mount /\ mount[m].live
         /\ \A z : Own(p, z) = Count(got[p], z) + (IF fd[p] = z THEN 1 ELSE 0) /\ Count(got[p], z) \in Nat
<1>0. /\ g = grp[p] /\ new = got[p][1] /\ old = got[p][2]
      /\ more = IF ch.of[new].mnt = Nil THEN <<>> ELSE Tail(ListFrom(ch.of[new].mnt))
  BY DEF BindOf
<1>1. TypeOK /\ ListInv /\ RefsExact /\ Private /\ Showing(p)
  BY DEF IndInv, ShowsInv
<1>2. /\ at[p] = "op" /\ job[p] \in Calls[p] /\ job[p].op = "bind"
      /\ Len(got[p]) = 2 /\ got[p] \in Seq(Chan)
      /\ \A z : Own(p, z) = Count(got[p], z) + (IF fd[p] = z THEN 1 ELSE 0) /\ Count(got[p], z) \in Nat
  BY ReadyHas
<1>3. 1 \in 1..Len(got[p]) /\ 2 \in 1..Len(got[p]) /\ got[p] = <<new, old>>
  <2>1. 1 \in 1..2 /\ 2 \in 1..2
    OBVIOUS
  <2> QED
    BY <1>0, <1>2, <2>1
<1>4. /\ new \in Chan /\ Own(p, new) > 0 /\ old \in Chan /\ Own(p, old) > 0
  BY <1>0, <1>1, <1>3, OwnsThem
<1>5. \A x \in {new, old} : ch.of[x].ref = 1 /\ Own(p, x) = 1 /\ \A q \in Proc \ {p} : Own(q, x) = 0
  BY <1>1, <1>4, OwnAlone
<1>6. \A x : Count(got[p], x) = (IF x = new THEN 1 ELSE 0) + (IF x = old THEN 1 ELSE 0)
  BY <1>3, CountTwo
<1>7. new # old /\ \A x \in {new, old} : fd[p] # x
  BY <1>2, <1>5, <1>6
<1>8. \A x \in {new, old} : ch.of[x].file \in File
  BY <1>4, <1>5, Channels
<1>9. g \in Group
  BY <1>0, <1>1 DEF TypeOK
<1>10. more \in Seq(Mount) /\ \A m \in ToSet(more) : m \in Mount /\ mount[m].live
  <2>1. CASE ch.of[new].mnt = Nil
    BY <1>0, <2>1 DEF ToSet
  <2>2. CASE ch.of[new].mnt # Nil
    <3>s. SUFFICES ASSUME NEW k, k = ch.of[new].mnt
                   PROVE  more \in Seq(Mount) /\ \A m \in ToSet(more) : m \in Mount /\ mount[m].live
      OBVIOUS
    <3>1. Names(job[p]) = << <<job[p].what, "access">>, <<job[p].on, "mount">> >>
      BY <1>2 DEF Names
    <3>2. Names(job[p])[1][2] = "access"
      BY <3>1
    <3>3. GotShows(p, 1)
      BY <1>1, <1>3 DEF Showing
    <3>4. k \in Table(g)
      BY <1>0, <2>2, <3>2, <3>3, <3>s DEF GotShows, ShowsIn
    <3>5. PICK e \in File : k \in MountsOn(g, e)
      BY <3>4 DEF Table
    <3> DEFINE s == ListFrom(k)
    <3>6. s \in Seq(Mount) /\ ToSet(s) \subseteq MountsOn(g, e) /\ s # <<>>
          /\ \A m \in MountsOn(g, e) : m \in Mount /\ mount[m].live
      BY <1>1, <1>9, <3>5, TableLive
    <3>7. more = Tail(s)
      BY <1>0, <2>2, <3>s
    <3> HIDE DEF s
    <3>8. Tail(s) \in Seq(Mount) /\ ToSet(Tail(s)) \subseteq ToSet(s)
      <4>1. /\ Tail(s) \in Seq(Mount) /\ Len(s) \in Nat /\ Len(Tail(s)) = Len(s) - 1 /\ Len(s) # 0
            /\ \A i \in 1..(Len(s) - 1) : Tail(s)[i] = s[i + 1]
        BY <3>6
      <4>2. \A i \in 1..(Len(s) - 1) : i + 1 \in 1..Len(s)
        BY <4>1
      <4>3. ToSet(Tail(s)) = {Tail(s)[i] : i \in 1..(Len(s) - 1)}
        BY <4>1, SeqIs
      <4>4. \A i \in 1..Len(s) : s[i] \in ToSet(s)
        BY <3>6, SeqIs
      <4> QED
        BY <4>1, <4>2, <4>3, <4>4
    <3> QED
      BY <3>6, <3>7, <3>8
  <2> QED
    BY <2>1, <2>2
<1> QED
  BY <1>2, <1>3, <1>4, <1>5, <1>7, <1>8, <1>9, <1>10

(* What cmount is called with. *)
Binds(p, g, d, new, old, order, more, self, to) ==
  /\ BindOf(p, g, new, old, more) /\ d = FileOf(old)
  /\ self = OwnMember(head[g][d].from, old, order)
  /\ to = self \o <<new>> \o ToOf(more)

(* The channels that a bind mounts. *)
LEMMA BindTo ==
  ASSUME IndInv, NEW p \in Proc, Ready(p, "bind"), NEW g, NEW d, NEW new, NEW old, NEW order,
         NEW more, NEW self, NEW to, Binds(p, g, d, new, old, order, more, self, to)
  PROVE  /\ to \in Seq(Chan) /\ Len(self) \in 0..Len(to) /\ Len(self) # Len(to)
         /\ order = "replace" => Len(self) = 0
         /\ \A z \in ToSet(to) : ch.of[z].ref > 0
         /\ \A z \in Chan : z = fd[p] \/ (\E q \in Proc \ {p} : Own(q, z) > 0) => Count(to, z) = 0
         /\ \A z \in Chan : Count(to, z) \in Nat /\ (Count(to, z) > 0 => ch.of[z].ref > 0)
<1>1. TypeOK /\ ListInv /\ RefsExact /\ Private
  BY DEF IndInv
<1>2. /\ new \in Chan /\ old \in Chan
      /\ \A x \in {new, old} : /\ ch.of[x].ref = 1 /\ fd[p] # x
                               /\ \A q \in Proc \ {p} : Own(q, x) = 0
      /\ more \in Seq(Mount) /\ \A m \in ToSet(more) : m \in Mount /\ mount[m].live
  <2>1. BindOf(p, g, new, old, more)
    BY DEF Binds
  <2> QED
    BY <2>1, BindHas
<1>3. self \in Seq(Chan) /\ Len(self) \in Nat /\ ToSet(self) \subseteq {old} /\ (order = "replace" => Len(self) = 0)
  <2>1. self = <<>> \/ self = <<old>>
    BY DEF OwnMember, Binds
  <2>2. ToSet(<<>>) = {} /\ ToSet(<<old>>) = {old}
    BY DEF ToSet
  <2>3. order = "replace" => self = <<>>
    BY DEF OwnMember, Binds
  <2>4. CASE self = <<>>
    BY <2>2, <2>4
  <2>5. CASE self = <<old>>
    <3>1. old \in Chan
      BY <1>2
    <3>2. <<old>> \in Seq(Chan) /\ Len(<<old>>) = 1
      BY <3>1
    <3>3. <<old>> # <<>>
      OBVIOUS
    <3> QED
      BY <2>2, <2>3, <2>5, <3>2, <3>3
  <2> QED
    BY <2>1, <2>4, <2>5
<1> DEFINE a == <<new>>
           b == ToOf(more)
<1>4. a \in Seq(Chan) /\ ToSet(a) = {new} /\ Len(a) = 1
  BY <1>2 DEF ToSet
<1>5. /\ b \in Seq(Chan) /\ Len(b) \in Nat
      /\ \A x \in ToSet(b) : \E m \in Mount : mount[m].live /\ x = To(m)
  <2> DEFINE k == Len(more)
  <2>1. k \in Nat /\ \A i \in 1..k : more[i] \in ToSet(more)
    BY <1>2, SeqIs
  <2>2. b = [i \in 1..k |-> To(more[i])]
    BY DEF ToOf
  <2>3. \A i \in 1..k : more[i] \in Mount /\ mount[more[i]].live /\ To(more[i]) \in Chan
    BY <1>1, <1>2, <2>1 DEF ListInv
  <2> HIDE DEF k, b
  <2>4. b \in [1..k -> Chan]
    BY <2>2, <2>3
  <2>5. b \in Seq(Chan) /\ Len(b) = k
    BY <2>1, <2>4
  <2>6. \A x \in ToSet(b) : \E i \in 1..k : b[i] = x
    BY <2>5, SeqIs
  <2> QED
    BY <2>1, <2>2, <2>3, <2>5, <2>6
<1>6. to = (self \o a) \o b
  BY DEF Binds
<1> HIDE DEF a, b
<1>7. self \o a \in Seq(Chan) /\ ToSet(self \o a) = ToSet(self) \cup ToSet(a)
      /\ Len(self \o a) = Len(self) + Len(a)
  <2>1. Len(self \o a) = Len(self) + Len(a)
    <3>1. \A s, t \in Seq(Chan) : Len(s \o t) = Len(s) + Len(t)
      OBVIOUS
    <3> QED
      BY <1>3, <1>4, <3>1
  <2> QED
    BY <1>3, <1>4, <2>1, CountConcat
<1>8. to \in Seq(Chan) /\ ToSet(to) = ToSet(self) \cup ToSet(a) \cup ToSet(b)
      /\ Len(to) = Len(self) + 1 + Len(b)
  <2>1. \A s \in Seq(Chan) : s \o b \in Seq(Chan) /\ ToSet(s \o b) = ToSet(s) \cup ToSet(b)
                             /\ Len(s \o b) = Len(s) + Len(b)
    <3>1. \A s \in Seq(Chan) : Len(s \o b) = Len(s) + Len(b)
      BY <1>5
    <3> QED
      BY <1>5, <3>1, CountConcat
  <2> QED
    BY <1>4, <1>6, <1>7, <2>1
<1>9. \A m \in Mount : mount[m].live => ch.of[To(m)].ref > 0 /\ \A q \in Proc : Own(q, To(m)) = 0
  BY <1>1, TableChan
<1>10. \A z \in ToSet(to) : z \in {new, old} \/ \E m \in Mount : mount[m].live /\ z = To(m)
  BY <1>3, <1>4, <1>5, <1>8
<1>11. \A z \in ToSet(to) : ch.of[z].ref > 0
  BY <1>2, <1>9, <1>10
<1>12. \A z \in Chan : z = fd[p] => Own(p, z) > 0
  BY <1>1, OwnsThem, NameSpaceAssumption DEF Chan, Nil
<1>13. ASSUME NEW z \in Chan, z = fd[p] \/ (\E q \in Proc \ {p} : Own(q, z) > 0)
       PROVE  z \notin ToSet(to)
  <2>1. \E q \in Proc : Own(q, z) > 0
    BY <1>12, <1>13
  <2>2. z # new /\ z # old
    BY <1>2, <1>13
  <2> QED
    BY <1>9, <1>10, <2>1, <2>2
<1>14. \A z \in Chan : Count(to, z) \in Nat /\ (Count(to, z) = 0 <=> z \notin ToSet(to))
  BY <1>8, CountType
<1>15. Len(self) \in 0..Len(to) /\ Len(self) # Len(to)
  BY <1>3, <1>5, <1>8
<1>16. \A z \in Chan : z = fd[p] \/ (\E q \in Proc \ {p} : Own(q, z) > 0) => Count(to, z) = 0
  BY <1>13, <1>14
<1>17. \A z \in Chan : Count(to, z) \in Nat /\ (Count(to, z) > 0 => ch.of[z].ref > 0)
  BY <1>11, <1>14
<1> QED
  BY <1>3, <1>8, <1>11, <1>15, <1>16, <1>17

(* What a bind does to the mounts. *)
Binding(g, d, order, to, i, ms, chain, gone, mu) ==
  /\ ms = Fresh(Len(to)) /\ EnoughMounts(Len(to))
  /\ i \in 0..Len(to) /\ i # Len(to) /\ (order = "replace" => i = 0)
  /\ chain = Joined(order, IF order = "replace" THEN <<>> ELSE SubSeq(ms, 1, i) \o List(g, d),
                    SubSeq(ms, i + 1, Len(ms)))
  /\ gone = IF order = "replace" THEN List(g, d) ELSE <<>>
  /\ mu = MountFree(Linked(Made(to, ms), chain), gone)

(* The mounts and lists that result. *)
Bound(g, d, order, to, ms, chain, gone, mu) ==
  /\ ms \in Seq(Mount) /\ IsInjective(ms) /\ Len(ms) = Len(to)
  /\ \A m \in ToSet(ms) : m \in Mount /\ ~mount[m].live /\ mu[m].live
  /\ gone \in Seq(Mount) /\ IsInjective(gone)
  /\ ToSet(gone) = (IF order = "replace" THEN MountsOn(g, d) ELSE {})
  /\ chain \in Seq(Mount) /\ chain[1] \in Mount
  /\ ToSet(chain) = ToSet(ms) \cup (IF order = "replace" THEN {} ELSE MountsOn(g, d))
  /\ IsList(mu, chain, chain[1])
  /\ mu \in MountsType
  /\ \A j \in 1..Len(to) : mu[ms[j]].mountid = mountid + j /\ mu[ms[j]].to = to[j]
  /\ \A m \in Mount : m \notin ToSet(ms) =>
       /\ mu[m].to = mount[m].to /\ mu[m].copy = mount[m].copy
       /\ m \notin ToSet(chain) => mu[m].next = mount[m].next
       /\ m \notin ToSet(gone) => mu[m].mountid = mount[m].mountid /\ mu[m].live = mount[m].live
       /\ m \in ToSet(gone) => ~mu[m].live

LEMMA BindMounts ==
  ASSUME TypeOK, ListInv, NEW g \in Group, NEW d \in File, NEW order, NEW to \in Seq(Chan),
         NEW i, NEW ms, NEW chain, NEW gone, NEW mu, Binding(g, d, order, to, i, ms, chain, gone, mu)
  PROVE  Bound(g, d, order, to, ms, chain, gone, mu)
<1> DEFINE l == List(g, d)
           made == Made(to, ms)
           k == Len(to)
<1>1. k \in Nat
  OBVIOUS
<1>2. /\ ms \in Seq(Mount) /\ Len(ms) = k /\ IsInjective(ms)
      /\ \A m \in ToSet(ms) : m \in Mount /\ ~mount[m].live
  <2>1. ms = Fresh(k) /\ EnoughMounts(k)
    BY DEF Binding
  <2> HIDE DEF k
  <2> QED
    BY <1>1, <2>1, FreshIs
<1>3. l \in Seq(Mount) /\ IsInjective(l) /\ ToSet(l) = MountsOn(g, d) /\ \A m \in ToSet(l) : m \in Mount /\ mount[m].live
  BY TableLive DEF MountsOn
<1>4. ToSet(ms) \cap ToSet(l) = {}
  BY <1>2, <1>3
<1>5. made = Made(to, ms) /\ mu = MountFree(Linked(made, chain), gone)
  BY DEF Binding
<1> HIDE DEF l, made
<1>6. /\ made \in MountsType
      /\ \A m \in Mount : m \notin ToSet(ms) => made[m] = mount[m]
      /\ \A j \in 1..Len(ms) : /\ made[ms[j]].mountid = mountid + j /\ made[ms[j]].to = to[j]
                               /\ made[ms[j]].live
  BY <1>2, <1>5, MadeIs DEF k
<1>7. /\ chain \in Seq(Mount) /\ IsInjective(chain) /\ chain # <<>> /\ chain[1] \in Mount
      /\ ToSet(chain) = ToSet(ms) \cup (IF order = "replace" THEN {} ELSE ToSet(l))
  <2> DEFINE u == SubSeq(ms, 1, i)
             v == SubSeq(ms, i + 1, Len(ms))
  <2>1. IsSub(u, ms, 1, i) /\ IsSub(v, ms, i + 1, Len(ms))
    BY DEF IsSub
  <2>2. i \in 0..Len(ms) /\ i # Len(ms) /\ (order = "replace" => i = 0)
    BY <1>2 DEF k, Binding
  <2>3. Chains(order, u, l, v, chain)
    BY DEF l, Binding, Chains
  <2> HIDE DEF u, v
  <2> QED
    BY <1>2, <1>3, <1>4, <2>1, <2>2, <2>3, ChainIs
<1>8. gone \in Seq(Mount) /\ IsInjective(gone) /\ ToSet(gone) = (IF order = "replace" THEN ToSet(l) ELSE {})
  <2>1. <<>> \in Seq(Mount) /\ IsInjective(<<>>) /\ ToSet(<<>>) = {}
    BY DEF IsInjective, ToSet
  <2>2. gone = IF order = "replace" THEN l ELSE <<>>
    BY DEF l, Binding
  <2>3. CASE order = "replace"
    <3>1. gone = l
      BY <2>2, <2>3
    <3> QED
      BY <1>3, <2>3, <3>1
  <2>4. CASE order # "replace"
    <3>1. gone = <<>>
      BY <2>2, <2>4
    <3> QED
      BY <2>1, <2>4, <3>1
  <2> QED
    BY <2>3, <2>4
<1>9. /\ mu \in MountsType
      /\ \A m : m = (IF chain = <<>> THEN Nil ELSE chain[1]) => IsList(mu, chain, m)
      /\ \A m \in Mount :
           /\ mu[m].to = made[m].to /\ mu[m].copy = made[m].copy
           /\ m \notin ToSet(chain) => mu[m].next = made[m].next
           /\ m \notin ToSet(gone) => mu[m].mountid = made[m].mountid /\ mu[m].live = made[m].live
           /\ m \in ToSet(gone) => ~mu[m].live
  BY <1>5, <1>6, <1>7, <1>8, RelinkedIs
<1>10. IsList(mu, chain, chain[1])
  BY <1>7, <1>9
<1>11. \A j \in 1..k : ms[j] \in Mount /\ ms[j] \in ToSet(ms) /\ ms[j] \notin ToSet(gone)
  <2>1. \A j \in 1..k : ms[j] \in Mount /\ ms[j] \in ToSet(ms)
    BY <1>2, SeqIs
  <2> QED
    BY <1>4, <1>8, <2>1
<1>12. \A j \in 1..k : mu[ms[j]].mountid = mountid + j /\ mu[ms[j]].to = to[j] /\ mu[ms[j]].live
  BY <1>2, <1>6, <1>9, <1>11
<1>13. \A m \in ToSet(ms) : mu[m].live
  <2>1. \A m \in ToSet(ms) : \E j \in 1..k : ms[j] = m
    BY <1>2, SeqIs
  <2> QED
    BY <1>12, <2>1
<1>14. \A m \in Mount : m \notin ToSet(ms) =>
              /\ mu[m].to = mount[m].to /\ mu[m].copy = mount[m].copy
              /\ m \notin ToSet(chain) => mu[m].next = mount[m].next
              /\ m \notin ToSet(gone) => mu[m].mountid = mount[m].mountid /\ mu[m].live = mount[m].live
              /\ m \in ToSet(gone) => ~mu[m].live
  BY <1>6, <1>9
<1> QED
  BY <1>2, <1>3, <1>7, <1>8, <1>9, <1>10, <1>12, <1>13, <1>14 DEF k, Bound

(* What a bind has done to the list of d. *)
BindDone(p, g, d, new, old, order, more, self, to, ms, chain) ==
  /\ g \in Group /\ d \in File /\ order = job[p].order
  /\ Ready(p, "bind") /\ Binds(p, g, d, new, old, order, more, self, to)
  /\ to \in Seq(Chan) /\ Len(self) \in 0..Len(to) /\ Len(self) # Len(to)
  /\ ms \in Seq(Mount) /\ Len(ms) = Len(to) /\ \A j \in 1..Len(to) : mount'[ms[j]].to = to[j]
  /\ chain = Joined(order, IF order = "replace" THEN <<>> ELSE SubSeq(ms, 1, Len(self)) \o List(g, d),
                    SubSeq(ms, Len(self) + 1, Len(ms)))
  /\ Edited(g, d, chain) /\ SameButRefs(ch, ch')
BindEdits(p) == \E g, d, new, old, order, more, self, to, ms, chain :
               BindDone(p, g, d, new, old, order, more, self, to, ms, chain)

LEMMA BindKeeps ==
  ASSUME IndInv, Orderly, NEW p \in Proc, Bind(p)
  PROVE  IndInv' /\ FilesKept /\ BindEdits(p)
<1>s. SUFFICES ASSUME NEW g, g = grp[p], NEW new, new = got[p][1], NEW old, old = got[p][2],
                      NEW d, d = FileOf(old), NEW order, order = job[p].order,
                      NEW more, more = IF ch.of[new].mnt = Nil THEN <<>> ELSE Tail(ListFrom(ch.of[new].mnt)),
                      NEW self, self = OwnMember(head[g][d].from, old, order),
                      NEW to, to = self \o <<new>> \o ToOf(more),
                      NEW gone, gone = IF order = "replace" THEN List(g, d) ELSE <<>>
               PROVE  IndInv' /\ FilesKept /\ BindEdits(p)
  BY ZenonT(60)
<1>t. SUFFICES ASSUME NEW ms, ms = Fresh(Len(to)),
                      NEW chain, chain = Joined(order,
                        IF order = "replace" THEN <<>> ELSE SubSeq(ms, 1, Len(self)) \o List(g, d),
                        SubSeq(ms, Len(self) + 1, Len(ms))),
                      NEW from, from = (IF head[g][d].from = Nil THEN old ELSE head[g][d].from),
                      NEW r, r = [from |-> from, mount |-> chain[1]],
                      NEW n, n = [x \in Chan |-> Count(to, x) + IF head[g][d].from = Nil /\ x = old THEN 1 ELSE 0]
               PROVE  IndInv' /\ FilesKept /\ BindEdits(p)
  BY ZenonT(60)
<1>1. /\ Ready(p, "bind") /\ Reading(g) = {} /\ EnoughMounts(Len(to)) /\ Removable(p, gone)
      /\ mount' = MountFree(Linked(Made(to, ms), chain), gone)
      /\ head' = [head EXCEPT ![g][d] = r]
      /\ mountid' = mountid + Len(to)
      /\ ch' = CloseAll(IncrefAll(ch, n), ToOf(gone) \o <<old, new>>)
      /\ Return(p)
      /\ group' = group /\ grp' = grp /\ fd' = fd /\ job' = job /\ name' = name
      /\ c' = c /\ w' = w /\ fork' = fork /\ left' = left
  <2>1. head' = [head EXCEPT ![g][d] = r]
    BY <1>s, <1>t, ZenonT(90) DEF Bind
  <2>2. ch' = CloseAll(IncrefAll(ch, n), ToOf(gone) \o <<old, new>>)
    BY <1>s, <1>t, ZenonT(90) DEF Bind
  <2>3. mount' = MountFree(Linked(Made(to, ms), chain), gone)
    BY <1>s, <1>t, ZenonT(90) DEF Bind
  <2>4. /\ Ready(p, "bind") /\ Reading(g) = {} /\ EnoughMounts(Len(to)) /\ Removable(p, gone)
        /\ mountid' = mountid + Len(to)
    BY <1>s DEF Bind
  <2>5. /\ Return(p)
        /\ group' = group /\ grp' = grp /\ fd' = fd /\ job' = job /\ name' = name
        /\ c' = c /\ w' = w /\ fork' = fork /\ left' = left
    BY DEF Bind, walking
  <2> QED
    BY <2>1, <2>2, <2>3, <2>4, <2>5
<1>2. TypeOK /\ ListInv /\ IdInv /\ RefsExact /\ Private
  BY DEF IndInv
<1>3. Binds(p, g, d, new, old, order, more, self, to) /\ BindOf(p, g, new, old, more)
  BY <1>s DEF Binds, BindOf
<1>4. /\ g \in Group /\ at[p] = "op"
      /\ new \in Chan /\ old \in Chan /\ new # old /\ got[p] = <<new, old>>
      /\ \A x \in {new, old} : /\ ch.of[x].ref = 1 /\ ch.of[x].file \in File /\ fd[p] # x
                               /\ \A q \in Proc \ {p} : Own(q, x) = 0
      /\ \A z : Own(p, z) = Count(got[p], z) + (IF fd[p] = z THEN 1 ELSE 0) /\ Count(got[p], z) \in Nat
  BY <1>1, <1>3, BindHas
<1>5. d \in File
  BY <1>4, <1>s DEF FileOf
<1>6. /\ to \in Seq(Chan) /\ Len(self) \in 0..Len(to) /\ Len(self) # Len(to)
      /\ order = "replace" => Len(self) = 0
      /\ \A z \in Chan : z = fd[p] \/ (\E q \in Proc \ {p} : Own(q, z) > 0) => Count(to, z) = 0
      /\ \A z \in Chan : Count(to, z) \in Nat /\ (Count(to, z) > 0 => ch.of[z].ref > 0)
  BY <1>1, <1>3, BindTo
<1> DEFINE mu == mount'
           k == Len(to)
           M == MountsOn(g, d)
<1>7. /\ ms \in Seq(Mount) /\ IsInjective(ms) /\ Len(ms) = Len(to)
      /\ \A m \in ToSet(ms) : m \in Mount /\ ~mount[m].live /\ mu[m].live
      /\ gone \in Seq(Mount) /\ IsInjective(gone)
      /\ ToSet(gone) = (IF order = "replace" THEN M ELSE {})
      /\ chain \in Seq(Mount) /\ chain[1] \in Mount
      /\ ToSet(chain) = ToSet(ms) \cup (IF order = "replace" THEN {} ELSE M)
      /\ IsList(mu, chain, chain[1])
      /\ mu \in MountsType
      /\ \A j \in 1..Len(to) : mu[ms[j]].mountid = mountid + j /\ mu[ms[j]].to = to[j]
      /\ \A m \in Mount : m \notin ToSet(ms) =>
           /\ mu[m].to = mount[m].to /\ mu[m].copy = mount[m].copy
           /\ m \notin ToSet(chain) => mu[m].next = mount[m].next
           /\ m \notin ToSet(gone) => mu[m].mountid = mount[m].mountid /\ mu[m].live = mount[m].live
           /\ m \in ToSet(gone) => ~mu[m].live
  <2> DEFINE i == Len(self)
  <2>1. Binding(g, d, order, to, i, ms, chain, gone, mu)
    BY <1>1, <1>6, <1>s, <1>t DEF Binding
  <2>2. TypeOK /\ ListInv /\ g \in Group /\ d \in File /\ to \in Seq(Chan)
    BY <1>2, <1>4, <1>5, <1>6
  <2> HIDE DEF mu, i
  <2>3. Bound(g, d, order, to, ms, chain, gone, mu)
    BY <2>1, <2>2, BindMounts
  <2> QED
    BY <2>3 DEF Bound
<1>8. k \in Nat /\ mountid \in Nat /\ (\A m \in ToSet(ms) : \E j \in 1..k : ms[j] = m)
      /\ (\A i, j \in 1..k : ms[i] = ms[j] => i = j) /\ \A j \in 1..k : ms[j] \in ToSet(ms)
  <2>1. mountid \in Nat
    BY <1>2 DEF TypeOK
  <2>2. ms \in Seq(Mount) /\ IsInjective(ms) /\ Len(ms) = k
    BY <1>7
  <2> HIDE DEF k
  <2> QED
    BY <2>1, <2>2, SeqIs
<1>9. \A m \in M : m \in Mount /\ mount[m].live /\ m \in Table(g) /\ m \notin ToSet(ms)
  BY <1>2, <1>4, <1>5, <1>7, TableLive
<1>10. from \in Chan /\ r \in HeadType /\ r.from = from /\ r.mount = chain[1]
  <2>1. head[g][d] \in HeadType
    BY <1>2, <1>4, <1>5 DEF TypeOK, HeadType
  <2>2. from \in Chan
    BY <1>4, <1>t, <2>1 DEF HeadType
  <2> QED
    BY <1>7, <1>t, <2>2 DEF HeadType
<1>11. /\ head' \in [Group -> [File -> HeadType]] /\ head'[g][d] = r
       /\ \A h \in Group, e \in File : h # g \/ e # d => head'[h][e] = head[h][e]
  <2> DEFINE hh == head
             kk == head'
  <2>1. hh \in [Group -> [File -> HeadType]] /\ kk = [hh EXCEPT ![g][d] = r]
    BY <1>1, <1>2 DEF TypeOK, HeadType
  <2> HIDE DEF hh, kk
  <2>2. /\ kk \in [Group -> [File -> HeadType]] /\ kk[g][d] = r
        /\ \A h \in Group, e \in File : h # g \/ e # d => kk[h][e] = hh[h][e]
    BY <1>4, <1>5, <1>10, <2>1, PutIs
  <2> QED
    BY <2>2 DEF hh, kk
<1>12. \A m \in ToSet(ms) : /\ mu[m].to \in Chan /\ mu[m].mountid \in Int
                            /\ mountid < mu[m].mountid /\ mu[m].mountid <= mountid + k
                            /\ \A l \in ToSet(ms) : l # m => mu[l].mountid # mu[m].mountid
  <2>1. ASSUME NEW m \in ToSet(ms)
        PROVE  /\ mu[m].to \in Chan /\ mu[m].mountid \in Int
               /\ mountid < mu[m].mountid /\ mu[m].mountid <= mountid + k
    <3>1. PICK j \in 1..k : ms[j] = m
      BY <1>8
    <3>2. mu[m].mountid = mountid + j /\ mu[m].to = to[j]
      BY <1>7, <3>1
    <3>3. to[j] \in Chan
      BY <1>6
    <3> HIDE DEF mu, k
    <3> QED
      BY <1>8, <3>2, <3>3
  <2>2. ASSUME NEW m \in ToSet(ms), NEW l \in ToSet(ms), l # m
        PROVE  mu[l].mountid # mu[m].mountid
    <3>1. PICK j \in 1..k : ms[j] = m
      BY <1>8
    <3>2. PICK i \in 1..k : ms[i] = l
      BY <1>8
    <3>3. mu[m].mountid = mountid + j /\ mu[l].mountid = mountid + i /\ i # j
      BY <1>7, <2>2, <3>1, <3>2
    <3> HIDE DEF mu, k
    <3> QED
      BY <1>8, <3>3
  <2> QED
    BY <2>1, <2>2
<1>13. Edited(g, d, chain)
  <2>1. IsList(mount', chain, head'[g][d].mount) /\ (head'[g][d].from = Nil <=> head'[g][d].mount = Nil)
    <3>1. Nil \notin Chan /\ Nil \notin Mount
      BY NameSpaceAssumption DEF Nil, Chan, Mount
    <3> QED
      BY <1>7, <1>10, <1>11, <3>1
  <2>2. \A m \in ToSet(chain) : mount'[m].live /\ (mount[m].live => m \in MountsOn(g, d))
    BY <1>7, <1>9
  <2>3. \A m \in Mount : mount[m].live /\ m \notin MountsOn(g, d) =>
          mount'[m].live /\ mount'[m].next = mount[m].next
    BY <1>7
  <2>4. \A m \in Mount : mount[m].live /\ (m \notin MountsOn(g, d) \/ m \in ToSet(chain)) =>
          mount'[m].mountid = mount[m].mountid /\ To(m)' = To(m) /\ mount'[m].copy = mount[m].copy
    BY <1>7 DEF To
  <2>5. \A m \in Mount : mount'[m].live => To(m)' \in Chan
    <3>1. ASSUME NEW m \in Mount, mu[m].live, m \notin ToSet(ms)
          PROVE  mu[m].to \in Chan
      <4>1. mount[m].live /\ mu[m].to = mount[m].to
        BY <1>7, <3>1
      <4> QED
        BY <1>2, <4>1 DEF ListInv, To
    <3> QED
      BY <1>12, <3>1 DEF To
  <2> QED
    BY <1>11, <2>1, <2>2, <2>3, <2>4, <2>5 DEF Edited
<1> DEFINE xs == ToOf(gone) \o <<old, new>>
<1>14. /\ xs \in Seq(Chan) /\ ToOf(gone) \in Seq(Chan)
       /\ \A z : /\ Count(xs, z) = Count(ToOf(gone), z) + Count(got[p], z)
                 /\ Count(ToOf(gone), z) \in Nat /\ Count(got[p], z) \in Nat
  <2>1. ToOf(gone) \in Seq(Chan)
    <3>1. \A m \in ToSet(gone) : m \in Mount /\ mount[m].live
      BY <1>7, <1>9
    <3>2. \A m \in ToSet(gone) : To(m) \in Chan
      BY <1>2, <3>1 DEF ListInv
    <3> QED
      BY <1>2, <1>7, <3>2, ToCount
  <2>2. \A z : Count(<<old, new>>, z) = Count(got[p], z)
    <3>1. \A z : Count(<<old, new>>, z) = (IF z = old THEN 1 ELSE 0) + (IF z = new THEN 1 ELSE 0)
      BY CountTwo
    <3>2. \A z : Count(<<new, old>>, z) = (IF z = new THEN 1 ELSE 0) + (IF z = old THEN 1 ELSE 0)
      BY CountTwo
    <3> QED
      BY <1>4, <3>1, <3>2
  <2> DEFINE a == ToOf(gone)
             b == <<old, new>>
  <2>3. b \in Seq(Chan) /\ a \in Seq(Chan) /\ xs = a \o b
    BY <1>4, <2>1
  <2> HIDE DEF a, b, xs
  <2>4. a \o b \in Seq(Chan) /\ \A z : Count(a \o b, z) = Count(a, z) + Count(b, z)
    BY <2>3, CountConcat
  <2>5. \A z : Count(a, z) \in Nat
    BY <2>3, CountType
  <2> QED
    BY <1>4, <2>1, <2>2, <2>3, <2>4, <2>5 DEF a, b
<1>15. \A z \in Chan : /\ Cardinality(MountsTo(z)') + Count(ToOf(gone), z) = Cardinality(MountsTo(z)) + Count(to, z)
                       /\ Cardinality(MountsTo(z)) \in Nat /\ Cardinality(MountsTo(z)') \in Nat
                       /\ Count(ToOf(gone), z) <= Cardinality(MountsTo(z))
  <2>1. ASSUME NEW z \in Chan
        PROVE  /\ Cardinality(MountsTo(z)') + Count(ToOf(gone), z) = Cardinality(MountsTo(z)) + Count(to, z)
               /\ Cardinality(MountsTo(z)) \in Nat /\ Cardinality(MountsTo(z)') \in Nat
               /\ Count(ToOf(gone), z) <= Cardinality(MountsTo(z))
    <3> DEFINE A == MountsTo(z)
               B == MountsTo(z)'
               G == {m \in ToSet(gone) : To(m) = z}
               f == [m \in Mount |-> mu[m].to]
               N == {m \in ToSet(ms) : f[m] = z}
               C == A \ G
    <3>1. IsFiniteSet(A)
      BY <1>2, RefsFinite
    <3>2. IsFiniteSet(G) /\ Count(ToOf(gone), z) = Cardinality(G)
      <4>1. gone \in Seq(Mount) /\ IsInjective(gone)
        BY <1>7
      <4> QED
        BY <1>2, <4>1, ToCount
    <3>3. G \subseteq A
      BY <1>7, <1>9 DEF MountsTo
    <3>4. IsFiniteSet(N) /\ Count(to, z) = Cardinality(N)
      <4>1. to = [i \in 1..Len(ms) |-> f[ms[i]]]
        <5>1. \A i \in 1..k : f[ms[i]] = to[i]
          BY <1>7, <1>8
        <5>2. to = [i \in 1..k |-> to[i]]
          BY <1>6
        <5> HIDE DEF f
        <5> QED
          BY <1>7, <5>1, <5>2
      <4>2. ms \in Seq(Mount) /\ IsInjective(ms)
        BY <1>7
      <4> HIDE DEF f
      <4>3. /\ IsFiniteSet({m \in ToSet(ms) : f[m] = z})
            /\ Count([i \in 1..Len(ms) |-> f[ms[i]]], z) = Cardinality({m \in ToSet(ms) : f[m] = z})
        BY <4>2, CountEach
      <4> QED
        BY <4>1, <4>3
    <3>5. B = C \cup N /\ C \cap N = {}
      <4>1. \A m \in ToSet(ms) : m \in Mount /\ ~mount[m].live /\ mu[m].live /\ f[m] = mu[m].to /\ m \notin ToSet(gone)
        BY <1>7, <1>9
      <4>2. \A m \in Mount : m \notin ToSet(ms) =>
              mu[m].to = mount[m].to /\ (mu[m].live <=> mount[m].live /\ m \notin ToSet(gone))
        BY <1>7, <1>9
      <4>3. \A m : m \in A <=> m \in Mount /\ mount[m].live /\ mount[m].to = z
        BY DEF MountsTo, To
      <4>4. \A m : m \in B <=> m \in Mount /\ mu[m].live /\ mu[m].to = z
        BY DEF MountsTo, To
      <4>5. \A m : m \in G <=> m \in ToSet(gone) /\ mount[m].to = z
        BY DEF To
      <4> HIDE DEF A, B, G, f, mu
      <4> QED
        BY <4>1, <4>2, <4>3, <4>4, <4>5
    <3> HIDE DEF A, B, G, f, N
    <3>6. IsFiniteSet(C) /\ Cardinality(A) = Cardinality(C) + Cardinality(G) /\ Cardinality(C) \in Nat
          /\ Cardinality(G) \in Nat
      <4>1. IsFiniteSet(C)
        BY <3>1, FS_Subset
      <4>2. A = C \cup G /\ C \cap G = {}
        BY <3>3
      <4> HIDE DEF C
      <4> QED
        BY <3>2, <4>1, <4>2, Apart
    <3> HIDE DEF C
    <3>7. Cardinality(B) = Cardinality(C) + Cardinality(N) /\ Cardinality(N) \in Nat
      BY <3>4, <3>5, <3>6, Apart
    <3>8. /\ Cardinality(B) + Cardinality(G) = Cardinality(A) + Cardinality(N)
          /\ Cardinality(A) \in Nat /\ Cardinality(B) \in Nat /\ Cardinality(G) <= Cardinality(A)
      BY <3>6, <3>7
    <3> QED
      BY <3>2, <3>4, <3>8 DEF A, B
  <2> QED
    BY <2>1
<1> DEFINE first(z) == IF head[g][d].from = Nil /\ z = old THEN 1 ELSE 0
<1>16. \A z \in Chan :
         /\ Cardinality(HeadsOf(z)) \in Nat /\ Cardinality(HeadsOf(z)') \in Nat
         /\ Cardinality(HeadsOf(z)') = Cardinality(HeadsOf(z)) + first(z)
  <2>1. ASSUME NEW z \in Chan
        PROVE  /\ Cardinality(HeadsOf(z)) \in Nat /\ Cardinality(HeadsOf(z)') \in Nat
               /\ Cardinality(HeadsOf(z)') = Cardinality(HeadsOf(z)) + first(z)
    <3> DEFINE a == Cardinality(HeadsOf(z))
               b == Cardinality(HeadsOf(z)')
    <3>1. /\ a \in Nat /\ b \in Nat
          /\ b + (IF head[g][d].from = z THEN 1 ELSE 0) = a + (IF head'[g][d].from = z THEN 1 ELSE 0)
      BY <1>2, <1>4, <1>5, <1>11, HeadCount
    <3>2. z # Nil
      BY NameSpaceAssumption DEF Chan, Nil
    <3>3. head'[g][d].from = (IF head[g][d].from = Nil THEN old ELSE head[g][d].from)
      BY <1>10, <1>11, <1>t
    <3> HIDE DEF a, b
    <3>4. b = a + first(z)
      BY <3>1, <3>2, <3>3
    <3> QED
      BY <3>1, <3>4 DEF a, b
  <2> QED
    BY <2>1
<1>17. /\ n \in [Chan -> Nat]
       /\ \A z \in Chan : n[z] = Count(to, z) + first(z) /\ first(z) \in Nat /\ (n[z] > 0 => ch.of[z].ref > 0)
  <2>1. \A z \in Chan : Count(to, z) \in Nat /\ first(z) \in Nat /\ Count(to, z) + first(z) \in Nat
    BY <1>6
  <2>2. n = [z \in Chan |-> Count(to, z) + first(z)]
    BY <1>t
  <2>3. \A z \in Chan : first(z) > 0 => ch.of[z].ref > 0
    BY <1>4
  <2> HIDE DEF first
  <2>4. \A z \in Chan : n[z] = Count(to, z) + first(z)
    BY <2>2
  <2>5. \A z \in Chan : n[z] > 0 => Count(to, z) > 0 \/ first(z) > 0
    BY <2>1, <2>4
  <2> QED
    BY <1>6, <2>1, <2>2, <2>3, <2>4, <2>5
<1> HIDE DEF xs, first
<1>18. ASSUME NEW z \in Chan
       PROVE  Count(xs, z) <= ch.of[z].ref + n[z] /\ Count(xs, z) <= ch.of[z].ref /\ Count(xs, z) \in Nat
  <2> DEFINE y == ch.of[z].ref
             a == Cardinality(MountsTo(z))
             b == Cardinality(HeadsOf(z))
             s == Cardinality(SlashesOf(z))
             t == Cardinality(DotsOf(z))
             u == Count(got[p], z)
             v == InCalls(z)
             j == Count(xs, z)
             i == Count(ToOf(gone), z)
             o == Own(p, z)
             l == n[z]
  <2>1. y = a + b + s + t + v /\ a \in Nat /\ b \in Nat /\ s \in Nat /\ t \in Nat /\ v \in Nat
    BY <1>2, RefsParts, RefsType DEF RefsExact, InTables
  <2>2. j = i + u /\ i \in Nat /\ u \in Nat /\ i <= a
    BY <1>14, <1>15
  <2>3. o = u + (IF fd[p] = z THEN 1 ELSE 0)
    BY <1>4
  <2>4. o > 0 => y = 1 /\ o = 1 /\ MountsTo(z) = {}
    BY <1>2, OwnAlone
  <2>5. o > 0 => a = 0
    BY <2>4, FS_EmptySet
  <2>6. l \in Nat
    BY <1>17
  <2> HIDE DEF y, a, b, s, t, u, v, j, i, o, l
  <2>7. j <= y + l /\ j <= y /\ j \in Nat
    BY <2>1, <2>2, <2>3, <2>4, <2>5, <2>6
  <2> QED
    BY <2>7 DEF j, y, l
<1>19. /\ ch' \in ChansType /\ FreeOK(ch') /\ SameButRefs(ch, ch')
       /\ \A z \in Chan : ch'.of[z].ref = ch.of[z].ref + n[z] - Count(xs, z)
  <2> DEFINE s == ch
             t == ch'
  <2>1. s \in ChansType /\ FreeOK(s) /\ t = CloseAll(IncrefAll(s, n), xs)
        /\ (\A z \in Chan : Count(xs, z) <= s.of[z].ref + n[z]) /\ \A z \in Chan : n[z] > 0 => s.of[z].ref > 0
    BY <1>1, <1>17, <1>18, Channels DEF xs
  <2> HIDE DEF s, t
  <2>2. /\ t \in ChansType /\ FreeOK(t) /\ SameButRefs(s, t)
        /\ \A z \in Chan : t.of[z].ref = s.of[z].ref + n[z] - Count(xs, z)
    BY <1>14, <1>17, <2>1, NetEffect
  <2> QED
    BY <2>2 DEF s, t
<1>20. ASSUME NEW z \in Chan
       PROVE  /\ ch'.of[z].ref + Cardinality(MountsTo(z)) + Cardinality(HeadsOf(z)) + Count(got[p], z)
                   = ch.of[z].ref + Cardinality(MountsTo(z)') + Cardinality(HeadsOf(z)')
              /\ ch'.of[z].ref > 0 => ch.of[z].ref > 0
              /\ z = fd[p] \/ (\E q \in Proc \ {p} : Own(q, z) > 0) => ~(ch'.of[z].ref > 1)
  <2> DEFINE y == ch.of[z].ref
             yy == ch'.of[z].ref
             a == Cardinality(MountsTo(z))
             aa == Cardinality(MountsTo(z)')
             b == Cardinality(HeadsOf(z))
             bb == Cardinality(HeadsOf(z)')
             u == Count(got[p], z)
             i == Count(ToOf(gone), z)
             j == Count(xs, z)
             e == first(z)
             t == Count(to, z)
             l == n[z]
  <2>1. yy = y + l - j /\ j \in Nat /\ j = i + u /\ i \in Nat /\ u \in Nat /\ j <= y
    BY <1>14, <1>18, <1>19
  <2>2. aa + i = a + t /\ a \in Nat /\ aa \in Nat /\ bb = b + e /\ b \in Nat /\ bb \in Nat /\ e \in Nat /\ t \in Nat
    BY <1>6, <1>15, <1>16, <1>17
  <2>3. y \in Nat /\ l = t + e /\ (l > 0 => y > 0)
    BY <1>2, <1>17 DEF TypeOK
  <2>4. z = fd[p] => Own(p, z) > 0
    BY <1>2, OwnsThem, NameSpaceAssumption DEF Chan, Nil
  <2>5. \A q \in Proc : Own(q, z) > 0 => y = 1
    BY <1>2, OwnAlone
  <2>6. z = fd[p] \/ (\E q \in Proc \ {p} : Own(q, z) > 0) => t = 0
    BY <1>6
  <2>7. z = fd[p] \/ (\E q \in Proc \ {p} : Own(q, z) > 0) => e = 0
    BY <1>4 DEF first
  <2> HIDE DEF y, yy, a, aa, b, bb, u, i, j, e, t, l
  <2>8. yy + a + b + u = y + aa + bb /\ (yy > 0 => y > 0) /\ (y = 1 /\ t = 0 /\ e = 0 => ~(yy > 1))
    BY <2>1, <2>2, <2>3
  <2> QED
    BY <2>4, <2>5, <2>6, <2>7, <2>8 DEF y, yy, a, aa, b, bb, u
<1>21. TypeOK'
  <2>1. at' \in [Proc -> Labels] /\ got' \in [Proc -> Seq(Chan)] /\ \A q \in Proc : Len(got'[q]) <= 2
    BY <1>1, ReturnIs
  <2>2. job' = [q \in Proc |-> job'[q]]
    BY <1>1, <1>2 DEF TypeOK
  <2>3. ch' \in ChansType /\ mount' \in MountsType /\ head' \in [Group -> [File -> HeadType]]
    BY <1>7, <1>11, <1>19
  <2>4. mountid' \in Nat
    BY <1>1, <1>8
  <2> QED
    BY <1>1, <1>2, <2>1, <2>2, <2>3, <2>4 DEF TypeOK, ChansType, ChanType, MountsType, HeadType
<1>22. ASSUME NEW m \in ToSet(chain)
       PROVE  /\ mount'[m].mountid <= mountid'
              /\ \A l \in Table(g)' : l # m => mount'[l].mountid # mount'[m].mountid
  <2>1. Users(g) # {}
    BY <1>s DEF Users
  <2>2. Table(g)' = (Table(g) \ M) \cup ToSet(chain) /\ \A l \in Table(g) : l \in Mount /\ mount[l].live
    BY <1>2, <1>4, <1>5, <1>13, <1>21, EditLists
  <2>3. \A l \in Table(g)' : l \in ToSet(ms) \/ (l \in Table(g) /\ l \notin ToSet(ms) /\ l \notin ToSet(gone))
    BY <1>7, <1>9, <2>2
  <2>4. ASSUME NEW l \in Table(g), l \notin ToSet(ms), l \notin ToSet(gone)
        PROVE  mu[l].mountid = mount[l].mountid /\ mount[l].mountid <= mountid /\ mount[l].mountid \in Nat
    <3>1. l \in Mount
      BY <2>2
    <3>2. mount[l].mountid <= mountid
      BY <1>2, <1>4, <2>1 DEF IdInv
    <3>3. mount[l].mountid \in Nat
      BY <1>2, <3>1 DEF TypeOK
    <3> QED
      BY <1>7, <2>4, <3>1, <3>2, <3>3
  <2>5. ASSUME NEW l \in Table(g), NEW j \in Table(g), l # j
        PROVE  mount[l].mountid # mount[j].mountid
    BY <1>2, <1>4, <2>1, <2>5 DEF IdInv
  <2>6. m \in Table(g)'
    BY <2>2
  <2>7. mountid' = mountid + k
    BY <1>1
  <2> HIDE DEF mu, k, M
  <2>8. CASE m \in ToSet(ms)
    <3>1. mu[m].mountid <= mountid' /\ mountid < mu[m].mountid /\ mu[m].mountid \in Int
      BY <1>12, <2>7, <2>8
    <3>2. ASSUME NEW l \in Table(g)', l # m
          PROVE  mu[l].mountid # mu[m].mountid
      <4>1. CASE l \in ToSet(ms)
        BY <1>12, <2>8, <3>2, <4>1
      <4>2. CASE l \notin ToSet(ms)
        <5>1. mu[l].mountid <= mountid /\ mu[l].mountid \in Nat
          BY <2>3, <2>4, <4>2
        <5> QED
          BY <1>8, <3>1, <5>1
      <4> QED
        BY <4>1, <4>2
    <3> QED
      BY <3>1, <3>2 DEF mu
  <2>9. CASE m \notin ToSet(ms)
    <3>0. m \in Table(g) /\ m \notin ToSet(gone)
      BY <2>3, <2>6, <2>9
    <3>1. mu[m].mountid = mount[m].mountid /\ mount[m].mountid <= mountid /\ mount[m].mountid \in Nat
      BY <2>4, <2>9, <3>0
    <3>2. mu[m].mountid <= mountid'
      BY <1>8, <2>7, <3>1
    <3>3. ASSUME NEW l \in Table(g)', l # m
          PROVE  mu[l].mountid # mu[m].mountid
      <4>1. CASE l \in ToSet(ms)
        <5>1. mountid < mu[l].mountid /\ mu[l].mountid \in Int
          BY <1>12, <4>1
        <5> QED
          BY <1>8, <3>1, <5>1
      <4>2. CASE l \notin ToSet(ms)
        <5>1. l \in Table(g) /\ mu[l].mountid = mount[l].mountid
          BY <2>3, <2>4, <4>2
        <5> QED
          BY <2>5, <3>0, <3>1, <3>3, <5>1
      <4> QED
        BY <4>1, <4>2
    <3> QED
      BY <3>2, <3>3 DEF mu
  <2> QED
    BY <2>8, <2>9
<1>23. \A m \in MountsOn(g, d) : m \in Followed(p) => m \in ToSet(chain)
  BY <1>1, <1>7 DEF Removable, Orderly
<1>24. mountid <= mountid'
  BY <1>1, <1>8
<1>25. /\ Reading(g) = {} /\ at[p] = "op" /\ Return(p) /\ g \in Group /\ g = grp[p]
       /\ group' = group /\ grp' = grp /\ fd' = fd /\ job' = job /\ name' = name
       /\ c' = c /\ w' = w /\ fork' = fork /\ FreeOK(ch') /\ SameButRefs(ch, ch')
  BY <1>1, <1>4, <1>19, <1>s
<1>26. IndInv' /\ FilesKept
  BY <1>5, <1>13, <1>20, <1>21, <1>22, <1>23, <1>24, <1>25, EditStep
<1>27. BindDone(p, g, d, new, old, order, more, self, to, ms, chain)
  <2>1. g \in Group /\ d \in File /\ order = job[p].order
    BY <1>4, <1>5, <1>s
  <2>2. Ready(p, "bind") /\ Binds(p, g, d, new, old, order, more, self, to)
    BY <1>1, <1>3
  <2>3. to \in Seq(Chan) /\ Len(self) \in 0..Len(to) /\ Len(self) # Len(to)
    BY <1>6
  <2>4. ms \in Seq(Mount) /\ Len(ms) = Len(to) /\ \A j \in 1..Len(to) : mount'[ms[j]].to = to[j]
    BY <1>7 DEF mu
  <2>5. chain = Joined(order, IF order = "replace" THEN <<>> ELSE SubSeq(ms, 1, Len(self)) \o List(g, d),
                       SubSeq(ms, Len(self) + 1, Len(ms)))
    BY <1>t, Zenon
  <2>6. Edited(g, d, chain) /\ SameButRefs(ch, ch')
    BY <1>13, <1>19
  <2> QED
    BY <2>1, <2>2, <2>3, <2>4, <2>5, <2>6, Zenon DEF BindDone
<1> QED
  BY <1>26, <1>27 DEF BindEdits

=============================================================================
