-------------------------- MODULE NameSpaceProofs ---------------------------
(***************************************************************************)
(* The steps of a fork in NameSpace, and the theorems: with progs that     *)
(* keep out of each other's way (Orderly), for any progs, groups, files,   *)
(* channels, mounts and calls.                                             *)
(***************************************************************************)
EXTENDS NameSpaceCalls

-----------------------------------------------------------------------------
(* Sequences one after the other. *)

(* f has what the first i of ss make together. *)
Parts(ss, S, n) == ss \in [1..n -> Seq(S)]
Wholes(f, ss, S, n) ==
  /\ f \in [0..n -> Seq(S)] /\ f[0] = <<>> /\ \A i \in 1..n : f[i] = f[i - 1] \o ss[i]
  /\ Concat(ss) = f[n]

LEMMA ConcatRec ==
  ASSUME NEW S, NEW n \in Nat, NEW ss, Parts(ss, S, n)
  PROVE  \E f : Wholes(f, ss, S, n)
<1> USE DEF Parts
<1> DEFINE Q == Seq(S)
           step == [i \in 1..n |-> [t \in Q |-> t \o ss[i]]]
           body(f) == [i \in 0..n |-> IF i = 0 THEN <<>> ELSE f[i - 1] \o ss[i]]
           g == CHOOSE cat : cat = body(cat)
<1>0. /\ \A i \in 1..n : ss[i] \in Q
      /\ <<>> \in Q
      /\ \A s, t \in Q : s \o t \in Q
  OBVIOUS
<1>01. Len(ss) = n
  OBVIOUS
<1> HIDE DEF Q
<1>1. step \in Steps(Q, n)
  BY <1>0 DEF Steps
<1>2. PICK f : Leads(f, Q, n, <<>>, step)
  <2> HIDE DEF step, body, g
  <2> QED
    BY <1>0, <1>1, Recursion
<1>22. f \in [0..n -> Q] /\ f[0] = <<>> /\ \A i \in 1..n : f[i] = step[i][f[i - 1]]
  BY <1>2 DEF Leads
<1>3. f = body(f)
  <2>1. \A i \in 0..n : i # 0 => i \in 1..n /\ i - 1 \in 0..n
    OBVIOUS
  <2>2. \A i \in 0..n : i # 0 => step[i][f[i - 1]] = f[i - 1] \o ss[i]
    BY <1>22, <2>1
  <2> HIDE DEF step
  <2>3. \A i \in 0..n : f[i] = IF i = 0 THEN <<>> ELSE f[i - 1] \o ss[i]
    BY <1>22, <2>1, <2>2
  <2> QED
    BY <1>22, <2>3
<1>4. g = body(g)
  BY <1>3
<1>5. Concat(ss) = g[n]
  BY <1>01 DEF Concat
<1> HIDE DEF g
<1>6. g[0] = <<>> /\ \A i \in 1..n : g[i] = g[i - 1] \o ss[i]
  <2>1. 0 \in 0..n /\ \A i \in 1..n : i \in 0..n /\ i # 0
    OBVIOUS
  <2> QED
    BY <1>4, <2>1
<1>7. \A i \in 0..n : g[i] \in Q
  <2> DEFINE T == {i \in 0..n : g[i] \in Q}
  <2>1. 0 \in T
    BY <1>0, <1>6
  <2>2. ASSUME NEW i \in 0..(n - 1), i \in T
        PROVE  i + 1 \in T
    <3>1. i + 1 \in 1..n /\ i + 1 \in 0..n /\ (i + 1) - 1 = i
      OBVIOUS
    <3>2. g[i + 1] = g[i] \o ss[i + 1]
      BY <1>6, <3>1
    <3> QED
      BY <1>0, <2>2, <3>1, <3>2
  <2> HIDE DEF T
  <2>3. \A i \in 0..n : i \in T
    BY <2>1, <2>2, Upto
  <2> QED
    BY <2>3 DEF T
<1>8. g \in [0..n -> Q]
  BY <1>4, <1>7
<1> QED
  BY <1>5, <1>6, <1>8 DEF Q, Wholes

(* Sequences of different elements that share none. *)
LEMMA ConcatIs ==
  ASSUME NEW S, NEW n \in Nat, NEW ss, ss \in [1..n -> Seq(S)],
         \A i \in 1..n : IsInjective(ss[i]),
         \A i, j \in 1..n : i # j => ToSet(ss[i]) \cap ToSet(ss[j]) = {}
  PROVE  /\ Concat(ss) \in Seq(S) /\ IsInjective(Concat(ss))
         /\ \A x : x \in ToSet(Concat(ss)) <=> \E i \in 1..n : x \in ToSet(ss[i])
<1>0. PICK f : Wholes(f, ss, S, n)
  <2>1. Parts(ss, S, n)
    BY DEF Parts
  <2> QED
    BY <2>1, ConcatRec
<1>1. /\ f \in [0..n -> Seq(S)] /\ f[0] = <<>> /\ \A i \in 1..n : f[i] = f[i - 1] \o ss[i]
      /\ Concat(ss) = f[n]
  BY <1>0 DEF Wholes
<1> DEFINE T == {k \in 0..n : /\ IsInjective(f[k])
                              /\ \A x : x \in ToSet(f[k]) <=> \E i \in 1..k : x \in ToSet(ss[i])}
<1>2. 0 \in T
  <2>1. IsInjective(<<>>) /\ ToSet(<<>>) = {}
    BY DEF IsInjective, ToSet
  <2>2. f[0] = <<>> /\ 0 \in 0..n /\ \A i \in 1..0 : FALSE
    BY <1>1
  <2> QED
    BY <2>1, <2>2
<1>3. ASSUME NEW k \in 0..(n - 1), k \in T
      PROVE  k + 1 \in T
  <2> DEFINE j == k + 1
             s == f[k]
             t == ss[j]
  <2>1. j \in 1..n /\ j \in 0..n /\ j - 1 = k /\ k \in 0..n /\ \A i \in 1..k : i \in 1..n /\ i # j
    OBVIOUS
  <2>11. \A i : i \in 1..j <=> i \in 1..k \/ i = j
    OBVIOUS
  <2>2. s \in Seq(S) /\ t \in Seq(S) /\ f[j] = s \o t
    BY <1>1, <2>1
  <2>3. IsInjective(s) /\ IsInjective(t) /\ \A x : x \in ToSet(s) <=> \E i \in 1..k : x \in ToSet(ss[i])
    BY <1>3, <2>1
  <2>4. ToSet(s) \cap ToSet(t) = {}
    BY <2>1, <2>3
  <2> HIDE DEF s, t
  <2>5. IsInjective(s \o t) /\ ToSet(s \o t) = ToSet(s) \cup ToSet(t)
    BY <2>2, <2>3, <2>4, JoinIs
  <2>6. \A x : x \in ToSet(s \o t) <=> \E i \in 1..j : x \in ToSet(ss[i])
    <3> HIDE DEF j
    <3> QED
      BY <2>3, <2>5, <2>11 DEF t
  <2> QED
    BY <2>1, <2>2, <2>5, <2>6
<1> HIDE DEF T
<1>4. \A k \in 0..n : k \in T
  BY <1>2, <1>3, Upto
<1>5. n \in 0..n
  OBVIOUS
<1> QED
  BY <1>1, <1>4, <1>5 DEF T

(* num[i]: how often the first i of n sequences ss have x. *)
Counts(num, ss, S, n, x) ==
  /\ n \in Nat /\ ss \in [1..n -> Seq(S)] /\ num[0] = 0
  /\ \A i \in 1..n : num[i] = num[i - 1] + Count(ss[i], x)

(* How often they have something. *)
LEMMA ConcatCount ==
  ASSUME NEW S, NEW n, NEW ss, NEW x, NEW num, Counts(num, ss, S, n, x)
  PROVE  Concat(ss) \in Seq(S) /\ Count(Concat(ss), x) = num[n]
<1>a. /\ n \in Nat /\ ss \in [1..n -> Seq(S)] /\ num[0] = 0
      /\ \A i \in 1..n : num[i] = num[i - 1] + Count(ss[i], x)
  BY DEF Counts
<1>0. PICK f : Wholes(f, ss, S, n)
  <2>1. Parts(ss, S, n)
    BY <1>a DEF Parts
  <2> QED
    BY <1>a, <2>1, ConcatRec
<1>1. /\ f \in [0..n -> Seq(S)] /\ f[0] = <<>> /\ \A i \in 1..n : f[i] = f[i - 1] \o ss[i]
      /\ Concat(ss) = f[n]
  BY <1>0 DEF Wholes
<1> DEFINE T == {k \in 0..n : Count(f[k], x) = num[k]}
<1>2. 0 \in T
  <2>1. Count(<<>>, x) = 0
    BY CountOne
  <2> QED
    BY <1>1, <1>a, <2>1
<1>3. ASSUME NEW k \in 0..(n - 1), k \in T
      PROVE  k + 1 \in T
  <2> DEFINE j == k + 1
             s == f[k]
             t == ss[j]
  <2>1. j \in 1..n /\ j \in 0..n /\ j - 1 = k /\ k \in 0..n
    BY <1>a
  <2>2. s \in Seq(S) /\ t \in Seq(S) /\ f[j] = s \o t
    BY <1>1, <1>a, <2>1
  <2>3. num[j] = num[k] + Count(t, x) /\ Count(s, x) = num[k]
    <3>1. num[j] = num[j - 1] + Count(ss[j], x)
      BY <1>a, <2>1
    <3> QED
      BY <1>3, <2>1, <3>1
  <2> HIDE DEF s, t
  <2>4. Count(s \o t, x) = Count(s, x) + Count(t, x)
    BY <2>2, CountConcat
  <2> QED
    BY <2>1, <2>2, <2>3, <2>4
<1> HIDE DEF T
<1>4. \A k \in 0..n : k \in T
  BY <1>2, <1>3, <1>a, Upto
<1>5. n \in 0..n
  BY <1>a
<1> QED
  BY <1>1, <1>4, <1>5 DEF T

(* The mounts of a group, head after head. *)
LEMMA InTableIs ==
  ASSUME TypeOK, ListInv, NEW g \in Group
  PROVE  /\ InTable(g) \in Seq(Mount) /\ IsInjective(InTable(g)) /\ ToSet(InTable(g)) = Table(g)
<1> DEFINE n == Len(HeadOrder)
           ss == [i \in 1..n |-> List(g, HeadOrder[i])]
<1>1. /\ n \in Nat /\ (\A i \in 1..n : HeadOrder[i] \in File)
      /\ (\A d \in File : \E i \in 1..n : HeadOrder[i] = d)
      /\ \A i, j \in 1..n : HeadOrder[i] = HeadOrder[j] => i = j
  BY HeadOrderIs
<1>2. \A d \in File : List(g, d) \in Seq(Mount) /\ IsInjective(List(g, d))
  BY TableLive
<1>3. InTable(g) = Concat(ss)
  BY DEF InTable
<1>4. ss \in [1..n -> Seq(Mount)] /\ \A i \in 1..n : ss[i] = List(g, HeadOrder[i])
  BY <1>1, <1>2
<1> HIDE DEF n, ss
<1>5. \A i \in 1..n : IsInjective(ss[i]) /\ ToSet(ss[i]) = MountsOn(g, HeadOrder[i])
  BY <1>1, <1>2, <1>4 DEF MountsOn
<1>6. \A i, j \in 1..n : i # j => ToSet(ss[i]) \cap ToSet(ss[j]) = {}
  BY <1>1, <1>5 DEF ListInv
<1>7. /\ Concat(ss) \in Seq(Mount) /\ IsInjective(Concat(ss))
      /\ \A x : x \in ToSet(Concat(ss)) <=> \E i \in 1..n : x \in ToSet(ss[i])
  BY <1>1, <1>4, <1>5, <1>6, ConcatIs
<1>8. ToSet(Concat(ss)) = Table(g)
  <2>1. \A x : x \in Table(g) <=> \E d \in File : x \in MountsOn(g, d)
    BY DEF Table
  <2>2. \A x : (\E i \in 1..n : x \in ToSet(ss[i])) <=> \E d \in File : x \in MountsOn(g, d)
    BY <1>1, <1>5
  <2> QED
    BY <1>7, <2>1, <2>2
<1> QED
  BY <1>3, <1>7, <1>8

-----------------------------------------------------------------------------
(* The mounts by their ids. *)

(* With a number every smaller one. *)
LEMMA PrefixIs ==
  ASSUME NEW n \in Nat, NEW T, T \subseteq 1..n, \A i \in T, j \in 1..n : j < i => j \in T
  PROVE  \E k \in 0..n : (\A i \in 1..n : i \in T <=> i <= k) /\ Cardinality(T) = k
<1> DEFINE B == {i \in 1..(n + 1) : i \notin T}
<1>1. PICK k \in B : \A i \in B : k <= i
  <2>1. n + 1 \in B /\ B \subseteq Nat
    OBVIOUS
  <2> HIDE DEF B
  <2> QED
    BY <2>1, LeastNat
<1> DEFINE l == k - 1
<1>2. k \in 1..(n + 1) /\ k \notin T /\ \A i \in 1..(n + 1) : i \notin T => k <= i
  BY <1>1
<1>3. l \in 0..n /\ \A i \in 1..n : i <= l <=> i < k
  BY <1>2
<1>4. ASSUME NEW i \in 1..n
      PROVE  i \in T <=> i < k
  <2>1. CASE i \in T
    <3>1. i # k
      BY <1>2, <2>1
    <3>2. ~(k < i)
      <4>1. k < i => k \in 1..n
        BY <1>2
      <4> QED
        BY <1>2, <2>1, <4>1
    <3> QED
      BY <1>2, <2>1, <3>1, <3>2
  <2>2. CASE i \notin T
    <3>1. i \in 1..(n + 1)
      OBVIOUS
    <3>2. k <= i
      BY <1>2, <2>2, <3>1
    <3> QED
      BY <1>2, <2>2, <3>2
  <2> QED
    BY <2>1, <2>2
<1> HIDE DEF l
<1>5. \A i \in 1..n : i \in T <=> i <= l
  BY <1>3, <1>4
<1>6. T = 1..l
  <2>1. \A i : i \in 1..l <=> i \in 1..n /\ i <= l
    BY <1>3
  <2> QED
    BY <1>5, <2>1
<1>7. Cardinality(1..l) = l
  <2>1. Cardinality(1..l) = IF 1 > l THEN 0 ELSE l - 1 + 1
    BY <1>3, FS_Interval
  <2> QED
    BY <1>3, <2>1
<1> QED
  BY <1>3, <1>5, <1>6, <1>7

LEMMA JoinAt ==
  ASSUME NEW S, NEW a \in Seq(S), NEW v \in Seq(S)
  PROVE  /\ a \o v \in Seq(S) /\ Len(a \o v) = Len(a) + Len(v)
         /\ \A i \in 1..(Len(a) + Len(v)) : (a \o v)[i] = IF i <= Len(a) THEN a[i] ELSE v[i - Len(a)]
<1>1. a \o v \in Seq(S) /\ Len(a \o v) = Len(a) + Len(v)
  OBVIOUS
<1>2. \A i \in 1..(Len(a) + Len(v)) : (a \o v)[i] = IF i <= Len(a) THEN a[i] ELSE v[i - Len(a)]
  OBVIOUS
<1> QED
  BY <1>1, <1>2

(* e is put in after the first k of s. *)
Inserted(t, s, k, e) == t = SubSeq(s, 1, k) \o <<e>> \o SubSeq(s, k + 1, Len(s))

Wedged(t, s, n, k, e) ==
  /\ Len(t) = n + 1
  /\ \A i \in 1..(n + 1) : t[i] = IF i <= k THEN s[i] ELSE IF i = k + 1 THEN e ELSE s[i - 1]

LEMMA InsertedIs ==
  ASSUME NEW S, NEW s \in Seq(S), NEW e \in S, NEW k \in 0..Len(s), NEW t, Inserted(t, s, k, e)
  PROVE  t \in Seq(S) /\ Wedged(t, s, Len(s), k, e)
<1> DEFINE n == Len(s)
           u == SubSeq(s, 1, k)
           v == SubSeq(s, k + 1, Len(s))
           a == u \o <<e>>
<1>1. n \in Nat /\ k \in Nat /\ k <= n
  OBVIOUS
<1>2. u \in Seq(S) /\ Len(u) = k /\ \A i \in 1..k : u[i] = s[i]
  BY <1>1
<1>3. v \in Seq(S) /\ Len(v) = n - k /\ \A i \in 1..(n - k) : v[i] = s[k + i]
  BY <1>1
<1>4. t = a \o v
  BY DEF Inserted
<1> HIDE DEF u, v, n
<1>5. a \in Seq(S) /\ Len(a) = k + 1 /\ (\A i \in 1..k : a[i] = u[i]) /\ a[k + 1] = e
  BY <1>1, <1>2
<1> HIDE DEF a
<1>6. t \in Seq(S) /\ Len(t) = n + 1
      /\ \A i \in 1..(n + 1) : t[i] = IF i <= k + 1 THEN a[i] ELSE v[i - (k + 1)]
  <2> DEFINE l == k + 1
             r == n - k
  <2>1. l \in Nat /\ r \in Nat /\ l + r = n + 1
    BY <1>1
  <2>2. a \in Seq(S) /\ Len(a) = l /\ v \in Seq(S) /\ Len(v) = r
    BY <1>3, <1>5
  <2> HIDE DEF l, r
  <2>3. t \in Seq(S) /\ Len(t) = l + r /\ \A i \in 1..(l + r) : t[i] = IF i <= l THEN a[i] ELSE v[i - l]
    BY <1>4, <2>1, <2>2, JoinAt
  <2>4. Len(t) = n + 1 /\ \A i \in 1..(n + 1) : t[i] = IF i <= l THEN a[i] ELSE v[i - l]
    BY <2>1, <2>3
  <2> QED
    BY <2>3, <2>4 DEF l
<1>7. ASSUME NEW i \in 1..(n + 1)
      PROVE  t[i] = IF i <= k THEN s[i] ELSE IF i = k + 1 THEN e ELSE s[i - 1]
  <2>1. CASE i <= k
    <3>1. i \in 1..k /\ i <= k + 1
      BY <1>1, <2>1
    <3> QED
      BY <1>2, <1>5, <1>6, <2>1, <3>1
  <2>2. CASE i = k + 1
    <3>1. ~(i <= k) /\ i <= k + 1
      BY <1>1, <2>2
    <3> QED
      BY <1>5, <1>6, <2>2, <3>1
  <2>3. CASE i > k + 1
    <3>1. ~(i <= k) /\ ~(i <= k + 1) /\ i # k + 1 /\ i - (k + 1) \in 1..(n - k) /\ k + (i - (k + 1)) = i - 1
      BY <1>1, <2>3
    <3>2. t[i] = v[i - (k + 1)]
      BY <1>6, <3>1
    <3>3. v[i - (k + 1)] = s[k + (i - (k + 1))]
      BY <1>3, <3>1
    <3> QED
      BY <3>1, <3>2, <3>3
  <2> QED
    BY <1>1, <2>1, <2>2, <2>3
<1> QED
  BY <1>6, <1>7 DEF Wedged, n

(* The mounts of o, by their ids. *)
Sorted(o) == \A i, j \in 1..Len(o) : i < j => mount[o[i]].mountid < mount[o[j]].mountid

LEMMA InsertIs ==
  ASSUME TypeOK, NEW o \in Seq(Mount), NEW m \in Mount, NEW t, t = pgrpinsert(o, m)
  PROVE  /\ t \in Seq(Mount)
         /\ Sorted(o) /\ (\A x \in ToSet(o) : mount[x].mountid # mount[m].mountid) =>
              Sorted(t) /\ ToSet(t) = ToSet(o) \cup {m}
<1> DEFINE n == Len(o)
           key(x) == mount[x].mountid
           older == {i \in 1..n : key(o[i]) <= key(m)}
<1>1. n \in Nat /\ (\A i \in 1..n : o[i] \in Mount) /\ \A x \in Mount : key(x) \in Nat
  BY DEF TypeOK
<1>2. t = SubSeq(o, 1, (1 + Cardinality(older)) - 1) \o <<m>> \o SubSeq(o, 1 + Cardinality(older), Len(o))
  <2>1. t = InsertAt(o, 1 + Cardinality(older), m)
    BY DEF pgrpinsert
  <2> HIDE DEF older
  <2> QED
    BY <2>1 DEF InsertAt
<1>3. \A k \in Nat : Cardinality(older) = k => Inserted(t, o, k, m)
  <2>1. \A k \in Nat : (1 + k) - 1 = k /\ 1 + k = k + 1
    OBVIOUS
  <2> QED
    BY <1>2, <2>1 DEF Inserted
<1>4. older \subseteq 1..n
  OBVIOUS
<1>5. \A i \in older : i \in 1..n /\ key(o[i]) <= key(m)
  OBVIOUS
<1>6. \A i \in 1..n : key(o[i]) <= key(m) => i \in older
  OBVIOUS
<1> HIDE DEF older
<1>7. t \in Seq(Mount)
  <2>1. IsFiniteSet(1..n) /\ Cardinality(1..n) = n
    <3>1. IsFiniteSet(1..n) /\ Cardinality(1..n) = IF 1 > n THEN 0 ELSE n - 1 + 1
      BY <1>1, FS_Interval
    <3> QED
      BY <1>1, <3>1
  <2>2. Cardinality(older) <= n /\ IsFiniteSet(older)
    BY <1>4, <2>1, FS_Subset
  <2>3. Cardinality(older) \in Nat
    BY <2>2, FS_CardinalityType
  <2>4. PICK k \in 0..n : Cardinality(older) = k
    BY <1>1, <2>2, <2>3
  <2>5. Inserted(t, o, k, m)
    BY <1>3, <2>4
  <2> QED
    BY <1>1, <2>4, <2>5, InsertedIs
<1>8. ASSUME Sorted(o), \A x \in ToSet(o) : key(x) # key(m)
      PROVE  Sorted(t) /\ ToSet(t) = ToSet(o) \cup {m}
  <2>1. \A i, j \in 1..n : i < j => key(o[i]) < key(o[j])
    BY <1>8 DEF Sorted
  <2>2. \A i \in older, j \in 1..n : j < i => j \in older
    <3>1. ASSUME NEW i \in older, NEW j \in 1..n, j < i
          PROVE  j \in older
      <4>1. key(o[j]) < key(o[i]) /\ key(o[i]) <= key(m) /\ key(o[j]) \in Nat /\ key(o[i]) \in Nat /\ key(m) \in Nat
        BY <1>1, <1>5, <2>1, <3>1
      <4>2. key(o[j]) <= key(m)
        BY <4>1
      <4> QED
        BY <1>6, <4>2
    <3> QED
      BY <3>1
  <2>3. PICK k \in 0..n : (\A i \in 1..n : i \in older <=> i <= k) /\ Cardinality(older) = k
    BY <1>1, <1>4, <2>2, PrefixIs
  <2>4. /\ Len(t) = n + 1 /\ k \in Nat /\ k <= n
        /\ \A i \in 1..(n + 1) : t[i] = IF i <= k THEN o[i] ELSE IF i = k + 1 THEN m ELSE o[i - 1]
    <3>1. Inserted(t, o, k, m)
      BY <1>3, <2>3
    <3>2. Wedged(t, o, n, k, m)
      BY <1>1, <2>3, <3>1, InsertedIs
    <3> QED
      BY <1>1, <2>3, <3>2 DEF Wedged
  <2>5. \A i \in 1..n : o[i] \in ToSet(o)
    BY SeqIs
  <2>6. \A i \in 1..n : i <= k => key(o[i]) < key(m)
    <3>1. ASSUME NEW i \in 1..n, i <= k
          PROVE  key(o[i]) < key(m)
      <4>1. key(o[i]) <= key(m) /\ key(o[i]) # key(m) /\ key(o[i]) \in Nat /\ key(m) \in Nat
        BY <1>1, <1>5, <1>8, <2>3, <2>5, <3>1
      <4> QED
        BY <4>1
    <3> QED
      BY <3>1
  <2>7. \A i \in 1..n : i > k => key(m) < key(o[i])
    <3>1. ASSUME NEW i \in 1..n, i > k
          PROVE  key(m) < key(o[i])
      <4>1. i \notin older
        BY <2>3, <2>4, <3>1
      <4>2. ~(key(o[i]) <= key(m)) /\ key(o[i]) \in Nat /\ key(m) \in Nat
        BY <1>1, <1>6, <4>1
      <4> QED
        BY <4>2
    <3> QED
      BY <3>1
  <2>8. ASSUME NEW i \in 1..(n + 1), NEW j \in 1..(n + 1), i < j
        PROVE  key(t[i]) < key(t[j])
    <3>1. CASE j <= k
      <4>1. i \in 1..n /\ j \in 1..n /\ i <= k
        BY <2>4, <2>8, <3>1
      <4> QED
        BY <2>1, <2>4, <2>8, <3>1, <4>1
    <3>2. CASE j = k + 1
      <4>1. i \in 1..n /\ i <= k /\ ~(j <= k)
        BY <2>4, <2>8, <3>2
      <4> QED
        BY <2>4, <2>6, <3>2, <4>1
    <3>3. CASE j > k + 1 /\ i <= k
      <4>1. i \in 1..n /\ j - 1 \in 1..n /\ ~(j <= k) /\ j # k + 1 /\ i < j - 1
        BY <2>4, <2>8, <3>3
      <4> QED
        BY <2>1, <2>4, <3>3, <4>1
    <3>4. CASE j > k + 1 /\ i = k + 1
      <4>1. j - 1 \in 1..n /\ ~(j <= k) /\ j # k + 1 /\ j - 1 > k /\ ~(i <= k)
        BY <2>4, <2>8, <3>4
      <4> QED
        BY <2>4, <2>7, <3>4, <4>1
    <3>5. CASE j > k + 1 /\ i > k + 1
      <4>1. i - 1 \in 1..n /\ j - 1 \in 1..n /\ ~(j <= k) /\ j # k + 1 /\ ~(i <= k) /\ i # k + 1 /\ i - 1 < j - 1
        BY <2>4, <2>8, <3>5
      <4> QED
        BY <2>1, <2>4, <4>1
    <3> QED
      BY <2>4, <3>1, <3>2, <3>3, <3>4, <3>5
  <2>9. Sorted(t)
    BY <2>4, <2>8 DEF Sorted
  <2>10. ToSet(t) = {t[i] : i \in 1..(n + 1)} /\ ToSet(o) = {o[i] : i \in 1..n}
    <3>1. ToSet(t) = {t[i] : i \in 1..Len(t)} /\ ToSet(o) = {o[i] : i \in 1..n}
      BY <1>7, SeqIs
    <3> QED
      BY <2>4, <3>1
  <2>11. ASSUME NEW x
         PROVE  x \in ToSet(t) <=> x \in ToSet(o) \cup {m}
    <3>1. ASSUME NEW i \in 1..(n + 1)
          PROVE  t[i] \in ToSet(o) \cup {m}
      <4>1. i <= k => i \in 1..n
        BY <2>4
      <4>2. ~(i <= k) /\ i # k + 1 => i - 1 \in 1..n
        BY <2>4
      <4> QED
        BY <2>4, <2>5, <4>1, <4>2
    <3>2. m \in ToSet(t)
      <4>1. k + 1 \in 1..(n + 1) /\ ~(k + 1 <= k)
        BY <1>1, <2>4
      <4>2. t[k + 1] = m
        BY <2>4, <4>1
      <4> QED
        BY <2>10, <4>1, <4>2
    <3>3. ASSUME NEW i \in 1..n
          PROVE  o[i] \in ToSet(t)
      <4>1. CASE i <= k
        <5>1. i \in 1..(n + 1)
          OBVIOUS
        <5> QED
          BY <2>4, <2>10, <4>1, <5>1
      <4>2. CASE i > k
        <5>1. i + 1 \in 1..(n + 1) /\ ~(i + 1 <= k) /\ i + 1 # k + 1 /\ (i + 1) - 1 = i
          BY <2>4, <4>2
        <5>2. t[i + 1] = o[i]
          BY <2>4, <5>1
        <5> QED
          BY <2>10, <5>1, <5>2
      <4> QED
        BY <2>4, <4>1, <4>2
    <3> QED
      BY <2>10, <3>1, <3>2, <3>3
  <2> QED
    BY <2>9, <2>11
<1> QED
  BY <1>7, <1>8

(* The mounts of a group from the oldest, one inserted after the other. *)
LEMMA OrderIs ==
  ASSUME TypeOK, ListInv, IdInv, NEW g \in Group, Users(g) # {}
  PROVE  /\ ByMountid(g) \in Seq(Mount) /\ ToSet(ByMountid(g)) = Table(g) /\ Sorted(ByMountid(g))
         /\ IsInjective(ByMountid(g))
<1> DEFINE Q == Seq(Mount)
           ms == InTable(g)
           n == Len(ms)
           step == [i \in 1..n |-> [o \in Q |-> pgrpinsert(o, ms[i])]]
           body(f) == [i \in 0..n |-> IF i = 0 THEN <<>> ELSE pgrpinsert(f[i - 1], ms[i])]
           order == CHOOSE f : f = body(f)
<1>0. ms \in Q /\ IsInjective(ms) /\ ToSet(ms) = Table(g)
  BY InTableIs
<1>1. /\ n \in Nat /\ (\A i \in 1..n : ms[i] \in Mount /\ ms[i] \in Table(g))
      /\ (\A m \in Table(g) : \E i \in 1..n : ms[i] = m)
      /\ \A i, j \in 1..n : ms[i] = ms[j] => i = j
  BY <1>0, SeqIs
<1>2. \A o \in Q : \A m \in Mount : pgrpinsert(o, m) \in Q
  BY InsertIs
<1>3. <<>> \in Q
  OBVIOUS
<1>30. order[n] = ByMountid(g)
  BY DEF ByMountid
<1> HIDE DEF Q, ms, n, order
<1>4. step \in Steps(Q, n)
  BY <1>1, <1>2 DEF Steps
<1>5. PICK f : Leads(f, Q, n, <<>>, step)
  <2> HIDE DEF step, body
  <2> QED
    BY <1>1, <1>3, <1>4, Recursion
<1>6. f \in [0..n -> Q] /\ f[0] = <<>> /\ \A i \in 1..n : f[i] = step[i][f[i - 1]]
  BY <1>5 DEF Leads
<1>7. f = body(f)
  <2>1. \A i \in 0..n : i # 0 => i \in 1..n /\ i - 1 \in 0..n
    BY <1>1
  <2>2. \A i \in 0..n : i # 0 => step[i][f[i - 1]] = pgrpinsert(f[i - 1], ms[i])
    BY <1>6, <2>1
  <2> HIDE DEF step
  <2>3. \A i \in 0..n : f[i] = IF i = 0 THEN <<>> ELSE pgrpinsert(f[i - 1], ms[i])
    BY <1>6, <2>1, <2>2
  <2> QED
    BY <1>6, <2>3
<1>8. order = body(order)
  BY <1>7 DEF order
<1>9. order[0] = <<>> /\ \A i \in 1..n : order[i] = pgrpinsert(order[i - 1], ms[i])
  <2>1. 0 \in 0..n /\ \A i \in 1..n : i \in 0..n /\ i # 0
    BY <1>1
  <2> QED
    BY <1>8, <2>1
<1>10. \A m, l \in Table(g) : m # l => mount[m].mountid # mount[l].mountid
  BY DEF IdInv
<1> DEFINE T == {k \in 0..n : /\ order[k] \in Q /\ Sorted(order[k])
                              /\ \A x : x \in ToSet(order[k]) <=> \E i \in 1..k : x = ms[i]}
<1>11. 0 \in T
  <2>1. Sorted(<<>>) /\ ToSet(<<>>) = {}
    BY DEF Sorted, ToSet
  <2>2. 0 \in 0..n /\ \A i \in 1..0 : FALSE
    BY <1>1
  <2> QED
    BY <1>3, <1>9, <2>1, <2>2
<1>12. ASSUME NEW k \in 0..(n - 1), k \in T
       PROVE  k + 1 \in T
  <2> DEFINE j == k + 1
             o == order[k]
             m == ms[j]
             t == order[j]
  <2>1. j \in 1..n /\ j \in 0..n /\ j - 1 = k /\ k \in 0..n /\ \A i \in 1..k : i \in 1..n /\ i # j
    BY <1>1
  <2>11. \A i : i \in 1..j <=> i \in 1..k \/ i = j
    BY <1>1
  <2>2. o \in Q /\ m \in Mount /\ t = pgrpinsert(o, m)
    BY <1>1, <1>9, <1>12, <2>1
  <2>3. Sorted(o) /\ \A x : x \in ToSet(o) <=> \E i \in 1..k : x = ms[i]
    BY <1>12, <2>1
  <2>4. \A x \in ToSet(o) : mount[x].mountid # mount[m].mountid
    <3>1. \A x \in ToSet(o) : x \in Table(g) /\ x # m
      BY <1>1, <2>1, <2>3
    <3> QED
      BY <1>1, <1>10, <2>1, <3>1
  <2> HIDE DEF o, t, j, m
  <2>5. t \in Q /\ Sorted(t) /\ ToSet(t) = ToSet(o) \cup {m}
    BY <2>2, <2>3, <2>4, InsertIs DEF Q
  <2>6. \A x : x \in ToSet(t) <=> \E i \in 1..j : x = ms[i]
    BY <2>3, <2>5, <2>11 DEF m
  <2>7. j \in T
    BY <2>1, <2>5, <2>6 DEF t
  <2> QED
    BY <2>7 DEF j
<1> HIDE DEF T
<1>13. n \in T
  <2>1. \A k \in 0..n : k \in T
    BY <1>1, <1>11, <1>12, Upto
  <2> QED
    BY <1>1, <2>1
<1>14. order[n] \in Q /\ Sorted(order[n]) /\ \A x : x \in ToSet(order[n]) <=> \E i \in 1..n : x = ms[i]
  BY <1>13 DEF T
<1>15. ToSet(order[n]) = Table(g)
  BY <1>1, <1>14
<1> DEFINE o == order[n]
<1>16. IsInjective(o)
  <2>1. o \in Seq(Mount) /\ Sorted(o)
    BY <1>14 DEF Q
  <2> HIDE DEF o
  <2>2. \A i \in 1..Len(o) : o[i] \in Mount
    BY <2>1
  <2>3. \A i \in 1..Len(o) : mount[o[i]].mountid \in Nat
    BY <2>2 DEF TypeOK
  <2>4. ASSUME NEW i \in 1..Len(o), NEW j \in 1..Len(o), o[i] = o[j]
        PROVE  i = j
    <3>1. ~(i < j) /\ ~(j < i)
      BY <2>1, <2>3, <2>4 DEF Sorted
    <3> QED
      BY <3>1
  <2> QED
    BY <2>1, <2>4, InjIs
<1> QED
  BY <1>14, <1>15, <1>16, <1>30 DEF Q

-----------------------------------------------------------------------------
(* The copy of a name space. *)

(* What pgrpcpy does with the mounts ms: mu is the result. *)
Copies(ms, new, copy, mu) ==
  /\ copy = [m \in ToSet(ms) |-> new[CHOOSE i \in 1..Len(ms) : ms[i] = m]]
  /\ mu = [m \in Mount |->
             IF m \in ToSet(new)
               THEN LET old == ms[CHOOSE i \in 1..Len(ms) : new[i] = m]
                        nx  == mount[old].next
                    IN [NoMount EXCEPT !.to = To(old), !.live = TRUE,
                                       !.next = IF nx = Nil THEN Nil ELSE copy[nx]]
             ELSE IF m \in ToSet(ms) THEN [mount[m] EXCEPT !.copy = copy[m]]
             ELSE mount[m]]

Copied(ms, new, copy, mu) ==
  /\ mu \in MountsType
  /\ \A i \in 1..Len(ms) : copy[ms[i]] = new[i]
  /\ \A m \in ToSet(ms) : /\ copy[m] \in ToSet(new)
                          /\ \A l \in ToSet(ms) : copy[l] = copy[m] => l = m
                          /\ mu[copy[m]].to = mount[m].to /\ mu[copy[m]].live
                          /\ mu[copy[m]].next = IF mount[m].next = Nil THEN Nil ELSE copy[mount[m].next]
  /\ \A x \in ToSet(new) : \E m \in ToSet(ms) : x = copy[m]
  /\ \A m \in Mount : m \notin ToSet(new) =>
       /\ mu[m].mountid = mount[m].mountid /\ mu[m].next = mount[m].next /\ mu[m].to = mount[m].to
       /\ mu[m].live = mount[m].live
       /\ mu[m].copy = IF m \in ToSet(ms) THEN copy[m] ELSE mount[m].copy

LEMMA CopiedIs ==
  ASSUME TypeOK, NEW ms \in Seq(Mount), IsInjective(ms), NEW new \in Seq(Mount), IsInjective(new),
         Len(new) = Len(ms), \A m \in ToSet(ms) : mount[m].next \in ToSet(ms) \cup {Nil},
         NEW copy, NEW mu, Copies(ms, new, copy, mu)
  PROVE  Copied(ms, new, copy, mu)
<1> DEFINE n == Len(ms)
           pos(m) == CHOOSE i \in 1..n : ms[i] = m
           at0(x) == CHOOSE i \in 1..n : new[i] = x
           R == [mountid : Nat, next : Mount \cup {Nil}, to : Chan \cup {Nil},
                 copy : Mount \cup {Nil}, live : BOOLEAN]
           made(x) == [NoMount EXCEPT !.to = To(ms[at0(x)]), !.live = TRUE,
                         !.next = IF mount[ms[at0(x)]].next = Nil THEN Nil ELSE copy[mount[ms[at0(x)]].next]]
<1>1. /\ n \in Nat /\ (\A i \in 1..n : ms[i] \in Mount /\ ms[i] \in ToSet(ms))
      /\ (\A m \in ToSet(ms) : m \in Mount /\ \E i \in 1..n : ms[i] = m)
      /\ \A i, j \in 1..n : ms[i] = ms[j] => i = j
  BY SeqIs
<1>2. /\ (\A i \in 1..n : new[i] \in Mount /\ new[i] \in ToSet(new))
      /\ (\A m \in ToSet(new) : m \in Mount /\ \E i \in 1..n : new[i] = m)
      /\ \A i, j \in 1..n : new[i] = new[j] => i = j
  BY SeqIs
<1>3. \A i \in 1..n : pos(ms[i]) = i /\ at0(new[i]) = i
  BY <1>1, <1>2
<1>4. copy = [m \in ToSet(ms) |-> new[pos(m)]]
  BY DEF Copies
<1>5. mu = [m \in Mount |-> IF m \in ToSet(new) THEN made(m)
                            ELSE IF m \in ToSet(ms) THEN [mount[m] EXCEPT !.copy = copy[m]] ELSE mount[m]]
  BY DEF Copies
<1> HIDE DEF pos, at0, n
<1>6. \A i \in 1..n : copy[ms[i]] = new[i]
  BY <1>1, <1>3, <1>4
<1>7. \A m \in ToSet(ms) : copy[m] \in ToSet(new) /\ copy[m] \in Mount
  BY <1>1, <1>2, <1>6
<1>8. \A m, l \in ToSet(ms) : copy[l] = copy[m] => l = m
  BY <1>1, <1>2, <1>6
<1>9. \A x \in ToSet(new) : \E m \in ToSet(ms) : x = copy[m]
  BY <1>1, <1>2, <1>6
<1>10. \A m \in Mount : mount[m] \in R
  BY DEF TypeOK
<1>11. ASSUME NEW i \in 1..n, NEW m, m = ms[i], NEW x, x = new[i]
       PROVE  /\ mu[x].to = mount[m].to /\ mu[x].live
              /\ mu[x].next = IF mount[m].next = Nil THEN Nil ELSE copy[mount[m].next]
              /\ mu[x] \in R
  <2>1. m \in ToSet(ms) /\ m \in Mount /\ x \in ToSet(new) /\ x \in Mount /\ ms[at0(x)] = m
    BY <1>1, <1>2, <1>3, <1>11
  <2> DEFINE nx == IF mount[m].next = Nil THEN Nil ELSE copy[mount[m].next]
             to == mount[m].to
  <2>2. nx \in Mount \cup {Nil}
    <3>1. mount[m].next = Nil \/ mount[m].next \in ToSet(ms)
      BY <2>1
    <3> QED
      BY <1>7, <3>1
  <2>3. to \in Chan \cup {Nil}
    BY <1>10, <2>1
  <2>4. mu[x] = [NoMount EXCEPT !.to = to, !.live = TRUE, !.next = nx]
    <3>1. mu[x] = made(x)
      BY <1>5, <2>1
    <3>2. made(x) = [NoMount EXCEPT !.to = To(m), !.live = TRUE,
                       !.next = IF mount[m].next = Nil THEN Nil ELSE copy[mount[m].next]]
      BY <2>1
    <3> QED
      BY <3>1, <3>2 DEF To
  <2> HIDE DEF nx, to
  <2>5. mu[x] = [mountid |-> 0, next |-> nx, to |-> to, copy |-> Nil, live |-> TRUE]
    BY <2>4 DEF NoMount
  <2>6. mu[x].to = to /\ mu[x].next = nx /\ mu[x].live /\ mu[x] \in R
    <3>1. Nil \in Mount \cup {Nil} /\ 0 \in Nat
      OBVIOUS
    <3> QED
      BY <2>2, <2>3, <2>5, <3>1
  <2> QED
    BY <2>6 DEF nx, to
<1> HIDE DEF made
<1>12. \A m \in ToSet(ms) : /\ mu[copy[m]].to = mount[m].to /\ mu[copy[m]].live
                            /\ mu[copy[m]].next = IF mount[m].next = Nil THEN Nil ELSE copy[mount[m].next]
                            /\ mu[copy[m]] \in R
  <2>1. ASSUME NEW m \in ToSet(ms)
        PROVE  /\ mu[copy[m]].to = mount[m].to /\ mu[copy[m]].live
               /\ mu[copy[m]].next = IF mount[m].next = Nil THEN Nil ELSE copy[mount[m].next]
               /\ mu[copy[m]] \in R
    <3>1. PICK i \in 1..n : ms[i] = m
      BY <1>1
    <3>2. copy[m] = new[i]
      BY <1>6, <3>1
    <3> QED
      BY <1>11, <3>1, <3>2
  <2> QED
    BY <2>1
<1>13. ASSUME NEW m \in Mount, m \notin ToSet(new)
       PROVE  /\ mu[m].mountid = mount[m].mountid /\ mu[m].next = mount[m].next /\ mu[m].to = mount[m].to
              /\ mu[m].live = mount[m].live
              /\ mu[m].copy = IF m \in ToSet(ms) THEN copy[m] ELSE mount[m].copy
              /\ mu[m] \in R
  <2>1. CASE m \in ToSet(ms)
    <3> DEFINE r == mount[m]
               t == mu[m]
               k == copy[m]
    <3>1. t = [r EXCEPT !.copy = k] /\ r \in R /\ k \in Mount \cup {Nil}
      BY <1>5, <1>7, <1>10, <1>13, <2>1
    <3> HIDE DEF r, t, k
    <3>2. t.mountid = r.mountid /\ t.next = r.next /\ t.to = r.to /\ t.live = r.live /\ t.copy = k /\ t \in R
      BY <3>1
    <3> QED
      BY <2>1, <3>2 DEF r, t, k
  <2>2. CASE m \notin ToSet(ms)
    <3>1. mu[m] = mount[m]
      BY <1>5, <1>13, <2>2
    <3> QED
      BY <1>10, <2>2, <3>1
  <2> QED
    BY <2>1, <2>2
<1>14. mu \in MountsType
  <2>1. \A m \in Mount : mu[m] \in R
    BY <1>9, <1>12, <1>13
  <2>2. mu = [m \in Mount |-> mu[m]]
    BY <1>5
  <2> HIDE DEF R
  <2>3. mu \in [Mount -> R]
    BY <2>1, <2>2
  <2> QED
    BY <2>3 DEF R, MountsType
<1> QED
  BY <1>6, <1>7, <1>8, <1>9, <1>12, <1>13, <1>14 DEF Copied, n

(* The heads of h become those of g, with the copies of the mounts. *)
HeadsCopied(g, h, copy) ==
  /\ \A k \in Group, d \in File : k # h => head'[k][d] = head[k][d]
  /\ \A d \in File : /\ head'[h][d].from = head[g][d].from
                     /\ head'[h][d].mount = IF head[g][d].mount = Nil THEN Nil ELSE copy[head[g][d].mount]

(* What is linked to a mount is linked to its copy. *)
Likewise(mt, mu, copy, l, m, s, k) ==
  /\ IsList(mt, l, m)
  /\ \A x \in ToSet(l) : copy[x] \in Mount
  /\ \A x, y \in ToSet(l) : copy[x] = copy[y] => x = y
  /\ \A x \in ToSet(l) : mu[copy[x]].next = IF mt[x].next = Nil THEN Nil ELSE copy[mt[x].next]
  /\ s = [i \in 1..Len(l) |-> copy[l[i]]]
  /\ k = IF m = Nil THEN Nil ELSE copy[m]

LEMMA CopyList ==
  ASSUME NEW mt, NEW mu, NEW copy, NEW l, NEW m, NEW s, NEW k, Likewise(mt, mu, copy, l, m, s, k)
  PROVE  IsList(mu, s, k)
<1>0. /\ IsList(mt, l, m)
      /\ \A x \in ToSet(l) : copy[x] \in Mount
      /\ \A x, y \in ToSet(l) : copy[x] = copy[y] => x = y
      /\ \A x \in ToSet(l) : mu[copy[x]].next = IF mt[x].next = Nil THEN Nil ELSE copy[mt[x].next]
      /\ s = [i \in 1..Len(l) |-> copy[l[i]]]
      /\ k = IF m = Nil THEN Nil ELSE copy[m]
  BY DEF Likewise
<1> DEFINE n == Len(l)
<1>1. /\ l \in Seq(Mount) /\ n \in Nat
      /\ \A i \in 1..n : l[i] \in Mount /\ l[i] \in ToSet(l)
      /\ \A i, j \in 1..n : l[i] = l[j] => i = j
      /\ l = <<>> <=> n = 0
  <2>1. l \in Seq(Mount) /\ IsInjective(l)
    BY <1>0 DEF IsList
  <2> QED
    BY <2>1, SeqIs
<1>2. /\ m = (IF l = <<>> THEN Nil ELSE l[1])
      /\ \A i \in 1..n : mt[l[i]].next = IF i = n THEN Nil ELSE l[i + 1]
  BY <1>0 DEF IsList
<1> HIDE DEF n
<1>3. s = [i \in 1..n |-> copy[l[i]]]
  BY <1>0 DEF n
<1>4. \A i \in 1..n : copy[l[i]] \in Mount
  BY <1>0, <1>1
<1>5. s \in [1..n -> Mount] /\ \A i \in 1..n : s[i] = copy[l[i]]
  BY <1>3, <1>4
<1>6. s \in Seq(Mount) /\ Len(s) = n
  BY <1>1, <1>5
<1>7. \A i, j \in 1..n : s[i] = s[j] => i = j
  BY <1>0, <1>1, <1>5
<1>8. IsInjective(s)
  BY <1>6, <1>7, InjIs
<1>9. Nil \notin Mount
  BY NameSpaceAssumption DEF Nil, Mount
<1>10. \A i \in 1..n : i # n => i + 1 \in 1..n
  BY <1>1
<1>11. \A i \in 1..n : mu[s[i]].next = IF i = n THEN Nil ELSE s[i + 1]
  <2>1. ASSUME NEW i \in 1..n
        PROVE  mu[s[i]].next = IF i = n THEN Nil ELSE s[i + 1]
    <3>1. mu[s[i]].next = IF mt[l[i]].next = Nil THEN Nil ELSE copy[mt[l[i]].next]
      BY <1>0, <1>1, <1>5
    <3>2. CASE i = n
      BY <1>2, <3>1, <3>2
    <3>3. CASE i # n
      <4>1. i + 1 \in 1..n
        BY <1>10, <3>3
      <4>2. mt[l[i]].next = l[i + 1] /\ l[i + 1] # Nil /\ s[i + 1] = copy[l[i + 1]]
        BY <1>1, <1>2, <1>5, <1>9, <3>3, <4>1
      <4> QED
        BY <3>1, <3>3, <4>2
    <3> QED
      BY <3>2, <3>3
  <2> QED
    BY <2>1
<1>12. k = IF s = <<>> THEN Nil ELSE s[1]
  <2>1. CASE n = 0
    <3>1. s = <<>>
      BY <1>6, <2>1
    <3> QED
      BY <1>0, <1>1, <1>2, <2>1, <3>1
  <2>2. CASE n # 0
    <3>1. 1 \in 1..n /\ s # <<>>
      BY <1>1, <1>6, <2>2
    <3> QED
      BY <1>0, <1>1, <1>2, <1>5, <1>9, <2>2, <3>1
  <2> QED
    BY <2>1, <2>2
<1> QED
  BY <1>6, <1>8, <1>11, <1>12 DEF IsList

(* h gets copies of the mounts ms of g. *)
Forks(g, h, ms, new, copy) ==
  /\ g # h /\ \A d \in File : head[h][d] = NoHead
  /\ ms \in Seq(Mount) /\ ToSet(ms) = Table(g)
  /\ new \in Seq(Mount) /\ \A m \in ToSet(new) : ~mount[m].live
  /\ Copied(ms, new, copy, mount') /\ HeadsCopied(g, h, copy)

LEMMA ForkLists ==
  ASSUME TypeOK, TypeOK', ListInv, NEW g \in Group, NEW h \in Group,
         NEW ms, NEW new, NEW copy, Forks(g, h, ms, new, copy)
  PROVE  /\ ListInv'
         /\ \A k \in Group, d \in File : k # h =>
              List(k, d)' = List(k, d) /\ MountsOn(k, d)' = MountsOn(k, d)
         /\ \A k \in Group : k # h => Table(k)' = Table(k)
         /\ \A d \in File : List(h, d)' = [i \in 1..Len(List(g, d)) |-> copy[List(g, d)[i]]]
         /\ Table(h) = {}
         /\ \A k \in Group : \A m \in Table(k) : m \in Mount /\ mount[m].live /\ m \notin ToSet(new)
                                                 /\ (k # g => m \notin Table(g))
<1>0. /\ g # h /\ \A d \in File : head[h][d] = NoHead
      /\ ms \in Seq(Mount) /\ ToSet(ms) = Table(g)
      /\ new \in Seq(Mount) /\ \A m \in ToSet(new) : ~mount[m].live
      /\ Copied(ms, new, copy, mount') /\ HeadsCopied(g, h, copy)
  BY DEF Forks
<1>1. \A x \in Mount : mount'[x].next \in Mount \cup {Nil}
  BY DEF TypeOK
<1>2. /\ \A m \in Mount : m \notin ToSet(new) => /\ mount'[m].next = mount[m].next
                                                 /\ mount'[m].to = mount[m].to /\ mount'[m].live = mount[m].live
      /\ \A m \in ToSet(ms) : /\ copy[m] \in ToSet(new) /\ \A l \in ToSet(ms) : copy[l] = copy[m] => l = m
                              /\ mount'[copy[m]].to = mount[m].to /\ mount'[copy[m]].live
                              /\ mount'[copy[m]].next = IF mount[m].next = Nil THEN Nil ELSE copy[mount[m].next]
      /\ \A x \in ToSet(new) : \E m \in ToSet(ms) : x = copy[m]
      /\ \A x \in ToSet(new) : x \in Mount
  <2>1. \A x \in ToSet(new) : x \in Mount
    BY <1>0, SeqIs
  <2> QED
    BY <1>0, <2>1 DEF Copied
<1>3. \A k \in Group, e \in File : \A m \in MountsOn(k, e) : m \in Mount /\ mount[m].live /\ m \notin ToSet(new)
  BY <1>0, TableLive
<1>4. ASSUME NEW k \in Group, NEW e \in File, k # h
      PROVE  /\ List(k, e)' = List(k, e) /\ MountsOn(k, e)' = MountsOn(k, e)
             /\ IsList(mount', List(k, e), head'[k][e].mount)
             /\ \A m \in MountsOn(k, e) : mount'[m].live
             /\ head'[k][e] = head[k][e]
  <2> DEFINE s == List(k, e)
             m == head[k][e].mount
             mt == mount
             mu == mount'
  <2>1. head'[k][e] = head[k][e]
    BY <1>0, <1>4 DEF HeadsCopied
  <2>2. IsList(mt, s, m)
    BY DEF ListInv
  <2>3. \A x \in ToSet(s) : x \in Mount /\ mount[x].live /\ x \notin ToSet(new)
    BY <1>3 DEF MountsOn
  <2>4. \A x \in ToSet(s) : mu[x].next = mt[x].next /\ mu[x].live
    BY <1>2, <2>3
  <2>5. \A x \in Mount : mu[x].next \in Mount \cup {Nil}
    BY <1>1
  <2>6. List(k, e)' = ListIn(mu, m)
    BY <2>1 DEF List, ListFrom
  <2> HIDE DEF s, m, mt, mu
  <2>7. IsList(mu, s, m) /\ ListIn(mu, m) = s
    BY <2>2, <2>4, <2>5, SameList
  <2>8. List(k, e)' = List(k, e)
    BY <2>6, <2>7 DEF s
  <2>9. MountsOn(k, e)' = MountsOn(k, e)
    BY <2>8 DEF MountsOn
  <2> QED
    BY <2>1, <2>4, <2>7, <2>8, <2>9 DEF s, m, mu, MountsOn
<1>5. ASSUME NEW e \in File
      PROVE  /\ List(h, e)' = [i \in 1..Len(List(g, e)) |-> copy[List(g, e)[i]]]
             /\ IsList(mount', List(h, e)', head'[h][e].mount)
             /\ head'[h][e].from = Nil <=> head'[h][e].mount = Nil
             /\ \A x : x \in MountsOn(h, e)' <=> \E m \in MountsOn(g, e) : x = copy[m]
  <2> DEFINE l == List(g, e)
             s == [i \in 1..Len(l) |-> copy[l[i]]]
             m == head[g][e].mount
             k == head'[h][e].mount
             mt == mount
             mu == mount'
  <2>1. IsList(mt, l, m)
    BY DEF ListInv
  <2>2. \A x \in ToSet(l) : x \in ToSet(ms)
    BY <1>0 DEF MountsOn, Table
  <2>3. /\ \A x \in ToSet(l) : copy[x] \in Mount
        /\ \A x, y \in ToSet(l) : copy[x] = copy[y] => x = y
        /\ \A x \in ToSet(l) : mu[copy[x]].next = IF mt[x].next = Nil THEN Nil ELSE copy[mt[x].next]
    BY <1>2, <2>2
  <2>4. k = IF m = Nil THEN Nil ELSE copy[m]
    BY <1>0 DEF HeadsCopied
  <2>5. \A x \in Mount : mu[x].next \in Mount \cup {Nil}
    BY <1>1
  <2>6. List(h, e)' = ListIn(mu, k)
    BY DEF List, ListFrom
  <2>60. l \in Seq(Mount)
    BY TableLive
  <2> HIDE DEF l, m, k, mt, mu
  <2>7. IsList(mu, s, k)
    <3> HIDE DEF s
    <3>1. s = [i \in 1..Len(l) |-> copy[l[i]]]
      BY DEF s
    <3>2. Likewise(mt, mu, copy, l, m, s, k)
      BY <2>1, <2>3, <2>4, <3>1 DEF Likewise
    <3> QED
      BY <3>2, CopyList
  <2>8. ListIn(mu, k) = s
    <3> HIDE DEF s
    <3> QED
      BY <2>5, <2>7, ListIs
  <2>9. head'[h][e].from = Nil <=> head'[h][e].mount = Nil
    <3>1. head[g][e].from = Nil <=> m = Nil
      BY DEF ListInv, m
    <3>2. Nil \notin Mount
      BY NameSpaceAssumption DEF Nil, Mount
    <3>3. m # Nil => m \in ToSet(l)
      BY TableLive DEF m, l, MountsOn
    <3> QED
      BY <1>0, <2>3, <2>4, <3>1, <3>2, <3>3 DEF HeadsCopied, k
  <2>10. \A x : x \in MountsOn(h, e)' <=> \E y \in MountsOn(g, e) : x = copy[y]
    <3>1. MountsOn(h, e)' = ToSet(s)
      BY <2>6, <2>8 DEF MountsOn
    <3>2. MountsOn(g, e) = ToSet(l)
      BY DEF MountsOn, l
    <3>3. ToSet(l) = {l[i] : i \in 1..Len(l)}
      BY <2>60, SeqIs
    <3>4. ToSet(s) = {copy[l[i]] : i \in 1..Len(l)}
      BY DEF ToSet
    <3> HIDE DEF s
    <3> QED
      BY <3>1, <3>2, <3>3, <3>4
  <2> QED
    BY <2>6, <2>7, <2>8, <2>9, <2>10 DEF l, s, k, mu
<1>6. Table(h) = {}
  <2>1. \A e \in File : List(h, e) = <<>>
    <3>1. ASSUME NEW e \in File
          PROVE  List(h, e) = <<>>
      <4>1. IsList(mount, List(h, e), Nil)
        BY <1>0 DEF ListInv, NoHead
      <4>2. List(h, e) \in Seq(Mount) /\ Nil \notin Mount
        BY TableLive, NameSpaceAssumption DEF Nil, Mount
      <4>3. List(h, e) # <<>> => List(h, e)[1] = Nil /\ 1 \in 1..Len(List(h, e))
        BY <4>1, <4>2 DEF IsList
      <4> QED
        BY <4>2, <4>3
    <3> QED
      BY <3>1
  <2>2. ToSet(<<>>) = {}
    BY DEF ToSet
  <2> QED
    BY <2>1, <2>2 DEF Table, MountsOn
<1>7. \A k \in Group : \A m \in Table(k) : m \in Mount /\ mount[m].live /\ m \notin ToSet(new)
                                           /\ (k # g => m \notin Table(g))
  <2>1. \A k \in Group : \A m \in Table(k) : m \in Mount /\ mount[m].live /\ m \notin ToSet(new)
    BY <1>3 DEF Table
  <2>2. ASSUME NEW k \in Group, NEW m \in Table(k), k # g
        PROVE  m \notin Table(g)
    BY <2>2 DEF Table, ListInv
  <2> QED
    BY <2>1, <2>2
<1>8. \A k \in Group : k # h => Table(k)' = Table(k)
  BY <1>4 DEF Table
<1>9. \A e \in File : \A x \in MountsOn(h, e)' : /\ x \in ToSet(new) /\ mount'[x].live
                                                 /\ \E m \in MountsOn(g, e) : m \in ToSet(ms) /\ x = copy[m]
  <2>1. \A e \in File : \A m \in MountsOn(g, e) : m \in ToSet(ms)
    BY <1>0 DEF Table
  <2> QED
    BY <1>2, <1>5, <2>1
<1>10. \A k, i \in Group, e, f \in File : k # i \/ e # f => MountsOn(k, e)' \cap MountsOn(i, f)' = {}
  <2>1. ASSUME NEW k \in Group, NEW i \in Group, NEW e \in File, NEW f \in File, k # i \/ e # f
        PROVE  MountsOn(k, e)' \cap MountsOn(i, f)' = {}
    <3>1. CASE k # h /\ i # h
      BY <1>4, <2>1, <3>1 DEF ListInv
    <3>2. CASE k = h /\ i = h
      <4>1. ASSUME NEW x \in MountsOn(h, e)', x \in MountsOn(h, f)'
            PROVE  FALSE
        <5>1. PICK m \in MountsOn(g, e) : m \in ToSet(ms) /\ x = copy[m]
          BY <1>9
        <5>2. PICK l \in MountsOn(g, f) : l \in ToSet(ms) /\ x = copy[l]
          BY <1>9, <4>1
        <5>3. m = l
          BY <1>2, <5>1, <5>2
        <5> QED
          BY <2>1, <3>2, <5>1, <5>2, <5>3 DEF ListInv
      <4> QED
        BY <3>2, <4>1
    <3>3. CASE k = h /\ i # h
      BY <1>3, <1>4, <1>9, <3>3
    <3>4. CASE k # h /\ i = h
      BY <1>3, <1>4, <1>9, <3>4
    <3> QED
      BY <3>1, <3>2, <3>3, <3>4
  <2> QED
    BY <2>1
<1>11. \A m \in Mount : mount'[m].live => To(m)' \in Chan
  <2>1. ASSUME NEW m \in Mount, mount'[m].live
        PROVE  mount'[m].to \in Chan
    <3>1. CASE m \in ToSet(new)
      <4>1. PICK l \in ToSet(ms) : m = copy[l]
        BY <1>2, <3>1
      <4>2. l \in Mount /\ mount[l].live
        BY <1>0, <1>7
      <4> QED
        BY <1>2, <4>1, <4>2 DEF ListInv, To
    <3>2. CASE m \notin ToSet(new)
      BY <1>2, <2>1, <3>2 DEF ListInv, To
    <3> QED
      BY <3>1, <3>2
  <2> QED
    BY <2>1 DEF To
<1>12. \A k \in Group, e \in File :
       /\ IsList(mount', List(k, e)', head'[k][e].mount)
       /\ head'[k][e].from = Nil <=> head'[k][e].mount = Nil
       /\ \A m \in MountsOn(k, e)' : mount'[m].live
  <2>1. ASSUME NEW k \in Group, NEW e \in File
        PROVE  /\ IsList(mount', List(k, e)', head'[k][e].mount)
               /\ head'[k][e].from = Nil <=> head'[k][e].mount = Nil
               /\ \A m \in MountsOn(k, e)' : mount'[m].live
    <3>1. CASE k = h
      BY <1>5, <1>9, <3>1
    <3>2. CASE k # h
      BY <1>4, <3>2 DEF ListInv
    <3> QED
      BY <3>1, <3>2
  <2> QED
    BY <2>1
<1>13. ListInv'
  BY <1>10, <1>11, <1>12 DEF ListInv
<1>14. \A k \in Group, d \in File : k # h => List(k, d)' = List(k, d) /\ MountsOn(k, d)' = MountsOn(k, d)
  BY <1>4
<1>15. \A d \in File : List(h, d)' = [i \in 1..Len(List(g, d)) |-> copy[List(g, d)[i]]]
  BY <1>5
<1> QED
  BY <1>6, <1>7, <1>8, <1>13, <1>14, <1>15

(* The heads hd of g that have z. *)
Row(hd, g, z) == {gd \in Group \X File : gd[1] = g /\ hd[gd[1]][gd[2]].from = z}
From(hd, g, z) == {d \in File : hd[g][d].from = z}

LEMMA RowCount ==
  ASSUME NEW hd, NEW g \in Group, NEW z
  PROVE  /\ IsFiniteSet(From(hd, g, z)) /\ IsFiniteSet(Row(hd, g, z))
         /\ Cardinality(Row(hd, g, z)) = Cardinality(From(hd, g, z))
         /\ Cardinality(From(hd, g, z)) \in Nat
<1> DEFINE D == From(hd, g, z)
           f == [d \in D |-> <<g, d>>]
           R == {f[d] : d \in D}
<1>1. IsFiniteSet(File)
  BY HeadOrderIs
<1>2. IsFiniteSet(D)
  <2>1. D \subseteq File
    BY DEF From
  <2> HIDE DEF D
  <2> QED
    BY <1>1, <2>1, FS_Subset
<1>3. f \in [D -> R] /\ \A d, e \in D : f[d] = f[e] => d = e
  <2> HIDE DEF D
  <2> QED
    OBVIOUS
<1>4. R = Row(hd, g, z)
  <2>1. \A d : d \in D <=> d \in File /\ hd[g][d].from = z
    BY DEF From
  <2> HIDE DEF D
  <2>2. R = {<<g, d>> : d \in D}
    OBVIOUS
  <2> HIDE DEF R
  <2>3. \A gd \in Group \X File : gd = <<gd[1], gd[2]>> /\ gd[2] \in File
    OBVIOUS
  <2>4. \A gd : gd \in Row(hd, g, z) <=> gd \in Group \X File /\ gd[1] = g /\ hd[gd[1]][gd[2]].from = z
    BY DEF Row
  <2>5. ASSUME NEW gd \in Row(hd, g, z)
        PROVE  gd \in R
    <3>1. gd = <<g, gd[2]>> /\ gd[2] \in D
      BY <2>1, <2>3, <2>4
    <3> QED
      BY <2>2, <3>1
  <2>6. ASSUME NEW d \in D
        PROVE  <<g, d>> \in Row(hd, g, z)
    BY <2>1, <2>4
  <2> QED
    BY <2>2, <2>5, <2>6
<1> HIDE DEF D, f
<1>5. IsFiniteSet(R) /\ Cardinality(R) = Cardinality(D)
  BY <1>2, <1>3, SameNumber
<1>6. Cardinality(D) \in Nat
  BY <1>2, FS_CardinalityType
<1> HIDE DEF R
<1> QED
  BY <1>2, <1>4, <1>5, <1>6 DEF D

(* As many different mounts. *)
Matched(ms, new) == IsInjective(ms) /\ IsInjective(new) /\ Len(new) = Len(ms)

(* The mounts new are of the same channels. *)
Brings(f, ms, new) == \A i \in 1..Len(ms) : f[new[i]] = To(ms[i])

(* CountEach, with names for what it is about. *)
Among(ms, f, x) == {m \in ToSet(ms) : f[m] = x}
Each(ms, f) == [i \in 1..Len(ms) |-> f[ms[i]]]

LEMMA CountAmong ==
  ASSUME NEW S, NEW ms \in Seq(S), IsInjective(ms), NEW f, NEW x
  PROVE  IsFiniteSet(Among(ms, f, x)) /\ Count(Each(ms, f), x) = Cardinality(Among(ms, f, x))
BY CountEach, SMTT(20) DEF Among, Each

LEMMA CountNew ==
  ASSUME NEW ms, NEW new \in Seq(Mount), Matched(ms, new), NEW f, Brings(f, ms, new), NEW x
  PROVE  IsFiniteSet(Among(new, f, x)) /\ Count(ToOf(ms), x) = Cardinality(Among(new, f, x))
<1>1. ToOf(ms) = Each(new, f)
  BY DEF ToOf, Matched, Brings, Each
<1>2. new \in Seq(Mount) /\ IsInjective(new)
  BY DEF Matched
<1> QED
  BY <1>1, <1>2, CountAmong

(* What a copy adds to the references of z. *)
LEMMA ForkCounts ==
  ASSUME TypeOK, TypeOK', ListInv, NEW g \in Group, NEW h \in Group,
         NEW ms, NEW new, NEW copy, Forks(g, h, ms, new, copy),
         Matched(ms, new), NEW z \in Chan
  PROVE  /\ Cardinality(MountsTo(z)) \in Nat /\ Cardinality(HeadsOf(z)) \in Nat
         /\ Count(ToOf(ms), z) \in Nat /\ Cardinality(From(head, g, z)) \in Nat
         /\ Cardinality(MountsTo(z)') = Cardinality(MountsTo(z)) + Count(ToOf(ms), z)
         /\ Cardinality(HeadsOf(z)') = Cardinality(HeadsOf(z)) + Cardinality(From(head, g, z))
         /\ Count(ToOf(ms), z) > 0 => \E m \in Table(g) : To(m) = z
         /\ Cardinality(From(head, g, z)) > 0 => \E d \in File : head[g][d].from = z
<1>0. /\ g # h /\ \A d \in File : head[h][d] = NoHead
      /\ ms \in Seq(Mount) /\ ToSet(ms) = Table(g)
      /\ new \in Seq(Mount) /\ \A m \in ToSet(new) : ~mount[m].live
      /\ Copied(ms, new, copy, mount') /\ HeadsCopied(g, h, copy)
  BY DEF Forks
<1>1. IsFiniteSet(MountsTo(z)) /\ IsFiniteSet(HeadsOf(z))
      /\ Cardinality(MountsTo(z)) \in Nat /\ Cardinality(HeadsOf(z)) \in Nat
  BY RefsFinite, RefsType
<1>2. /\ IsFiniteSet({m \in ToSet(ms) : To(m) = z})
      /\ Count(ToOf(ms), z) = Cardinality({m \in ToSet(ms) : To(m) = z})
  BY <1>0, ToCount DEF Matched
<1>3. Count(ToOf(ms), z) \in Nat /\ (Count(ToOf(ms), z) > 0 => \E m \in Table(g) : To(m) = z)
  <2> DEFINE G == {m \in ToSet(ms) : To(m) = z}
  <2>1. G # {} => \E m \in Table(g) : To(m) = z
    BY <1>0
  <2>2. IsFiniteSet(G) /\ Count(ToOf(ms), z) = Cardinality(G)
    BY <1>2
  <2> HIDE DEF G
  <2>3. Cardinality(G) \in Nat /\ (Cardinality(G) > 0 => G # {})
    BY <2>2, OneOf
  <2> QED
    BY <2>1, <2>2, <2>3
<1>4. /\ Cardinality(From(head, g, z)) \in Nat
      /\ Cardinality(From(head, g, z)) > 0 => \E d \in File : head[g][d].from = z
  <2> DEFINE G == From(head, g, z)
  <2>1. G # {} => \E d \in File : head[g][d].from = z
    BY DEF From
  <2>2. IsFiniteSet(G) /\ Cardinality(G) \in Nat
    BY RowCount
  <2> HIDE DEF G
  <2>3. Cardinality(G) > 0 => G # {}
    BY <2>2, OneOf
  <2> QED
    BY <2>1, <2>2, <2>3 DEF G
<1>5. Cardinality(MountsTo(z)') = Cardinality(MountsTo(z)) + Count(ToOf(ms), z)
  <2> DEFINE A == MountsTo(z)
             B == MountsTo(z)'
             mu == mount'
             f == [m \in Mount |-> mu[m].to]
             N == {m \in ToSet(new) : f[m] = z}
  <2>1. /\ \A m \in Mount : m \notin ToSet(new) => mu[m].to = mount[m].to /\ mu[m].live = mount[m].live
        /\ \A i \in 1..Len(ms) : ms[i] \in ToSet(ms) /\ ms[i] \in Mount /\ new[i] \in Mount /\ new[i] \in ToSet(new)
        /\ \A i \in 1..Len(ms) : mu[new[i]].to = mount[ms[i]].to
        /\ \A x \in ToSet(new) : mu[x].live /\ x \in Mount
    <3>1. \A i \in 1..Len(ms) : ms[i] \in ToSet(ms) /\ ms[i] \in Mount /\ new[i] \in Mount /\ new[i] \in ToSet(new)
      BY <1>0, SeqIs DEF Matched
    <3>2. \A x \in ToSet(new) : x \in Mount
      BY <1>0, SeqIs
    <3> QED
      BY <1>0, <3>1, <3>2 DEF Copied
  <2>2. IsFiniteSet(N) /\ Count(ToOf(ms), z) = Cardinality(N)
    <3>1. \A i \in 1..Len(ms) : f[new[i]] = To(ms[i])
      BY <2>1 DEF To
    <3>2. new \in Seq(Mount) /\ Matched(ms, new)
      BY <1>0
    <3>3. Brings(f, ms, new)
      BY <3>1 DEF Brings
    <3> HIDE DEF f, A, B, mu, N
    <3>4. IsFiniteSet(Among(new, f, z)) /\ Count(ToOf(ms), z) = Cardinality(Among(new, f, z))
      BY <3>2, <3>3, CountNew
    <3> QED
      BY <3>4 DEF N, Among
  <2>3. B = A \cup N /\ A \cap N = {}
    <3>1. \A m : m \in A <=> m \in Mount /\ mount[m].live /\ mount[m].to = z
      BY DEF MountsTo, To
    <3>2. \A m : m \in B <=> m \in Mount /\ mu[m].live /\ mu[m].to = z
      BY DEF MountsTo, To
    <3>3. \A m \in ToSet(new) : f[m] = mu[m].to /\ ~mount[m].live
      BY <1>0, <2>1
    <3> HIDE DEF A, B, f, mu
    <3> QED
      BY <2>1, <3>1, <3>2, <3>3
  <2> HIDE DEF N
  <2>4. IsFiniteSet(A)
    BY <1>1
  <2> HIDE DEF A, B
  <2>5. Cardinality(B) = Cardinality(A) + Cardinality(N)
    BY <2>2, <2>3, <2>4, Apart
  <2> QED
    BY <2>2, <2>5 DEF A, B
<1>6. Cardinality(HeadsOf(z)') = Cardinality(HeadsOf(z)) + Cardinality(From(head, g, z))
  <2> DEFINE A == HeadsOf(z)
             B == HeadsOf(z)'
             hd == head'
             N == Row(hd, h, z)
  <2>1. z # Nil
    BY NameSpaceAssumption DEF Chan, Nil
  <2>2. \A gd : gd \in A <=> gd \in Group \X File /\ gd[1] # h /\ head[gd[1]][gd[2]].from = z
    <3>1. \A gd \in Group \X File : gd[1] = h => head[gd[1]][gd[2]].from = Nil
      BY <1>0 DEF NoHead
    <3> QED
      BY <2>1, <3>1 DEF HeadsOf
  <2>3. \A gd : gd \in B <=> gd \in Group \X File /\ hd[gd[1]][gd[2]].from = z
    BY DEF HeadsOf
  <2>4. \A gd : gd \in N <=> gd \in Group \X File /\ gd[1] = h /\ hd[gd[1]][gd[2]].from = z
    BY DEF Row
  <2>5. \A gd \in Group \X File : gd[1] # h => hd[gd[1]][gd[2]] = head[gd[1]][gd[2]]
    BY <1>0 DEF HeadsCopied
  <2>6. From(hd, h, z) = From(head, g, z)
    BY <1>0 DEF From, HeadsCopied
  <2>7. IsFiniteSet(N) /\ Cardinality(N) = Cardinality(From(head, g, z))
    <3> HIDE DEF hd
    <3> QED
      BY <2>6, RowCount
  <2>8. B = A \cup N /\ A \cap N = {}
    <3> HIDE DEF A, B, N, hd
    <3> QED
      BY <2>2, <2>3, <2>4, <2>5
  <2>9. IsFiniteSet(A)
    BY <1>1
  <2> HIDE DEF A, B, N
  <2>10. Cardinality(B) = Cardinality(A) + Cardinality(N)
    BY <2>7, <2>8, <2>9, Apart
  <2> QED
    BY <2>7, <2>10 DEF A, B
<1> QED
  BY <1>1, <1>3, <1>4, <1>5, <1>6

(* p copies its group g to h, which is free. *)
ForkedBy(p, g, h, ms, new, copy) ==
  /\ Forks(g, h, ms, new, copy) /\ Sorted(ms)
  /\ g = grp[p] /\ h \in Group /\ Users(h) = {} /\ ~Grows(h)
  /\ at[p] = "op" /\ at'[p] = "copied" /\ OthersKeep(p) /\ grp' = grp /\ mountid' = mountid
  /\ \A q \in Proc \ {p} : fork'[q] = fork[q] /\ (grp[q] = g => at[q] # "copied")
  /\ fork'[p].to = h /\ fork'[p].order = ms
  /\ group'[h].ref = 1 /\ group'[h].slash = group[h].slash /\ group'[h].dot = group[h].dot
  /\ \A k \in Group : k # h => group'[k] = group[k]

LEMMA ForkedGroups ==
  ASSUME IndInv, TypeOK', NEW p \in Proc, NEW g, NEW h, NEW ms, NEW new, NEW copy,
         ForkedBy(p, g, h, ms, new, copy)
  PROVE  GroupInv' /\ BetweenInv'
<1>0. /\ g = grp[p] /\ h \in Group /\ Users(h) = {} /\ ~Grows(h)
      /\ at[p] = "op" /\ at'[p] = "copied" /\ grp' = grp
      /\ \A q \in Proc \ {p} : fork'[q] = fork[q] /\ (grp[q] = g => at[q] # "copied")
      /\ fork'[p].to = h
      /\ group'[h].ref = 1 /\ group'[h].slash = group[h].slash /\ group'[h].dot = group[h].dot
      /\ \A k \in Group : k # h => group'[k] = group[k]
      /\ \A q \in Proc \ {p} : at'[q] = at[q] /\ w'[q] = w[q]
      /\ \A k \in Group, d \in File : k # h => head'[k][d] = head[k][d]
  BY DEF ForkedBy, OthersKeep, Forks, HeadsCopied
<1>1. TypeOK /\ GroupInv /\ BetweenInv
  BY DEF IndInv
<1>2. \A k \in Group : Users(k)' = Users(k) /\ (k # h => (Grows(k)' <=> Grows(k))) /\ (k = h => Grows(k)')
  <2>1. \A k \in Group : Users(k)' = Users(k)
    BY <1>0 DEF Users
  <2>2. ASSUME NEW k \in Group, k # h
        PROVE  Grows(k)' <=> Grows(k)
    BY <1>0, <2>2 DEF Grows
  <2>3. Grows(h)'
    BY <1>0 DEF Grows
  <2> QED
    BY <2>1, <2>2, <2>3
<1>3. \A q \in Proc : grp[q] # h
  BY <1>0 DEF Users
<1>4. GroupInv'
  <2>1. ASSUME NEW k \in Group
        PROVE  /\ group'[k].ref = Cardinality(Users(k)') + IF Grows(k)' THEN 1 ELSE 0
               /\ Users(k)' # {} => group'[k].slash \in Chan /\ group'[k].dot \in Chan
               /\ Users(k)' = {} => group'[k].slash = Nil /\ group'[k].dot = Nil
               /\ Users(k)' = {} /\ ~Grows(k)' => \A d \in File : head'[k][d] = NoHead
    <3>1. CASE k = h
      <4>1. Cardinality({}) = 0
        BY FS_EmptySet
      <4>2. Users(h) = {} => group[h].slash = Nil /\ group[h].dot = Nil
        BY <1>0, <1>1 DEF GroupInv
      <4> QED
        BY <1>0, <1>2, <3>1, <4>1, <4>2
    <3>2. CASE k # h
      <4>1. /\ group[k].ref = Cardinality(Users(k)) + IF Grows(k) THEN 1 ELSE 0
            /\ Users(k) # {} => group[k].slash \in Chan /\ group[k].dot \in Chan
            /\ Users(k) = {} => group[k].slash = Nil /\ group[k].dot = Nil
            /\ Users(k) = {} /\ ~Grows(k) => \A d \in File : head[k][d] = NoHead
        BY <1>1 DEF GroupInv
      <4> QED
        BY <1>0, <1>2, <3>2, <4>1
    <3> QED
      BY <3>1, <3>2
  <2>2. ASSUME NEW q \in Proc, at'[q] = "copied"
        PROVE  /\ \A k \in Group : k = fork'[q].to => Users(k)' = {}
               /\ \A r \in Proc \ {q} : at'[r] = "copied" => fork'[r].to # fork'[q].to
    <3>1. \A r \in Proc \ {p} : at[r] = "copied" => fork[r].to # h
      BY <1>0 DEF Grows
    <3>3. CASE q = p
      BY <1>0, <1>2, <3>1, <3>3
    <3>4. CASE q # p
      <4>1. /\ Users(fork[q].to) = {}
            /\ \A r \in Proc \ {q} : at[r] = "copied" => fork[r].to # fork[q].to
        BY <1>0, <1>1, <2>2, <3>4 DEF GroupInv
      <4> QED
        BY <1>0, <1>2, <2>2, <3>1, <3>4, <4>1
    <3> QED
      BY <3>3, <3>4
  <2>3. \A q \in Proc : fork'[q].to \in Group
    BY DEF TypeOK
  <2>4. ASSUME NEW q \in Proc, at'[q] = "copied"
        PROVE  /\ Users(fork[q].to)' = {}
               /\ \A r \in Proc \ {q} : at'[r] = "copied" => fork'[r].to # fork'[q].to
    BY <2>2, <2>3, <2>4 DEF Users
  <2> QED
    BY <2>1, <2>4 DEF GroupInv
<1>5. BetweenInv'
  <2>1. ASSUME NEW q \in Proc
        PROVE  Between(q)'
    <3>1. at'[q] \in {"unclone", "unclone2"} => \E d \in File : head'[grp[q]][d].from = w'[q]
      <4>1. grp[q] \in Group /\ grp[q] # h
        BY <1>1, <1>3 DEF TypeOK
      <4>2. q # p => (at[q] \in {"unclone", "unclone2"} => \E d \in File : head[grp[q]][d].from = w[q])
        BY <1>1 DEF BetweenInv, Between
      <4> QED
        BY <1>0, <4>1, <4>2
    <3>2. \A r \in Proc \ {q} : grp[r] = grp[q] =>
            /\ at'[q] = "setdot" => at'[r] # "setdot"
            /\ at'[q] = "copied" => at'[r] # "copied"
      <4>1. \A r \in Proc \ {q} : grp[r] = grp[q] =>
              /\ at[q] = "setdot" => at[r] # "setdot"
              /\ at[q] = "copied" => at[r] # "copied"
        BY <1>1 DEF BetweenInv, Between
      <4> QED
        BY <1>0, <4>1
    <3> QED
      BY <1>0, <3>1, <3>2 DEF Between
  <2> QED
    BY <2>1 DEF BetweenInv
<1> QED
  BY <1>4, <1>5

LEMMA ForkedMounts ==
  ASSUME IndInv, TypeOK', NEW p \in Proc, NEW g, NEW h, NEW ms, NEW new, NEW copy,
         ForkedBy(p, g, h, ms, new, copy)
  PROVE  /\ ListInv' /\ IdInv' /\ CopyInv'
         /\ \A k \in Group : Users(k) # {} => Users(k)' # {} /\ \A m \in Table(k) : KeepsMount(k, m)
<1>0. /\ Forks(g, h, ms, new, copy) /\ Sorted(ms)
      /\ g = grp[p] /\ h \in Group /\ g \in Group /\ Users(h) = {} /\ ~Grows(h)
      /\ at[p] = "op" /\ at'[p] = "copied" /\ grp' = grp /\ mountid' = mountid
      /\ \A q \in Proc \ {p} : fork'[q] = fork[q] /\ (grp[q] = g => at[q] # "copied")
      /\ fork'[p].to = h /\ fork'[p].order = ms
      /\ \A q \in Proc \ {p} : at'[q] = at[q]
  BY DEF ForkedBy, OthersKeep, IndInv, TypeOK
<1>1. TypeOK /\ ListInv /\ IdInv /\ CopyInv
  BY DEF IndInv
<1>2. /\ ListInv'
      /\ \A k \in Group, d \in File : k # h => List(k, d)' = List(k, d)
      /\ \A k \in Group : k # h => Table(k)' = Table(k)
      /\ \A d \in File : List(h, d)' = [i \in 1..Len(List(g, d)) |-> copy[List(g, d)[i]]]
      /\ \A k \in Group : \A m \in Table(k) : m \in Mount /\ mount[m].live /\ m \notin ToSet(new)
                                              /\ (k # g => m \notin Table(g))
  BY <1>0, <1>1, ForkLists
<1>3. /\ ms \in Seq(Mount) /\ ToSet(ms) = Table(g)
      /\ \A m \in Mount : m \notin ToSet(new) =>
           /\ mount'[m].mountid = mount[m].mountid /\ mount'[m].to = mount[m].to
           /\ mount'[m].copy = IF m \in ToSet(ms) THEN copy[m] ELSE mount[m].copy
  BY <1>0 DEF Forks, Copied
<1>4. /\ \A q \in Proc : grp[q] # h /\ grp[q] \in Group
      /\ \A k \in Group : Users(k)' = Users(k) /\ (Users(k) # {} => k # h)
  <2>1. \A q \in Proc : grp[q] \in Group
    BY <1>1 DEF TypeOK
  <2>2. \A q \in Proc : grp[q] # h
    BY <1>0 DEF Users
  <2>3. \A k \in Group : Users(k)' = Users(k) /\ (Users(k) # {} => k # h)
    BY <1>0 DEF Users
  <2> QED
    BY <2>1, <2>2, <2>3
<1>5. \A k \in Group : Users(k) # {} => Users(k)' # {} /\ \A m \in Table(k) : KeepsMount(k, m)
  BY <1>2, <1>3, <1>4 DEF KeepsMount, To
<1>6. IdInv'
  <2>1. ASSUME NEW k \in Group, Users(k)' # {}, NEW m \in Table(k)', NEW l \in Table(k)'
        PROVE  mount'[m].mountid <= mountid' /\ (m # l => mount'[m].mountid # mount'[l].mountid)
    <3>1. k # h /\ Users(k) # {} /\ m \in Table(k) /\ l \in Table(k)
      BY <1>2, <1>4, <2>1
    <3>2. mount[m].mountid <= mountid /\ (m # l => mount[m].mountid # mount[l].mountid)
      BY <1>1, <3>1 DEF IdInv
    <3> QED
      BY <1>0, <1>2, <1>3, <3>1, <3>2
  <2> QED
    BY <2>1 DEF IdInv
<1>7. \A k \in Group, d \in File : /\ Len(List(k, d)) \in Nat
                                   /\ \A i \in 1..Len(List(k, d)) : List(k, d)[i] \in Table(k)
  <2>1. ASSUME NEW k \in Group, NEW d \in File
        PROVE  /\ Len(List(k, d)) \in Nat
               /\ \A i \in 1..Len(List(k, d)) : List(k, d)[i] \in Table(k)
    <3>1. List(k, d) \in Seq(Mount)
      BY <1>1, TableLive
    <3>2. Len(List(k, d)) \in Nat /\ \A i \in 1..Len(List(k, d)) : List(k, d)[i] \in ToSet(List(k, d))
      BY <3>1, SeqIs
    <3> QED
      BY <3>2 DEF Table, MountsOn
  <2> QED
    BY <2>1
<1>8. Copying(p)'
  <2>1. ASSUME NEW d \in File
        PROVE  /\ Len(List(h, d)') = Len(List(g, d)')
               /\ \A i \in 1..Len(List(g, d)') : List(h, d)'[i] = mount'[List(g, d)'[i]].copy
    <3> DEFINE l == List(g, d)
               n == Len(l)
    <3>1. List(g, d)' = l /\ List(h, d)' = [i \in 1..n |-> copy[l[i]]]
      BY <1>0, <1>2 DEF Forks
    <3>2. n \in Nat /\ \A i \in 1..n : l[i] \in Table(g)
      BY <1>0, <1>7
    <3>3. \A i \in 1..n : mount'[l[i]].copy = copy[l[i]]
      BY <1>0, <1>2, <1>3, <3>2
    <3> HIDE DEF l
    <3> QED
      BY <3>1, <3>2, <3>3
  <2>2. ToSet(fork'[p].order) = Table(g)'
    BY <1>0, <1>2, <1>3 DEF Forks
  <2>3. \A i, j \in 1..Len(ms) : i < j => mount'[ms[i]].mountid < mount'[ms[j]].mountid
    <3>1. \A i \in 1..Len(ms) : ms[i] \in Table(g)
      BY <1>3, SeqIs
    <3>2. \A i \in 1..Len(ms) : mount'[ms[i]].mountid = mount[ms[i]].mountid
      BY <1>0, <1>2, <1>3, <3>1
    <3> QED
      BY <1>0, <3>2 DEF Sorted
  <2> QED
    BY <1>0, <2>1, <2>2, <2>3 DEF Copying
<1>9. ASSUME NEW q \in Proc \ {p}, at'[q] = "copied"
      PROVE  Copying(q)'
  <2>s. SUFFICES ASSUME NEW k, k = grp[q], NEW t, t = fork[q].to, NEW o, o = fork[q].order
        PROVE  Copying(q)'
    OBVIOUS
  <2>1. at[q] = "copied" /\ grp'[q] = k /\ fork'[q].to = t /\ fork'[q].order = o
    BY <1>0, <1>9, <2>s
  <2>2. k # g /\ k # h /\ t # h /\ k \in Group /\ t \in Group /\ o \in Seq(Mount)
    BY <1>0, <1>1, <1>4, <2>s, <2>1 DEF Grows, TypeOK
  <2>3. /\ \A d \in File : /\ Len(List(t, d)) = Len(List(k, d))
                           /\ \A i \in 1..Len(List(k, d)) : List(t, d)[i] = mount[List(k, d)[i]].copy
        /\ ToSet(o) = Table(k)
        /\ \A i, j \in 1..Len(o) : i < j => mount[o[i]].mountid < mount[o[j]].mountid
    BY <1>1, <2>s, <2>1 DEF CopyInv, Copying
  <2>4. \A m \in Table(k) : mount'[m].copy = mount[m].copy /\ mount'[m].mountid = mount[m].mountid
    BY <1>2, <1>3, <2>2
  <2>5. \A i \in 1..Len(o) : mount'[o[i]].mountid = mount[o[i]].mountid
    BY <2>2, <2>3, <2>4, SeqIs
  <2>6. \A d \in File : /\ List(t, d)' = List(t, d) /\ List(k, d)' = List(k, d)
                        /\ \A i \in 1..Len(List(k, d)) : mount'[List(k, d)[i]].copy = mount[List(k, d)[i]].copy
    BY <1>2, <1>7, <2>2, <2>4
  <2>7. Table(k)' = Table(k)
    BY <1>2, <2>2
  <2>8. /\ \A d \in File : /\ Len(List(t, d)') = Len(List(k, d)')
                           /\ \A i \in 1..Len(List(k, d)') : List(t, d)'[i] = mount'[List(k, d)'[i]].copy
        /\ ToSet(o) = Table(k)'
        /\ \A i, j \in 1..Len(o) : i < j => mount'[o[i]].mountid < mount'[o[j]].mountid
    BY <2>3, <2>5, <2>6, <2>7
  <2> QED
    BY <2>1, <2>8 DEF Copying
<1>10. CopyInv'
  <2>1. \A q \in Proc : at'[q] # "copied" => Copying(q)'
    BY DEF Copying
  <2> QED
    BY <1>8, <1>9, <2>1 DEF CopyInv
<1> QED
  BY <1>2, <1>5, <1>6, <1>10

(* What pgrpcpy works on. *)
ForkOf(p, g, h, ms, new, copy) ==
  /\ g = grp[p] /\ h = (CHOOSE x \in Group : group[x].ref = 0)
  /\ ms = ByMountid(g) /\ new = Fresh(Len(ms))
  /\ copy = [m \in ToSet(ms) |-> new[CHOOSE i \in 1..Len(ms) : ms[i] = m]]

(* The last two of these need the others. *)
Forking(p, g, h, ms, new, copy) ==
  /\ g \in Group /\ h \in Group /\ g # h
  /\ Users(h) = {} /\ ~Grows(h) /\ \A d \in File : head[h][d] = NoHead
  /\ ms \in Seq(Mount) /\ ToSet(ms) = Table(g) /\ Sorted(ms)
  /\ new \in Seq(Mount) /\ Matched(ms, new) /\ \A m \in ToSet(new) : ~mount[m].live
  /\ at[p] = "op" /\ job[p] \in Calls[p] /\ job[p].op = "fork" /\ got[p] = <<>>
  /\ Copied(ms, new, copy, mount')

LEMMA ForkCopies ==
  ASSUME NEW p \in Proc, ForkCopy(p)
  PROVE  LET order == ByMountid(grp[p])
             fresh == Fresh(Len(order))
             made  == [m \in ToSet(order) |-> fresh[CHOOSE i \in 1..Len(order) : order[i] = m]]
         IN Copies(order, fresh, made, mount')
BY Zenon DEF ForkCopy, Copies

LEMMA ForkHas ==
  ASSUME IndInv, NEW p \in Proc, ForkCopy(p), NEW g, NEW h, NEW ms, NEW new, NEW copy,
         ForkOf(p, g, h, ms, new, copy)
  PROVE  Forking(p, g, h, ms, new, copy)
<1>0. /\ g = grp[p] /\ h = (CHOOSE x \in Group : group[x].ref = 0)
      /\ ms = ByMountid(g) /\ new = Fresh(Len(ms))
      /\ copy = [m \in ToSet(ms) |-> new[CHOOSE i \in 1..Len(ms) : ms[i] = m]]
  BY DEF ForkOf
<1>1. /\ Ready(p, "fork") /\ \E x \in Group : group[x].ref = 0
      /\ EnoughMounts(Len(ms))
  BY <1>0 DEF ForkCopy
<1>2. Copies(ms, new, copy, mount')
  <2>1. LET order == ByMountid(grp[p])
            fresh == Fresh(Len(order))
            made  == [m \in ToSet(order) |-> fresh[CHOOSE i \in 1..Len(order) : order[i] = m]]
        IN Copies(order, fresh, made, mount')
    BY ForkCopies
  <2> QED
    BY <1>0, <2>1
<1>3. TypeOK /\ ListInv /\ IdInv /\ GroupInv
  BY DEF IndInv
<1>4. at[p] = "op" /\ job[p] \in Calls[p] /\ job[p].op = "fork" /\ got[p] = <<>>
  BY <1>1, ReadyHas
<1>5. g \in Group /\ p \in Users(g) /\ h \in Group /\ group[h].ref = 0
  BY <1>0, <1>1, <1>3 DEF TypeOK, Users
<1>6. Users(h) = {} /\ ~Grows(h)
  <2>1. group[h].ref = Cardinality(Users(h)) + IF Grows(h) THEN 1 ELSE 0
    BY <1>3, <1>5 DEF GroupInv
  <2>2. IsFiniteSet(Users(h))
    <3>1. Users(h) \subseteq Proc
      BY DEF Users
    <3> QED
      BY <3>1, NameSpaceAssumption, FS_Subset
  <2> DEFINE S == Users(h)
  <2>3. IsFiniteSet(S) /\ 0 = Cardinality(S) + IF Grows(h) THEN 1 ELSE 0
    BY <1>5, <2>1, <2>2
  <2> HIDE DEF S
  <2>4. Cardinality(S) \in Nat /\ (Cardinality(S) = 0 <=> S = {})
    BY <2>3, OneOf
  <2>5. S = {} /\ ~Grows(h)
    BY <2>3, <2>4
  <2> QED
    BY <2>5 DEF S
<1>7. g # h /\ \A d \in File : head[h][d] = NoHead
  BY <1>3, <1>5, <1>6 DEF GroupInv
<1>8. ms \in Seq(Mount) /\ ToSet(ms) = Table(g) /\ Sorted(ms) /\ IsInjective(ms)
  BY <1>0, <1>3, <1>5, OrderIs
<1>9. /\ new \in Seq(Mount) /\ Len(new) = Len(ms) /\ IsInjective(new)
      /\ \A m \in ToSet(new) : m \in Mount /\ ~mount[m].live
  <2>1. Len(ms) \in Nat
    BY <1>8
  <2> QED
    BY <1>0, <1>1, <1>3, <2>1, FreshIs
<1>10. \A m \in ToSet(ms) : mount[m].next \in ToSet(ms) \cup {Nil}
  <2>1. ASSUME NEW m \in ToSet(ms)
        PROVE  mount[m].next \in ToSet(ms) \cup {Nil}
    <3>1. PICK d \in File : m \in MountsOn(g, d)
      BY <1>8 DEF Table
    <3> DEFINE l == List(g, d)
    <3>2. l \in Seq(Mount) /\ \A i \in 1..Len(l) : mount[l[i]].next = IF i = Len(l) THEN Nil ELSE l[i + 1]
      BY <1>3, <1>5 DEF ListInv, IsList
    <3>3. m \in ToSet(l) /\ \A x \in ToSet(l) : x \in ToSet(ms)
      BY <1>8, <3>1 DEF MountsOn, Table
    <3> HIDE DEF l
    <3>4. PICK i \in 1..Len(l) : l[i] = m
      BY <3>2, <3>3, SeqIs
    <3>5. CASE i = Len(l)
      BY <3>2, <3>4, <3>5
    <3>6. CASE i # Len(l)
      <4>1. i + 1 \in 1..Len(l)
        BY <3>2, <3>4, <3>6
      <4>2. l[i + 1] \in ToSet(l)
        BY <3>2, <4>1, SeqIs
      <4> QED
        BY <3>2, <3>3, <3>4, <3>6, <4>2
    <3> QED
      BY <3>5, <3>6
  <2> QED
    BY <2>1
<1> DEFINE mu == mount'
<1>11. Copied(ms, new, copy, mu)
  <2>1. Copies(ms, new, copy, mu)
    BY <1>2
  <2> HIDE DEF mu
  <2> QED
    BY <1>3, <1>8, <1>9, <1>10, <2>1, CopiedIs
<1>12. Matched(ms, new)
  BY <1>8, <1>9 DEF Matched
<1> QED
  BY <1>4, <1>5, <1>6, <1>7, <1>8, <1>9, <1>11, <1>12 DEF Forking

(* What pgrpcpy does with the heads, and with the references of channels. *)
HeadsOfCopy(g, h, copy) ==
  [head EXCEPT ![h] = [d \in File |->
     IF head[g][d].from = Nil THEN NoHead ELSE [head[g][d] EXCEPT !.mount = copy[@]]]]
RefsOfCopy(g, ms) == [x \in Chan |-> Count(ToOf(ms), x) + Cardinality(From(head, g, x))]

LEMMA ForkRest ==
  ASSUME NEW p \in Proc, ForkCopy(p)
  PROVE  LET g == grp[p]
             h == CHOOSE x \in Group : group[x].ref = 0
             order == ByMountid(g)
             fresh == Fresh(Len(order))
             made  == [m \in ToSet(order) |-> fresh[CHOOSE i \in 1..Len(order) : order[i] = m]]
         IN /\ head' = HeadsOfCopy(g, h, made)
            /\ ch' = IncrefAll(ch, RefsOfCopy(g, order))
            /\ group' = [group EXCEPT ![h].ref = 1]
            /\ fork' = [fork EXCEPT ![p] = [to |-> h, order |-> order]]
            /\ CopyTogether \/ \A q \in Proc : grp[q] = g => at[q] # "copied"
<1>1. LET g == grp[p]
          h == CHOOSE x \in Group : group[x].ref = 0
          order == ByMountid(g)
          fresh == Fresh(Len(order))
          made  == [m \in ToSet(order) |-> fresh[CHOOSE i \in 1..Len(order) : order[i] = m]]
      IN head' = HeadsOfCopy(g, h, made)
  BY Zenon DEF ForkCopy, HeadsOfCopy
<1>2. LET g == grp[p]
          order == ByMountid(g)
      IN ch' = IncrefAll(ch, RefsOfCopy(g, order))
  BY Zenon DEF ForkCopy, RefsOfCopy, From
<1>3. LET g == grp[p]
          h == CHOOSE x \in Group : group[x].ref = 0
          order == ByMountid(g)
      IN /\ group' = [group EXCEPT ![h].ref = 1]
         /\ fork' = [fork EXCEPT ![p] = [to |-> h, order |-> order]]
         /\ CopyTogether \/ \A q \in Proc : grp[q] = g => at[q] # "copied"
  BY Zenon DEF ForkCopy
<1> QED
  BY <1>1, <1>2, <1>3

(* What copying the heads comes to. *)
LEMMA HeadsOfCopyIs ==
  ASSUME IndInv, NEW g \in Group, NEW h \in Group, g # h, NEW copy, NEW hd, hd = HeadsOfCopy(g, h, copy),
         \A m \in Table(g) : copy[m] \in Mount
  PROVE  /\ hd \in [Group -> [File -> HeadType]]
         /\ \A k \in Group, d \in File : k # h => hd[k][d] = head[k][d]
         /\ \A d \in File : /\ hd[h][d].from = head[g][d].from
                            /\ hd[h][d].mount = IF head[g][d].mount = Nil THEN Nil ELSE copy[head[g][d].mount]
<1>1. TypeOK /\ ListInv /\ head \in [Group -> [File -> HeadType]]
  BY DEF IndInv, TypeOK, HeadType
<1> DEFINE row == [d \in File |-> IF head[g][d].from = Nil THEN NoHead ELSE [head[g][d] EXCEPT !.mount = copy[@]]]
<1>2. ASSUME NEW d \in File
      PROVE  /\ row[d] \in HeadType
             /\ row[d].from = head[g][d].from
             /\ row[d].mount = IF head[g][d].mount = Nil THEN Nil ELSE copy[head[g][d].mount]
  <2>s. SUFFICES ASSUME NEW r, r = head[g][d], NEW t, t = row[d]
        PROVE  t \in HeadType /\ t.from = r.from /\ t.mount = IF r.mount = Nil THEN Nil ELSE copy[r.mount]
    OBVIOUS
  <2>1. r \in HeadType /\ (r.from = Nil <=> r.mount = Nil)
    BY <1>1, <2>s DEF ListInv
  <2>2. r.mount # Nil => copy[r.mount] \in Mount
    <3>1. r.mount # Nil => r.mount \in Table(g)
      BY <1>1, <2>s, TableLive DEF Table, MountsOn
    <3> QED
      BY <3>1
  <2>3. t = IF r.from = Nil THEN NoHead ELSE [r EXCEPT !.mount = copy[@]]
    BY <2>s
  <2>4. r = [from |-> r.from, mount |-> r.mount] /\ r.from \in Chan \cup {Nil}
    BY <2>1 DEF HeadType
  <2>5. t = [from |-> r.from, mount |-> IF r.mount = Nil THEN Nil ELSE copy[r.mount]]
    <3>1. CASE r.from = Nil
      BY <2>1, <2>3, <3>1 DEF NoHead
    <3>2. CASE r.from # Nil
      <4>1. t = [r EXCEPT !.mount = copy[r.mount]]
        BY <2>3, <3>2
      <4> QED
        BY <2>1, <2>4, <3>2, <4>1
    <3> QED
      BY <3>1, <3>2
  <2> QED
    BY <2>2, <2>4, <2>5 DEF HeadType
<1>3. hd = [head EXCEPT ![h] = row]
  BY DEF HeadsOfCopy
<1>4. row \in [File -> HeadType]
  <2>1. \A d \in File : row[d] \in HeadType
    BY <1>2
  <2>2. row = [d \in File |-> row[d]]
    OBVIOUS
  <2> HIDE DEF row
  <2> QED
    BY <2>1, <2>2
<1> HIDE DEF row
<1>5. /\ hd \in [Group -> [File -> HeadType]] /\ hd[h] = row
      /\ \A k \in Group : k # h => hd[k] = head[k]
  BY <1>1, <1>3, <1>4
<1> QED
  BY <1>2, <1>5

(* The references that a copy adds. *)
LEMMA CopyRefs ==
  ASSUME IndInv, NEW g \in Group, NEW ms \in Seq(Mount), ToSet(ms) = Table(g), IsInjective(ms),
         NEW n, n = RefsOfCopy(g, ms)
  PROVE  /\ n \in [Chan -> Nat]
         /\ \A z \in Chan : n[z] = Count(ToOf(ms), z) + Cardinality(From(head, g, z))
         /\ \A z \in Chan : n[z] > 0 => ch.of[z].ref > 0 /\ \A q \in Proc : Own(q, z) = 0
<1>1. TypeOK /\ RefsExact /\ Private /\ ListInv
  BY DEF IndInv
<1>2. \A m \in ToSet(ms) : m \in Mount /\ mount[m].live
  <2>1. \A d \in File : \A m \in MountsOn(g, d) : m \in Mount /\ mount[m].live
    BY <1>1, TableLive
  <2> QED
    BY <2>1 DEF Table
<1>3. ASSUME NEW z \in Chan
      PROVE  /\ Count(ToOf(ms), z) \in Nat /\ Cardinality(From(head, g, z)) \in Nat
             /\ Count(ToOf(ms), z) + Cardinality(From(head, g, z)) > 0 =>
                  ch.of[z].ref > 0 /\ \A q \in Proc : Own(q, z) = 0
  <2> DEFINE A == {m \in ToSet(ms) : To(m) = z}
             B == From(head, g, z)
             a == Count(ToOf(ms), z)
  <2>1. /\ IsFiniteSet({m \in ToSet(ms) : To(m) = z})
        /\ Count(ToOf(ms), z) = Cardinality({m \in ToSet(ms) : To(m) = z})
    BY <1>1, ToCount
  <2>2. IsFiniteSet(B)
    BY RowCount
  <2>3. A # {} => ch.of[z].ref > 0 /\ \A q \in Proc : Own(q, z) = 0
    BY <1>1, <1>2, TableChan
  <2>4. B # {} => ch.of[z].ref > 0 /\ \A q \in Proc : Own(q, z) = 0
    <3>1. z # Nil
      BY NameSpaceAssumption DEF Chan, Nil
    <3> QED
      BY <1>1, <3>1, TableChan DEF From
  <2>5. IsFiniteSet(A) /\ a = Cardinality(A)
    BY <2>1
  <2> HIDE DEF A, B, a
  <2>6. /\ Cardinality(A) \in Nat /\ (Cardinality(A) = 0 <=> A = {})
        /\ Cardinality(B) \in Nat /\ (Cardinality(B) = 0 <=> B = {})
    BY <2>2, <2>5, OneOf
  <2>7. a \in Nat /\ Cardinality(B) \in Nat /\ (a + Cardinality(B) > 0 => A # {} \/ B # {})
    BY <2>5, <2>6
  <2> QED
    BY <2>3, <2>4, <2>7 DEF a, B
<1>4. n = [z \in Chan |-> Count(ToOf(ms), z) + Cardinality(From(head, g, z))]
  BY DEF RefsOfCopy
<1>5. \A z \in Chan : n[z] = Count(ToOf(ms), z) + Cardinality(From(head, g, z))
  BY <1>4
<1>6. \A z \in Chan : n[z] \in Nat
  BY <1>3, <1>5
<1> QED
  BY <1>3, <1>4, <1>5, <1>6

(* What the first step of a fork has done. *)
CopyEdits == \E g, h, ms, new, copy : g \in Group /\ h \in Group /\ Forks(g, h, ms, new, copy)

LEMMA ForkCopyKeeps ==
  ASSUME IndInv, Orderly, NEW p \in Proc, ForkCopy(p)
  PROVE  IndInv' /\ FilesKept /\ CopyEdits
<1>s. SUFFICES ASSUME NEW g, NEW h, NEW ms, NEW new, NEW copy, ForkOf(p, g, h, ms, new, copy)
      PROVE  IndInv' /\ FilesKept /\ CopyEdits
  <2>1. ForkOf(p, grp[p], CHOOSE x \in Group : group[x].ref = 0, ByMountid(grp[p]),
               Fresh(Len(ByMountid(grp[p]))),
               [m \in ToSet(ByMountid(grp[p])) |->
                  Fresh(Len(ByMountid(grp[p])))[CHOOSE i \in 1..Len(ByMountid(grp[p])) : ByMountid(grp[p])[i] = m]])
    BY Zenon DEF ForkOf
  <2> QED
    BY <1>s, <2>1
<1>1. Forking(p, g, h, ms, new, copy)
  BY <1>s, ForkHas
<1>2. /\ g \in Group /\ h \in Group /\ g # h
      /\ Users(h) = {} /\ ~Grows(h) /\ \A d \in File : head[h][d] = NoHead
      /\ ms \in Seq(Mount) /\ ToSet(ms) = Table(g) /\ Sorted(ms)
      /\ new \in Seq(Mount) /\ Matched(ms, new) /\ IsInjective(ms) /\ \A m \in ToSet(new) : ~mount[m].live
      /\ at[p] = "op" /\ job[p] \in Calls[p] /\ job[p].op = "fork" /\ got[p] = <<>>
      /\ Copied(ms, new, copy, mount')
  BY <1>1 DEF Forking, Matched
<1>3. /\ head' = HeadsOfCopy(g, h, copy)
      /\ ch' = IncrefAll(ch, RefsOfCopy(g, ms))
      /\ group' = [group EXCEPT ![h].ref = 1]
      /\ fork' = [fork EXCEPT ![p] = [to |-> h, order |-> ms]]
      /\ CopyTogether \/ \A q \in Proc : grp[q] = g => at[q] # "copied"
  <2>1. /\ g = grp[p] /\ h = (CHOOSE x \in Group : group[x].ref = 0)
        /\ ms = ByMountid(g) /\ new = Fresh(Len(ms))
        /\ copy = [m \in ToSet(ms) |-> new[CHOOSE i \in 1..Len(ms) : ms[i] = m]]
    BY <1>s DEF ForkOf
  <2>2. LET k == grp[p]
            l == CHOOSE x \in Group : group[x].ref = 0
            order == ByMountid(k)
            fresh == Fresh(Len(order))
            made  == [m \in ToSet(order) |-> fresh[CHOOSE i \in 1..Len(order) : order[i] = m]]
        IN /\ head' = HeadsOfCopy(k, l, made)
           /\ ch' = IncrefAll(ch, RefsOfCopy(k, order))
           /\ group' = [group EXCEPT ![l].ref = 1]
           /\ fork' = [fork EXCEPT ![p] = [to |-> l, order |-> order]]
           /\ CopyTogether \/ \A q \in Proc : grp[q] = k => at[q] # "copied"
    BY ForkRest
  <2> QED
    BY <2>1, <2>2
<1>4. /\ at' = [at EXCEPT ![p] = "copied"] /\ g = grp[p] /\ ~CopyTogether
      /\ UNCHANGED <<mountid, grp, fd, job, walking, got, left>>
  BY <1>s DEF ForkCopy, ForkOf, Orderly
<1>5. TypeOK /\ RefsExact /\ Private /\ ListInv /\ GroupInv /\ ChanInv
  BY DEF IndInv
<1>6. /\ at' \in [Proc -> Labels] /\ at'[p] = "copied" /\ \A q \in Proc \ {p} : at'[q] = at[q]
      /\ OthersKeep(p)
  BY <1>4, <1>5 DEF TypeOK, Labels, OthersKeep, walking
<1>7. /\ fork' \in [Proc -> [to : Group, order : Seq(Mount)]]
      /\ fork'[p].to = h /\ fork'[p].order = ms /\ \A q \in Proc \ {p} : fork'[q] = fork[q]
  BY <1>2, <1>3, <1>5 DEF TypeOK
<1>8. /\ group' \in [Group -> [ref : Nat, slash : Chan \cup {Nil}, dot : Chan \cup {Nil}]]
      /\ group'[h].ref = 1 /\ \A k \in Group : k # h => group'[k] = group[k]
      /\ \A k \in Group : group'[k].slash = group[k].slash /\ group'[k].dot = group[k].dot
  <2> DEFINE R == [ref : Nat, slash : Chan \cup {Nil}, dot : Chan \cup {Nil}]
             gr == group
             gu == group'
  <2>1. gr \in [Group -> R] /\ gu = [gr EXCEPT ![h].ref = 1]
    BY <1>3, <1>5 DEF TypeOK
  <2>s. SUFFICES ASSUME NEW r, r = gr[h]
        PROVE  gu \in [Group -> R] /\ gu[h].ref = 1 /\ (\A k \in Group : k # h => gu[k] = gr[k])
               /\ \A k \in Group : gu[k].slash = gr[k].slash /\ gu[k].dot = gr[k].dot
    OBVIOUS
  <2> HIDE DEF gr, gu
  <2>2. r \in R /\ gu = [gr EXCEPT ![h] = [r EXCEPT !.ref = 1]]
    BY <1>2, <2>1, <2>s
  <2>3. [r EXCEPT !.ref = 1] \in R /\ [r EXCEPT !.ref = 1].ref = 1 /\ [r EXCEPT !.ref = 1].slash = r.slash
        /\ [r EXCEPT !.ref = 1].dot = r.dot
    BY <2>2
  <2> HIDE DEF R
  <2>4. gu[h] = [r EXCEPT !.ref = 1] /\ gu \in [Group -> R] /\ \A k \in Group : k # h => gu[k] = gr[k]
    BY <1>2, <2>1, <2>2, <2>3
  <2> QED
    BY <2>3, <2>4, <2>s
<1>9. \A m \in Table(g) : copy[m] \in Mount
  <2>1. \A m \in ToSet(ms) : copy[m] \in ToSet(new)
    BY <1>2 DEF Copied
  <2>2. \A m \in ToSet(new) : m \in Mount
    BY <1>2, SeqIs
  <2> QED
    BY <1>2, <2>1, <2>2
<1>10. /\ head' \in [Group -> [File -> HeadType]] /\ HeadsCopied(g, h, copy)
  <2> DEFINE hd == head'
  <2>1. hd = HeadsOfCopy(g, h, copy)
    BY <1>3
  <2> HIDE DEF hd
  <2>2. /\ hd \in [Group -> [File -> HeadType]]
        /\ \A k \in Group, d \in File : k # h => hd[k][d] = head[k][d]
        /\ \A d \in File : /\ hd[h][d].from = head[g][d].from
                           /\ hd[h][d].mount = IF head[g][d].mount = Nil THEN Nil ELSE copy[head[g][d].mount]
    BY <1>2, <1>9, <2>1, HeadsOfCopyIs
  <2> QED
    BY <2>2 DEF hd, HeadsCopied
<1>11. Forks(g, h, ms, new, copy)
  BY <1>2, <1>10 DEF Forks
<1>12. ForkedBy(p, g, h, ms, new, copy)
  BY <1>2, <1>3, <1>4, <1>6, <1>7, <1>8, <1>11 DEF ForkedBy
<1> DEFINE n == RefsOfCopy(g, ms)
<1>13. /\ n \in [Chan -> Nat]
       /\ \A z \in Chan : n[z] = Count(ToOf(ms), z) + Cardinality(From(head, g, z))
       /\ \A z \in Chan : n[z] > 0 => ch.of[z].ref > 0 /\ \A q \in Proc : Own(q, z) = 0
  BY <1>2, CopyRefs
<1> HIDE DEF n
<1>14. /\ ch' \in ChansType /\ FreeOK(ch') /\ SameButRefs(ch, ch')
       /\ \A z \in Chan : ch'.of[z].ref = ch.of[z].ref + n[z]
  <2> DEFINE s == ch
             t == ch'
  <2>1. s \in ChansType /\ FreeOK(s) /\ t = IncrefAll(s, n) /\ \A z \in Chan : n[z] > 0 => s.of[z].ref > 0
    BY <1>3, <1>13, Channels DEF n
  <2> HIDE DEF s, t
  <2>2. /\ t \in ChansType /\ FreeOK(t) /\ SameButRefs(s, t)
        /\ \A z \in Chan : t.of[z].ref = s.of[z].ref + n[z]
    BY <1>13, <2>1, IncrefAllEffect
  <2> QED
    BY <2>2 DEF s, t
<1>15. TypeOK'
  <2>1. mount' \in MountsType
    BY <1>2 DEF Copied
  <2>2. job' = [q \in Proc |-> job'[q]]
    BY <1>4, <1>5 DEF TypeOK
  <2> QED
    BY <1>4, <1>5, <1>6, <1>7, <1>8, <1>10, <1>14, <2>1, <2>2
       DEF TypeOK, ChansType, ChanType, MountsType, HeadType, walking
<1>16. GroupInv' /\ BetweenInv'
  BY <1>12, <1>15, ForkedGroups
<1>17. /\ ListInv' /\ IdInv' /\ CopyInv'
       /\ \A k \in Group : Users(k) # {} => Users(k)' # {} /\ \A m \in Table(k) : KeepsMount(k, m)
  BY <1>12, <1>15, ForkedMounts
<1>18. ASSUME NEW z \in Chan
       PROVE  InTables(z)' = InTables(z) + n[z] /\ InTables(z) \in Nat /\ n[z] \in Nat
  <2> DEFINE a == Cardinality(MountsTo(z))
             aa == Cardinality(MountsTo(z)')
             b == Cardinality(HeadsOf(z))
             bb == Cardinality(HeadsOf(z)')
             s == Cardinality(SlashesOf(z))
             t == Cardinality(DotsOf(z))
             i == Count(ToOf(ms), z)
             j == Cardinality(From(head, g, z))
  <2>1. a \in Nat /\ b \in Nat /\ i \in Nat /\ j \in Nat /\ aa = a + i /\ bb = b + j
    BY <1>2, <1>5, <1>11, <1>15, ForkCounts
  <2>2. s \in Nat /\ t \in Nat /\ InTables(z) = a + b + s + t
    BY <1>5, RefsType DEF InTables
  <2>3. SlashesOf(z)' = SlashesOf(z)
    BY <1>8 DEF SlashesOf
  <2>4. DotsOf(z)' = DotsOf(z)
    <3>1. \A q \in Proc : at'[q] # "setdot" <=> at[q] # "setdot"
      BY <1>2, <1>6
    <3> QED
      BY <1>4, <1>8, <3>1 DEF DotsOf
  <2>5. InTables(z)' = aa + bb + s + t
    BY <2>3, <2>4 DEF InTables
  <2>6. n[z] = i + j
    BY <1>13
  <2> HIDE DEF a, aa, b, bb, s, t, i, j
  <2> QED
    BY <2>1, <2>2, <2>5, <2>6
<1>19. \A z : Own(p, z)' = Own(p, z) /\ Own(p, z) \in Nat
  BY <1>2, <1>4, <1>6 DEF Own, HasWalk
<1>20. ASSUME NEW z \in Chan
       PROVE  /\ ch'.of[z].ref > 0 => ch'.of[z].file \in File
              /\ ch'.of[z].ref + InTables(z) + Own(p, z) = ch.of[z].ref + InTables(z)' + Own(p, z)'
              /\ ch.of[z].ref > 0 => SameFields(z)
              /\ z = fd[p] \/ (\E q \in Proc \ {p} : Own(q, z) > 0) => ~(ch'.of[z].ref > 1)
  <2> DEFINE y == ch.of[z].ref
             yy == ch'.of[z].ref
             v == InTables(z)
             vv == InTables(z)'
             o == Own(p, z)
             oo == Own(p, z)'
             l == n[z]
  <2>1. yy = y + l /\ y \in Nat /\ (l > 0 => y > 0) /\ vv = v + l /\ v \in Nat /\ l \in Nat /\ o = oo /\ o \in Nat
    BY <1>5, <1>13, <1>14, <1>18, <1>19 DEF TypeOK
  <2>2. SameFields(z)
    BY <1>14 DEF SameButRefs, SameFields
  <2>3. y > 0 => ch.of[z].file \in File
    BY <1>5 DEF ChanInv
  <2>4. z = fd[p] => Own(p, z) > 0
    BY <1>5, OwnsThem, NameSpaceAssumption DEF Chan, Nil
  <2>5. \A q \in Proc : Own(q, z) > 0 => y = 1 /\ ~(l > 0)
    <3>1. ASSUME NEW q \in Proc, Own(q, z) > 0
          PROVE  y = 1 /\ ~(l > 0)
      <4>1. y = 1
        BY <1>5, <3>1, OwnAlone
      <4>2. l > 0 => Own(q, z) = 0
        BY <1>13
      <4> HIDE DEF l, y
      <4> QED
        BY <3>1, <4>1, <4>2
    <3> QED
      BY <3>1
  <2> HIDE DEF y, yy, v, vv, o, oo, l
  <2>6. /\ yy > 0 => y > 0
        /\ yy + v + o = y + vv + oo
        /\ y = 1 /\ ~(l > 0) => ~(yy > 1)
    BY <2>1
  <2>7. yy > 0 => ch'.of[z].file \in File
    BY <2>2, <2>3, <2>6 DEF SameFields
  <2> QED
    BY <2>2, <2>4, <2>5, <2>6, <2>7 DEF y, yy, v, vv, o, oo
<1>21. Calling(p)'
  <2>1. Len(Names(job[p])) \in Nat
    BY <1>2, NamesType
  <2> QED
    BY <1>2, <1>4, <1>6, <2>1 DEF Calling, HasWalk
<1>22. at[p] \notin HasWalk /\ got'[p] = <<>> /\ fd' = fd /\ w' = w /\ ~ch'.panic
  BY <1>2, <1>4, <1>5, <1>14 DEF HasWalk, walking, SameButRefs, ChanInv
<1>23. IndInv' /\ FilesKept
  BY <1>4, <1>6, <1>14, <1>15, <1>16, <1>17, <1>20, <1>21, <1>22, TableStep
<1>24. CopyEdits
  BY <1>2, <1>11 DEF CopyEdits
<1> QED
  BY <1>23, <1>24

-----------------------------------------------------------------------------
(* The end of a fork. *)

(* The mounts of a group and their copies. *)
Copyists(p, g, h, ms) ==
  /\ at[p] = "copied" /\ g = grp[p] /\ h = fork[p].to /\ ms = fork[p].order

Paired(g, h, ms) ==
  /\ g \in Group /\ h \in Group /\ g # h /\ Users(h) = {}
  /\ ms \in Seq(Mount) /\ ToSet(ms) = Table(g)
  /\ \A i, j \in 1..Len(ms) : ms[i] = ms[j] => i = j
  /\ \A m \in Table(g) : mount[m].copy \in Table(h)
  /\ \A m, l \in Table(g) : mount[m].copy = mount[l].copy => m = l
  /\ \A m \in Table(h) : \E l \in Table(g) : mount[l].copy = m

LEMMA PairedIs ==
  ASSUME IndInv, NEW p \in Proc, NEW g, NEW h, NEW ms, Copyists(p, g, h, ms)
  PROVE  Paired(g, h, ms)
<1>0. at[p] = "copied" /\ g = grp[p] /\ h = fork[p].to /\ ms = fork[p].order
  BY DEF Copyists
<1>1. TypeOK /\ ListInv /\ GroupInv /\ CopyInv
  BY DEF IndInv
<1>2. g \in Group /\ h \in Group /\ ms \in Seq(Mount) /\ p \in Users(g)
  BY <1>0, <1>1 DEF TypeOK, Users
<1>3. Users(h) = {} /\ g # h
  <2>1. Users(h) = {}
    BY <1>0, <1>1 DEF GroupInv
  <2> QED
    BY <1>2, <2>1
<1>4. /\ \A d \in File :
           /\ Len(List(h, d)) = Len(List(g, d))
           /\ \A i \in 1..Len(List(g, d)) : List(h, d)[i] = mount[List(g, d)[i]].copy
      /\ ToSet(ms) = Table(g)
      /\ \A i, j \in 1..Len(ms) : i < j => mount[ms[i]].mountid < mount[ms[j]].mountid
  BY <1>0, <1>1 DEF CopyInv, Copying
<1>5. \A i, j \in 1..Len(ms) : ms[i] = ms[j] => i = j
  <2>1. \A i \in 1..Len(ms) : mount[ms[i]].mountid \in Nat
    BY <1>1, <1>2, SeqIs DEF TypeOK
  <2>2. \A i, j \in 1..Len(ms) : i < j \/ j < i \/ i = j
    BY <1>2
  <2> QED
    BY <1>4, <2>1, <2>2
<1>6. \A k \in Group, d \in File :
        /\ \A i \in 1..Len(List(k, d)) : List(k, d)[i] \in MountsOn(k, d)
        /\ \A m \in MountsOn(k, d) : \E i \in 1..Len(List(k, d)) : List(k, d)[i] = m
        /\ \A i, j \in 1..Len(List(k, d)) : List(k, d)[i] = List(k, d)[j] => i = j
  <2>1. ASSUME NEW k \in Group, NEW d \in File
        PROVE  /\ \A i \in 1..Len(List(k, d)) : List(k, d)[i] \in MountsOn(k, d)
               /\ \A m \in MountsOn(k, d) : \E i \in 1..Len(List(k, d)) : List(k, d)[i] = m
               /\ \A i, j \in 1..Len(List(k, d)) : List(k, d)[i] = List(k, d)[j] => i = j
    <3>1. List(k, d) \in Seq(Mount) /\ IsInjective(List(k, d))
      BY <1>1, TableLive
    <3> QED
      BY <3>1, SeqIs DEF MountsOn
  <2> QED
    BY <2>1
<1>7. \A m : m \in Table(g) <=> \E d \in File : m \in MountsOn(g, d)
  BY DEF Table
<1>8. \A m : m \in Table(h) <=> \E d \in File : m \in MountsOn(h, d)
  BY DEF Table
<1>9. \A m \in Table(g) : mount[m].copy \in Table(h)
  <2>1. ASSUME NEW d \in File, NEW m \in MountsOn(g, d)
        PROVE  mount[m].copy \in MountsOn(h, d)
    <3>1. PICK i \in 1..Len(List(g, d)) : List(g, d)[i] = m
      BY <1>2, <1>6
    <3> QED
      BY <1>2, <1>4, <1>6, <3>1
  <2> QED
    BY <1>7, <1>8, <2>1
<1>10. \A m, l \in Table(g) : mount[m].copy = mount[l].copy => m = l
  <2>1. ASSUME NEW d \in File, NEW e \in File, NEW m \in MountsOn(g, d), NEW l \in MountsOn(g, e),
               mount[m].copy = mount[l].copy
        PROVE  m = l
    <3>1. PICK i \in 1..Len(List(g, d)) : List(g, d)[i] = m
      BY <1>2, <1>6
    <3>2. PICK j \in 1..Len(List(g, e)) : List(g, e)[j] = l
      BY <1>2, <1>6
    <3>3. List(h, d)[i] = List(h, e)[j] /\ List(h, d)[i] \in MountsOn(h, d) /\ List(h, e)[j] \in MountsOn(h, e)
          /\ i \in 1..Len(List(h, d)) /\ j \in 1..Len(List(h, e))
      BY <1>2, <1>4, <1>6, <2>1, <3>1, <3>2
    <3>4. d = e
      BY <1>1, <1>2, <3>3 DEF ListInv
    <3>5. i = j
      BY <1>2, <1>6, <3>3, <3>4
    <3> QED
      BY <3>1, <3>2, <3>4, <3>5
  <2> QED
    BY <1>7, <2>1
<1>11. \A m \in Table(h) : \E l \in Table(g) : mount[l].copy = m
  <2>1. ASSUME NEW d \in File, NEW m \in MountsOn(h, d)
        PROVE  \E l \in MountsOn(g, d) : mount[l].copy = m
    <3>1. PICK i \in 1..Len(List(h, d)) : List(h, d)[i] = m
      BY <1>2, <1>6
    <3>2. i \in 1..Len(List(g, d))
      BY <1>4
    <3> QED
      BY <1>2, <1>4, <1>6, <3>1, <3>2
  <2> QED
    BY <1>7, <1>8, <2>1
<1> QED
  BY <1>2, <1>3, <1>4, <1>5, <1>9, <1>10, <1>11 DEF Paired

(* The copies get ids in the order of ms. *)
Numbers(ms, nu) ==
  nu = [m \in Mount |->
         IF {i \in 1..Len(ms) : mount[ms[i]].copy = m} = {} THEN mount[m]
         ELSE [mount[m] EXCEPT !.mountid =
                 mountid + (CHOOSE i \in {i \in 1..Len(ms) : mount[ms[i]].copy = m} : TRUE) - 1]]

Numbered(g, h, ms, nu) ==
  /\ nu \in MountsType
  /\ \A m \in Mount : /\ nu[m].next = mount[m].next /\ nu[m].to = mount[m].to
                      /\ nu[m].copy = mount[m].copy /\ nu[m].live = mount[m].live
                      /\ m \notin Table(h) => nu[m].mountid = mount[m].mountid
  /\ \A i \in 1..Len(ms) : nu[mount[ms[i]].copy].mountid = mountid + i - 1
  /\ \A m \in Table(h) : nu[m].mountid <= mountid + Len(ms)
  /\ \A m, l \in Table(h) : m # l => nu[m].mountid # nu[l].mountid

LEMMA NumberedIs ==
  ASSUME TypeOK, ListInv, NEW g, NEW h, NEW ms, Paired(g, h, ms), NEW nu, Numbers(ms, nu)
  PROVE  Numbered(g, h, ms, nu)
<1>0. /\ g \in Group /\ h \in Group /\ ms \in Seq(Mount) /\ ToSet(ms) = Table(g)
      /\ \A i, j \in 1..Len(ms) : ms[i] = ms[j] => i = j
      /\ \A m \in Table(g) : mount[m].copy \in Table(h)
      /\ \A m, l \in Table(g) : mount[m].copy = mount[l].copy => m = l
      /\ \A m \in Table(h) : \E l \in Table(g) : mount[l].copy = m
  BY DEF Paired
<1> DEFINE n == Len(ms)
           from(m) == {i \in 1..n : mount[ms[i]].copy = m}
           id(m) == mountid + (CHOOSE i \in from(m) : TRUE) - 1
<1>1. n \in Nat /\ mountid \in Nat /\ (\A i \in 1..n : ms[i] \in Table(g))
      /\ \A m \in Table(g) : \E i \in 1..n : ms[i] = m
  <2>1. mountid \in Nat
    BY DEF TypeOK
  <2> QED
    BY <1>0, <2>1, SeqIs
<1>2. \A m \in Table(h) : m \in Mount
  <2>1. \A d \in File : \A m \in MountsOn(h, d) : m \in Mount
    BY <1>0, TableLive
  <2> QED
    BY <2>1 DEF Table
<1>3. nu = [m \in Mount |-> IF from(m) = {} THEN mount[m] ELSE [mount[m] EXCEPT !.mountid = id(m)]]
  BY DEF Numbers
<1> HIDE DEF n
<1>4. \A i \in 1..n : from(mount[ms[i]].copy) = {i}
  BY <1>0, <1>1 DEF n
<1>5. \A i \in 1..n : id(mount[ms[i]].copy) = mountid + i - 1
  BY <1>4
<1>6. \A m : m \notin Table(h) => from(m) = {}
  BY <1>0, <1>1
<1>7. \A m \in Table(h) : \E i \in 1..n : m = mount[ms[i]].copy
  BY <1>0, <1>1
<1>8. \A m \in Table(h) : \E i \in 1..n : m = mount[ms[i]].copy /\ from(m) # {} /\ id(m) = mountid + i - 1
  BY <1>4, <1>5, <1>7
<1> HIDE DEF from, id
<1>9. \A m \in Table(h) : from(m) # {} /\ id(m) \in Nat /\ id(m) <= mountid + n
  BY <1>1, <1>8
<1>10. ASSUME NEW m \in Mount
       PROVE  /\ nu[m] \in [mountid : Nat, next : Mount \cup {Nil}, to : Chan \cup {Nil},
                            copy : Mount \cup {Nil}, live : BOOLEAN]
              /\ nu[m].next = mount[m].next /\ nu[m].to = mount[m].to
              /\ nu[m].copy = mount[m].copy /\ nu[m].live = mount[m].live
              /\ nu[m].mountid = IF m \in Table(h) THEN id(m) ELSE mount[m].mountid
  <2>s. SUFFICES ASSUME NEW r, r = mount[m], NEW t, t = nu[m], NEW x, x = id(m)
        PROVE  /\ t \in [mountid : Nat, next : Mount \cup {Nil}, to : Chan \cup {Nil},
                         copy : Mount \cup {Nil}, live : BOOLEAN]
               /\ t.next = r.next /\ t.to = r.to /\ t.copy = r.copy /\ t.live = r.live
               /\ t.mountid = IF m \in Table(h) THEN x ELSE r.mountid
    OBVIOUS
  <2>1. r \in [mountid : Nat, next : Mount \cup {Nil}, to : Chan \cup {Nil},
               copy : Mount \cup {Nil}, live : BOOLEAN]
    BY <2>s DEF TypeOK
  <2>2. t = IF m \in Table(h) THEN [r EXCEPT !.mountid = x] ELSE r
    BY <1>3, <1>6, <1>9, <2>s
  <2>3. m \in Table(h) => x \in Nat
    BY <1>9, <2>s
  <2> QED
    BY <2>1, <2>2, <2>3
<1>11. nu \in MountsType
  <2>1. nu = [m \in Mount |-> nu[m]]
    BY <1>3
  <2> QED
    BY <1>10, <2>1 DEF MountsType
<1>12. \A i \in 1..n : nu[mount[ms[i]].copy].mountid = mountid + i - 1
  <2>1. \A i \in 1..n : mount[ms[i]].copy \in Table(h)
    BY <1>0, <1>1
  <2> QED
    BY <1>2, <1>5, <1>10, <2>1
<1>13. \A m, l \in Table(h) : m # l => nu[m].mountid # nu[l].mountid
  <2>1. ASSUME NEW m \in Table(h), NEW l \in Table(h), m # l
        PROVE  nu[m].mountid # nu[l].mountid
    <3>1. PICK i \in 1..n : m = mount[ms[i]].copy
      BY <1>7
    <3>2. PICK j \in 1..n : l = mount[ms[j]].copy
      BY <1>7
    <3>3. nu[m].mountid = mountid + i - 1 /\ nu[l].mountid = mountid + j - 1 /\ i # j
      BY <1>12, <2>1, <3>1, <3>2
    <3> QED
      BY <1>1, <3>3
  <2> QED
    BY <2>1
<1>14. \A m \in Table(h) : nu[m].mountid <= mountid + n
  BY <1>2, <1>9, <1>10
<1> QED
  BY <1>10, <1>11, <1>12, <1>13, <1>14 DEF Numbered, n

(* p leaves g for h.  If it is the last of g, the mounts and heads go. *)
Leaves(p, g, h, last) ==
  /\ g = grp[p] /\ h = fork[p].to /\ g \in Group /\ h \in Group /\ g # h /\ Users(h) = {}
  /\ at[p] = "copied" /\ at'[p] = "idle" /\ OthersKeep(p) /\ grp'[p] = h
  /\ \A q \in Proc \ {p} : grp'[q] = grp[q] /\ fork'[q] = fork[q]
  /\ last <=> Users(g) = {p}
  /\ mountid <= mountid'
  /\ \A k \in Group, d \in File : head'[k][d] = IF last /\ k = g THEN NoHead ELSE head[k][d]
  /\ \A m \in Mount :
       /\ mount'[m].next = mount[m].next /\ mount'[m].to = mount[m].to /\ mount'[m].copy = mount[m].copy
       /\ mount'[m].live <=> mount[m].live /\ ~(last /\ m \in Table(g))
       /\ m \notin Table(h) /\ ~(last /\ m \in Table(g)) => mount'[m].mountid = mount[m].mountid
  /\ \A m \in Table(h) : mount'[m].mountid <= mountid'
  /\ \A m, l \in Table(h) : m # l => mount'[m].mountid # mount'[l].mountid

LeavesGroups(g, h, last) ==
  /\ group'[h].ref = 1 /\ group'[h].slash \in Chan /\ group'[h].dot \in Chan
  /\ group'[g].ref = group[g].ref - 1
  /\ group'[g].slash = IF last THEN Nil ELSE group[g].slash
  /\ group'[g].dot = IF last THEN Nil ELSE group[g].dot
  /\ \A k \in Group : k # g /\ k # h => group'[k] = group[k]

(* Who is where then. *)
LEMMA LeavesUsers ==
  ASSUME IndInv, NEW p \in Proc, NEW g, NEW h, NEW last, Leaves(p, g, h, last)
  PROVE  /\ Users(h)' = {p} /\ Users(g)' = Users(g) \ {p} /\ p \in Users(g)
         /\ \A k \in Group : k # g /\ k # h => Users(k)' = Users(k)
         /\ ~Grows(g) /\ ~Grows(g)' /\ ~Grows(h)'
         /\ \A k \in Group : k # g /\ k # h => (Grows(k)' <=> Grows(k))
         /\ \A q \in Proc \ {p} : /\ grp[q] # h /\ at'[q] = at[q]
                                  /\ at[q] = "copied" => fork[q].to # g /\ fork[q].to # h /\ grp[q] # g
<1>0. /\ g = grp[p] /\ h = fork[p].to /\ g \in Group /\ h \in Group /\ g # h /\ Users(h) = {}
      /\ at[p] = "copied" /\ at'[p] = "idle" /\ grp'[p] = h
      /\ \A q \in Proc \ {p} : grp'[q] = grp[q] /\ fork'[q] = fork[q] /\ at'[q] = at[q]
  BY DEF Leaves, OthersKeep
<1>1. GroupInv /\ BetweenInv /\ TypeOK
  BY DEF IndInv
<1>2. p \in Users(g) /\ \A q \in Proc : grp[q] # h
  BY <1>0 DEF Users
<1>3. Users(h)' = {p} /\ Users(g)' = Users(g) \ {p}
      /\ \A k \in Group : k # g /\ k # h => Users(k)' = Users(k)
  BY <1>0, <1>2 DEF Users
<1>4. \A q \in Proc \ {p} : at[q] = "copied" => fork[q].to # g /\ fork[q].to # h /\ grp[q] # g
  <2>1. ASSUME NEW q \in Proc \ {p}, at[q] = "copied"
        PROVE  fork[q].to # g /\ fork[q].to # h /\ grp[q] # g
    <3>1. Users(fork[q].to) = {}
      BY <1>1, <2>1 DEF GroupInv
    <3>2. fork[q].to # h
      BY <1>0, <1>1, <2>1 DEF GroupInv
    <3>3. grp[q] # g
      BY <1>0, <1>1, <2>1 DEF BetweenInv, Between
    <3> QED
      BY <1>2, <3>1, <3>2, <3>3
  <2> QED
    BY <2>1
<1>5. ~Grows(g)
  BY <1>0, <1>4 DEF Grows
<1>6. ~Grows(g)' /\ ~Grows(h)'
  BY <1>0, <1>4 DEF Grows
<1>7. \A k \in Group : k # g /\ k # h => (Grows(k)' <=> Grows(k))
  BY <1>0 DEF Grows
<1> QED
  BY <1>0, <1>2, <1>3, <1>4, <1>5, <1>6, <1>7

LEMMA LeavesKeepsGroups ==
  ASSUME IndInv, TypeOK', NEW p \in Proc, NEW g, NEW h, NEW last, Leaves(p, g, h, last),
         LeavesGroups(g, h, last)
  PROVE  GroupInv' /\ BetweenInv'
<1>0. /\ g = grp[p] /\ h = fork[p].to /\ g \in Group /\ h \in Group /\ g # h /\ Users(h) = {}
      /\ at[p] = "copied" /\ at'[p] = "idle" /\ grp'[p] = h
      /\ \A q \in Proc \ {p} : grp'[q] = grp[q] /\ fork'[q] = fork[q] /\ at'[q] = at[q] /\ w'[q] = w[q]
      /\ last <=> Users(g) = {p}
      /\ \A k \in Group, d \in File : head'[k][d] = IF last /\ k = g THEN NoHead ELSE head[k][d]
  BY DEF Leaves, OthersKeep
<1>g. /\ group'[h].ref = 1 /\ group'[h].slash \in Chan /\ group'[h].dot \in Chan
      /\ group'[g].ref = group[g].ref - 1
      /\ group'[g].slash = IF last THEN Nil ELSE group[g].slash
      /\ group'[g].dot = IF last THEN Nil ELSE group[g].dot
      /\ \A k \in Group : k # g /\ k # h => group'[k] = group[k]
  BY DEF LeavesGroups
<1>1. TypeOK /\ GroupInv /\ BetweenInv
  BY DEF IndInv
<1>2. /\ Users(h)' = {p} /\ Users(g)' = Users(g) \ {p} /\ p \in Users(g)
      /\ \A k \in Group : k # g /\ k # h => Users(k)' = Users(k)
      /\ ~Grows(g) /\ ~Grows(g)' /\ ~Grows(h)'
      /\ \A k \in Group : k # g /\ k # h => (Grows(k)' <=> Grows(k))
      /\ \A q \in Proc \ {p} : /\ grp[q] # h /\ at'[q] = at[q]
                               /\ at[q] = "copied" => fork[q].to # g /\ fork[q].to # h /\ grp[q] # g
  BY LeavesUsers
<1>3. Cardinality({p}) = 1
  BY FS_Singleton
<1>4. group[g].ref - 1 = Cardinality(Users(g) \ {p})
  <2>1. group[g].ref = Cardinality(Users(g))
    <3>1. group[g].ref = Cardinality(Users(g)) + IF Grows(g) THEN 1 ELSE 0
      BY <1>0, <1>1 DEF GroupInv
    <3>2. IsFiniteSet(Users(g))
      <4>1. Users(g) \subseteq Proc
        BY DEF Users
      <4> QED
        BY <4>1, NameSpaceAssumption, FS_Subset
    <3>3. Cardinality(Users(g)) \in Nat
      BY <3>2, FS_CardinalityType
    <3> QED
      BY <1>2, <3>1, <3>3
  <2>2. IsFiniteSet(Users(g))
    <3>1. Users(g) \subseteq Proc
      BY DEF Users
    <3> QED
      BY <3>1, NameSpaceAssumption, FS_Subset
  <2> DEFINE S == Users(g)
  <2>3. IsFiniteSet(S) /\ p \in S /\ group[g].ref = Cardinality(S)
    BY <1>2, <2>1, <2>2
  <2> HIDE DEF S
  <2>4. Cardinality(S \ {p}) = Cardinality(S) - 1
    BY <2>3, FS_RemoveElement
  <2> QED
    BY <2>3, <2>4 DEF S
<1>5. GroupInv'
  <2>1. ASSUME NEW k \in Group
        PROVE  /\ group'[k].ref = Cardinality(Users(k)') + IF Grows(k)' THEN 1 ELSE 0
               /\ Users(k)' # {} => group'[k].slash \in Chan /\ group'[k].dot \in Chan
               /\ Users(k)' = {} => group'[k].slash = Nil /\ group'[k].dot = Nil
               /\ Users(k)' = {} /\ ~Grows(k)' => \A d \in File : head'[k][d] = NoHead
    <3>1. CASE k = h
      <4>1. Users(k)' = {p} /\ ~Grows(k)' /\ Cardinality(Users(k)') = 1 /\ Users(k)' # {}
        BY <1>2, <1>3, <3>1
      <4>2. group'[k].ref = 1 /\ group'[k].slash \in Chan /\ group'[k].dot \in Chan
        BY <1>g, <3>1
      <4> QED
        BY <4>1, <4>2
    <3>2. CASE k = g
      <4>1. /\ Users(g) # {} => group[g].slash \in Chan /\ group[g].dot \in Chan
        BY <1>0, <1>1 DEF GroupInv
      <4>2. Users(g)' = {} <=> last
        BY <1>0, <1>2
      <4>3. Cardinality(Users(g)') = group'[g].ref
        BY <1>2, <1>4, <1>g
      <4>4. group'[g].ref \in Nat
        BY <1>0 DEF TypeOK
      <4>5. \A d \in File : last => head'[g][d] = NoHead
        BY <1>0
      <4> QED
        BY <1>2, <1>g, <3>2, <4>1, <4>2, <4>3, <4>4, <4>5
    <3>3. CASE k # g /\ k # h
      <4>1. /\ group[k].ref = Cardinality(Users(k)) + IF Grows(k) THEN 1 ELSE 0
            /\ Users(k) # {} => group[k].slash \in Chan /\ group[k].dot \in Chan
            /\ Users(k) = {} => group[k].slash = Nil /\ group[k].dot = Nil
            /\ Users(k) = {} /\ ~Grows(k) => \A d \in File : head[k][d] = NoHead
        BY <1>1 DEF GroupInv
      <4> QED
        BY <1>0, <1>2, <1>g, <3>3, <4>1
    <3> QED
      BY <3>1, <3>2, <3>3
  <2>2. ASSUME NEW q \in Proc, at'[q] = "copied"
        PROVE  /\ \A k \in Group : k = fork'[q].to => Users(k)' = {}
               /\ \A r \in Proc \ {q} : at'[r] = "copied" => fork'[r].to # fork'[q].to
    <3>1. q # p
      BY <1>0, <2>2
    <3>2. /\ Users(fork[q].to) = {}
          /\ \A r \in Proc \ {q} : at[r] = "copied" => fork[r].to # fork[q].to
      BY <1>0, <1>1, <2>2, <3>1 DEF GroupInv
    <3>3. fork[q].to # g /\ fork[q].to # h
      BY <1>2, <2>2, <3>1
    <3> QED
      BY <1>0, <1>2, <3>1, <3>2, <3>3
  <2>3. \A q \in Proc : fork'[q].to \in Group
    BY DEF TypeOK
  <2>4. ASSUME NEW q \in Proc, at'[q] = "copied"
        PROVE  /\ Users(fork[q].to)' = {}
               /\ \A r \in Proc \ {q} : at'[r] = "copied" => fork'[r].to # fork'[q].to
    BY <2>2, <2>3, <2>4 DEF Users
  <2> QED
    BY <2>1, <2>4 DEF GroupInv
<1>6. BetweenInv'
  <2>1. ASSUME NEW q \in Proc
        PROVE  Between(q)'
    <3>1. CASE q = p
      <4>1. \A r \in Proc \ {p} : grp'[r] # grp'[p]
        BY <1>0, <1>2
      <4> QED
        BY <1>0, <3>1, <4>1 DEF Between
    <3>2. CASE q # p
      <4>1. /\ at[q] \in {"unclone", "unclone2"} => \E d \in File : head[grp[q]][d].from = w[q]
            /\ \A r \in Proc \ {q} : grp[r] = grp[q] =>
                 /\ at[q] = "setdot" => at[r] # "setdot"
                 /\ at[q] = "copied" => at[r] # "copied"
        BY <1>1 DEF BetweenInv, Between
      <4>2. grp[q] \in Group /\ (grp[q] = g => ~last)
        BY <1>0, <1>1, <3>2 DEF Users, TypeOK
      <4>3. \A d \in File : head'[grp[q]][d] = head[grp[q]][d]
        BY <1>0, <4>2
      <4>4. \A r \in Proc \ {q} : grp'[r] = grp'[q] => r # p /\ grp[r] = grp[q]
        BY <1>0, <1>2, <3>2
      <4> QED
        BY <1>0, <3>2, <4>1, <4>3, <4>4 DEF Between
    <3> QED
      BY <3>1, <3>2
  <2> QED
    BY <2>1 DEF BetweenInv
<1> QED
  BY <1>5, <1>6

LEMMA LeavesLists ==
  ASSUME TypeOK, TypeOK', ListInv, NEW p \in Proc, NEW g, NEW h, NEW last, Leaves(p, g, h, last)
  PROVE  /\ ListInv'
         /\ \A k \in Group, d \in File : ~(last /\ k = g) => List(k, d)' = List(k, d)
         /\ \A k \in Group : ~(last /\ k = g) => Table(k)' = Table(k)
         /\ last => Table(g)' = {}
         /\ \A k, i \in Group : k # i => Table(k) \cap Table(i) = {}
         /\ \A k \in Group : \A m \in Table(k) : m \in Mount /\ mount[m].live
<1>0. /\ g \in Group /\ h \in Group /\ g # h
      /\ \A k \in Group, d \in File : head'[k][d] = IF last /\ k = g THEN NoHead ELSE head[k][d]
      /\ \A m \in Mount :
           /\ mount'[m].next = mount[m].next /\ mount'[m].to = mount[m].to /\ mount'[m].copy = mount[m].copy
           /\ mount'[m].live <=> mount[m].live /\ ~(last /\ m \in Table(g))
  BY DEF Leaves
<1>1. \A x \in Mount : mount'[x].next \in Mount \cup {Nil}
  BY DEF TypeOK
<1>2. \A k, i \in Group : k # i => Table(k) \cap Table(i) = {}
  <2>1. ASSUME NEW k \in Group, NEW i \in Group, k # i
        PROVE  Table(k) \cap Table(i) = {}
    BY <2>1 DEF Table, ListInv
  <2> QED
    BY <2>1
<1>3. \A k \in Group, d \in File : \A m \in MountsOn(k, d) : m \in Mount /\ mount[m].live /\ m \in Table(k)
  BY TableLive
<1>4. \A k \in Group : \A m \in Table(k) : m \in Mount /\ mount[m].live
  BY <1>3 DEF Table
<1>5. ASSUME NEW k \in Group, NEW e \in File, ~(last /\ k = g)
      PROVE  /\ List(k, e)' = List(k, e) /\ MountsOn(k, e)' = MountsOn(k, e)
             /\ IsList(mount', List(k, e)', head'[k][e].mount)
             /\ head'[k][e].from = Nil <=> head'[k][e].mount = Nil
             /\ \A m \in MountsOn(k, e)' : mount'[m].live
  <2> DEFINE s == List(k, e)
             m == head[k][e].mount
             mt == mount
             mu == mount'
  <2>1. head'[k][e] = head[k][e]
    BY <1>0, <1>5
  <2>2. IsList(mt, s, m) /\ (head[k][e].from = Nil <=> m = Nil)
    BY DEF ListInv
  <2>3. \A x \in ToSet(s) : x \in Mount /\ mount[x].live /\ x \in Table(k)
    BY <1>3 DEF MountsOn
  <2>4. \A x \in ToSet(s) : mu[x].next = mt[x].next
    BY <1>0, <2>3
  <2>5. \A x \in ToSet(s) : mu[x].live
    <3>1. ASSUME NEW x \in ToSet(s)
          PROVE  ~(last /\ x \in Table(g))
      BY <1>0, <1>2, <1>5, <2>3
    <3> QED
      BY <1>0, <2>3, <3>1
  <2>6. List(k, e)' = ListIn(mu, m)
    BY <2>1 DEF List, ListFrom
  <2> HIDE DEF s, m, mt, mu
  <2>7. IsList(mu, s, m) /\ ListIn(mu, m) = s
    <3>1. \A x \in Mount : mu[x].next \in Mount \cup {Nil}
      BY <1>1 DEF mu
    <3> QED
      BY <2>2, <2>4, <3>1, SameList
  <2>8. List(k, e)' = List(k, e)
    BY <2>6, <2>7 DEF s
  <2>9. MountsOn(k, e)' = MountsOn(k, e)
    BY <2>8 DEF MountsOn
  <2>10. MountsOn(k, e) = ToSet(s)
    BY DEF MountsOn, s
  <2> QED
    BY <2>1, <2>2, <2>5, <2>7, <2>8, <2>9, <2>10 DEF s, m, mu
<1>6. ASSUME NEW e \in File, last
      PROVE  /\ MountsOn(g, e)' = {}
             /\ IsList(mount', List(g, e)', head'[g][e].mount)
             /\ head'[g][e].from = Nil /\ head'[g][e].mount = Nil
  <2> DEFINE mu == mount'
  <2>1. head'[g][e].from = Nil /\ head'[g][e].mount = Nil
    BY <1>0, <1>6 DEF NoHead
  <2>2. List(g, e)' = ListIn(mu, Nil)
    BY <2>1 DEF List, ListFrom
  <2>3. ListIn(mu, Nil) = <<>>
    BY NoList
  <2>4. IsList(mu, <<>>, Nil)
    <3>1. <<>> \in Seq(Mount) /\ Len(<<>>) = 0
      OBVIOUS
    <3>2. IsInjective(<<>>)
      BY DEF IsInjective
    <3> HIDE DEF mu
    <3> QED
      BY <3>1, <3>2 DEF IsList
  <2>5. ToSet(<<>>) = {}
    BY DEF ToSet
  <2>6. List(g, e)' = <<>>
    BY <2>2, <2>3
  <2>7. MountsOn(g, e)' = {}
    BY <2>5, <2>6 DEF MountsOn
  <2> QED
    BY <2>1, <2>4, <2>6, <2>7
<1>7. \A k \in Group : ~(last /\ k = g) => Table(k)' = Table(k)
  BY <1>5 DEF Table
<1>8. last => Table(g)' = {}
  BY <1>6 DEF Table
<1>9. \A k, i \in Group, e, f \in File : k # i \/ e # f => MountsOn(k, e)' \cap MountsOn(i, f)' = {}
  <2>1. ASSUME NEW k \in Group, NEW i \in Group, NEW e \in File, NEW f \in File, k # i \/ e # f
        PROVE  MountsOn(k, e)' \cap MountsOn(i, f)' = {}
    <3>1. CASE last /\ (k = g \/ i = g)
      BY <1>6, <3>1
    <3>2. CASE ~(last /\ (k = g \/ i = g))
      BY <1>5, <2>1, <3>2 DEF ListInv
    <3> QED
      BY <3>1, <3>2
  <2> QED
    BY <2>1
<1>10. \A m \in Mount : mount'[m].live => To(m)' \in Chan
  BY <1>0 DEF ListInv, To
<1>11. ASSUME NEW k \in Group, NEW e \in File
       PROVE  /\ IsList(mount', List(k, e)', head'[k][e].mount)
              /\ head'[k][e].from = Nil <=> head'[k][e].mount = Nil
              /\ \A m \in MountsOn(k, e)' : mount'[m].live
  <2>1. CASE last /\ k = g
    BY <1>6, <2>1
  <2>2. CASE ~(last /\ k = g)
    BY <1>5, <2>2
  <2> QED
    BY <2>1, <2>2
<1>12. ListInv'
  BY <1>9, <1>10, <1>11 DEF ListInv
<1>13. \A k \in Group, d \in File : ~(last /\ k = g) => List(k, d)' = List(k, d)
  BY <1>5
<1> QED
  BY <1>2, <1>4, <1>7, <1>8, <1>12, <1>13

LEMMA LeavesMounts ==
  ASSUME IndInv, TypeOK', NEW p \in Proc, NEW g, NEW h, NEW last, Leaves(p, g, h, last)
  PROVE  /\ ListInv' /\ IdInv' /\ CopyInv'
         /\ \A k \in Group : Users(k) # {} /\ ~(last /\ k = g) =>
              Users(k)' # {} /\ \A m \in Table(k) : KeepsMount(k, m)
<1>0. /\ g = grp[p] /\ h = fork[p].to /\ g \in Group /\ h \in Group /\ g # h /\ Users(h) = {}
      /\ at[p] = "copied" /\ at'[p] = "idle" /\ grp'[p] = h
      /\ \A q \in Proc \ {p} : grp'[q] = grp[q] /\ fork'[q] = fork[q] /\ at'[q] = at[q]
      /\ last <=> Users(g) = {p}
      /\ mountid <= mountid'
      /\ \A m \in Mount :
           /\ mount'[m].to = mount[m].to /\ mount'[m].copy = mount[m].copy
           /\ m \notin Table(h) /\ ~(last /\ m \in Table(g)) => mount'[m].mountid = mount[m].mountid
      /\ \A m \in Table(h) : mount'[m].mountid <= mountid'
      /\ \A m, l \in Table(h) : m # l => mount'[m].mountid # mount'[l].mountid
  BY DEF Leaves, OthersKeep
<1>1. TypeOK /\ ListInv /\ IdInv /\ CopyInv
  BY DEF IndInv
<1>2. /\ Users(h)' = {p} /\ Users(g)' = Users(g) \ {p} /\ p \in Users(g)
      /\ \A k \in Group : k # g /\ k # h => Users(k)' = Users(k)
      /\ \A q \in Proc \ {p} : /\ grp[q] # h
                               /\ at[q] = "copied" => fork[q].to # g /\ fork[q].to # h /\ grp[q] # g
  BY LeavesUsers
<1>3. /\ ListInv'
      /\ \A k \in Group, d \in File : ~(last /\ k = g) => List(k, d)' = List(k, d)
      /\ \A k \in Group : ~(last /\ k = g) => Table(k)' = Table(k)
      /\ last => Table(g)' = {}
      /\ \A k, i \in Group : k # i => Table(k) \cap Table(i) = {}
      /\ \A k \in Group : \A m \in Table(k) : m \in Mount /\ mount[m].live
  BY <1>1, LeavesLists
<1>4. ASSUME NEW k \in Group, k # h, ~(last /\ k = g), NEW m \in Table(k)
      PROVE  mount'[m].mountid = mount[m].mountid /\ mount'[m].copy = mount[m].copy /\ mount'[m].to = mount[m].to
  <2>1. m \in Mount /\ m \notin Table(h) /\ ~(last /\ m \in Table(g))
    BY <1>0, <1>3, <1>4
  <2> QED
    BY <1>0, <2>1
<1>5. ASSUME NEW k \in Group, Users(k) # {}, ~(last /\ k = g)
      PROVE  Users(k)' # {} /\ \A m \in Table(k) : KeepsMount(k, m)
  <2>1. k # h
    BY <1>0, <1>5
  <2>2. Users(k)' # {}
    BY <1>0, <1>2, <1>5, <2>1
  <2>3. Table(k)' = Table(k)
    BY <1>3, <1>5
  <2>4. \A m \in Table(k) : mount'[m].mountid = mount[m].mountid /\ mount'[m].to = mount[m].to
    BY <1>4, <1>5, <2>1
  <2> QED
    BY <2>2, <2>3, <2>4 DEF KeepsMount, To
<1>6. IdInv'
  <2>1. ASSUME NEW k \in Group, Users(k)' # {}, NEW m \in Table(k)', NEW l \in Table(k)'
        PROVE  mount'[m].mountid <= mountid' /\ (m # l => mount'[m].mountid # mount'[l].mountid)
    <3>1. ~(last /\ k = g)
      BY <1>3, <2>1
    <3>2. m \in Table(k) /\ l \in Table(k)
      BY <1>3, <2>1, <3>1
    <3>3. CASE k = h
      BY <1>0, <3>2, <3>3
    <3>4. CASE k # h
      <4>1. Users(k) # {}
        BY <1>2, <2>1, <3>4
      <4>2. mount[m].mountid <= mountid /\ (m # l => mount[m].mountid # mount[l].mountid)
        BY <1>1, <3>2, <4>1 DEF IdInv
      <4>3. mount'[m].mountid = mount[m].mountid /\ mount'[l].mountid = mount[l].mountid
        BY <1>4, <3>1, <3>2, <3>4
      <4>4. mount[m].mountid \in Nat /\ mountid \in Nat /\ mountid' \in Nat
        BY <1>1, <1>3, <3>2 DEF TypeOK
      <4> QED
        BY <1>0, <4>2, <4>3, <4>4
    <3> QED
      BY <3>3, <3>4
  <2> QED
    BY <2>1 DEF IdInv
<1>7. ASSUME NEW q \in Proc, at'[q] = "copied"
      PROVE  Copying(q)'
  <2>s. SUFFICES ASSUME NEW k, k = grp[q], NEW t, t = fork[q].to, NEW o, o = fork[q].order
        PROVE  Copying(q)'
    OBVIOUS
  <2>1. q # p /\ at[q] = "copied" /\ grp'[q] = k /\ fork'[q].to = t /\ fork'[q].order = o
    BY <1>0, <1>7, <2>s
  <2>2. k # g /\ k # h /\ t # g /\ k \in Group /\ t \in Group /\ o \in Seq(Mount)
    BY <1>0, <1>1, <1>2, <2>s, <2>1 DEF TypeOK
  <2>3. /\ \A d \in File : /\ Len(List(t, d)) = Len(List(k, d))
                           /\ \A i \in 1..Len(List(k, d)) : List(t, d)[i] = mount[List(k, d)[i]].copy
        /\ ToSet(o) = Table(k)
        /\ \A i, j \in 1..Len(o) : i < j => mount[o[i]].mountid < mount[o[j]].mountid
    BY <1>1, <2>s, <2>1 DEF CopyInv, Copying
  <2>4. \A m \in Table(k) : mount'[m].copy = mount[m].copy /\ mount'[m].mountid = mount[m].mountid
    BY <1>4, <2>2
  <2>5. \A i \in 1..Len(o) : mount'[o[i]].mountid = mount[o[i]].mountid
    BY <2>2, <2>3, <2>4, SeqIs
  <2>6. \A d \in File : \A i \in 1..Len(List(k, d)) : List(k, d)[i] \in Table(k)
    <3>1. ASSUME NEW d \in File, NEW i \in 1..Len(List(k, d))
          PROVE  List(k, d)[i] \in Table(k)
      <4>1. List(k, d) \in Seq(Mount)
        BY <1>1, <2>2, TableLive
      <4>2. List(k, d)[i] \in ToSet(List(k, d))
        BY <4>1, SeqIs
      <4> QED
        BY <4>2 DEF Table, MountsOn
    <3> QED
      BY <3>1
  <2>7. \A d \in File : /\ List(t, d)' = List(t, d) /\ List(k, d)' = List(k, d)
                        /\ \A i \in 1..Len(List(k, d)) : mount'[List(k, d)[i]].copy = mount[List(k, d)[i]].copy
    BY <1>3, <2>2, <2>4, <2>6
  <2>8. Table(k)' = Table(k)
    BY <1>3, <2>2
  <2>9. /\ \A d \in File : /\ Len(List(t, d)') = Len(List(k, d)')
                           /\ \A i \in 1..Len(List(k, d)') : List(t, d)'[i] = mount'[List(k, d)'[i]].copy
        /\ ToSet(o) = Table(k)'
        /\ \A i, j \in 1..Len(o) : i < j => mount'[o[i]].mountid < mount'[o[j]].mountid
    BY <2>3, <2>5, <2>7, <2>8
  <2> QED
    BY <2>1, <2>9 DEF Copying
<1>8. CopyInv'
  <2>1. \A q \in Proc : at'[q] # "copied" => Copying(q)'
    BY DEF Copying
  <2> QED
    BY <1>7, <2>1 DEF CopyInv
<1> QED
  BY <1>3, <1>5, <1>6, <1>8

(* Two clones, one after the other. *)
Cloned2(x, v, y, u, two) == y = ch.free[1] /\ u = ch.free[2] /\ two = Clone(Clone(ch, x), v)

LEMMA CloneTwice ==
  ASSUME IndInv, Enough(2), NEW x \in Chan, ch.of[x].ref > 0, NEW v \in Chan, ch.of[v].ref > 0,
         NEW y, NEW u, NEW two, Cloned2(x, v, y, u, two)
  PROVE  /\ y \in Chan /\ u \in Chan /\ y # u /\ ch.of[y].ref = 0 /\ ch.of[u].ref = 0
         /\ two \in ChansType /\ FreeOK(two) /\ ~two.panic
         /\ \A z \in Chan :
              /\ two.of[z].ref = ch.of[z].ref + (IF z = y THEN 1 ELSE 0) + (IF z = u THEN 1 ELSE 0)
              /\ two.of[z].ref > 0 => two.of[z].file \in File
              /\ ch.of[z].ref > 0 => two.of[z] = ch.of[z]
<1>s. SUFFICES ASSUME NEW s, s = ch, NEW t, t = Clone(s, x)
      PROVE  /\ y \in Chan /\ u \in Chan /\ y # u /\ s.of[y].ref = 0 /\ s.of[u].ref = 0
             /\ two \in ChansType /\ FreeOK(two) /\ ~two.panic
             /\ \A z \in Chan :
                  /\ two.of[z].ref = s.of[z].ref + (IF z = y THEN 1 ELSE 0) + (IF z = u THEN 1 ELSE 0)
                  /\ two.of[z].ref > 0 => two.of[z].file \in File
                  /\ s.of[z].ref > 0 => two.of[z] = s.of[z]
  OBVIOUS
<1>1. /\ s \in ChansType /\ FreeOK(s) /\ ~s.panic /\ Len(s.free) >= 2
      /\ \A z \in Chan : s.of[z].ref > 0 => s.of[z].file \in File
      /\ s.of[x].ref > 0 /\ s.of[v].ref > 0
  BY <1>s, Channels DEF IndInv, ChanInv, Enough
<1>2. s.free \in Seq(Chan) /\ Len(s.free) \in Nat /\ \A z \in Chan : s.of[z] \in ChanType
  BY <1>1 DEF ChansType
<1>3. y = NewChan(s) /\ Len(s.free) >= 1
  BY <1>s, <1>1, <1>2 DEF Cloned2, NewChan
<1>4. /\ y \in Chan /\ y # x /\ s.of[y].ref = 0
      /\ t \in ChansType /\ FreeOK(t) /\ t.panic = s.panic
      /\ t.free = Tail(s.free) /\ Len(t.free) = Len(s.free) - 1
      /\ t.of[y] = [s.of[x] EXCEPT !.ref = 1]
      /\ \A z \in Chan : z # y => t.of[z] = s.of[z]
  BY <1>s, <1>1, <1>3, CloneEffect
<1>5. u = NewChan(t) /\ Len(t.free) >= 1
  <2>1. u = s.free[2]
    BY <1>s DEF Cloned2
  <2>2. Tail(s.free)[1] = s.free[2] /\ Len(Tail(s.free)) >= 1
    BY <1>1, <1>2
  <2> QED
    BY <1>1, <1>2, <1>4, <2>1, <2>2 DEF NewChan
<1>6. v # y /\ t.of[v].ref > 0
  BY <1>1, <1>4
<1>7. two = Clone(t, v)
  BY <1>s DEF Cloned2
<1>8. /\ u \in Chan /\ u # v /\ t.of[u].ref = 0
      /\ two \in ChansType /\ FreeOK(two) /\ two.panic = t.panic
      /\ two.of[u] = [t.of[v] EXCEPT !.ref = 1]
      /\ \A z \in Chan : z # u => two.of[z] = t.of[z]
  <2>1. t \in ChansType /\ FreeOK(t) /\ Len(t.free) >= 1 /\ t.of[v].ref > 0 /\ u = NewChan(t) /\ two = Clone(t, v)
    BY <1>4, <1>5, <1>6, <1>7
  <2>2. \A a, b, d : a \in ChansType /\ FreeOK(a) /\ Len(a.free) >= 1 /\ a.of[v].ref > 0 /\ b = NewChan(a) /\ d = Clone(a, v) =>
          /\ b \in Chan /\ b # v /\ a.of[b].ref = 0
          /\ d \in ChansType /\ FreeOK(d) /\ d.panic = a.panic
          /\ d.of[b] = [a.of[v] EXCEPT !.ref = 1]
          /\ \A z \in Chan : z # b => d.of[z] = a.of[z]
    BY CloneEffect
  <2> QED
    BY <2>1, <2>2
<1>9. t.of[y].ref = 1 /\ t.of[y].file = s.of[x].file
  <2>1. s.of[x] \in ChanType
    BY <1>2
  <2> QED
    BY <1>4, <2>1 DEF ChanType
<1>10. u # y
  BY <1>8, <1>9
<1>11. two.of[u].ref = 1 /\ two.of[u].file = s.of[v].file
  <2>1. t.of[v] = s.of[v]
    BY <1>4, <1>6
  <2>2. s.of[v] \in ChanType
    BY <1>2
  <2> QED
    BY <1>8, <2>1, <2>2 DEF ChanType
<1>12. s.of[u].ref = 0
  BY <1>4, <1>8, <1>10
<1>13. ASSUME NEW z \in Chan
       PROVE  /\ two.of[z].ref = s.of[z].ref + (IF z = y THEN 1 ELSE 0) + (IF z = u THEN 1 ELSE 0)
              /\ two.of[z].ref > 0 => two.of[z].file \in File
              /\ s.of[z].ref > 0 => two.of[z] = s.of[z]
  <2>1. s.of[z].ref \in Nat
    BY <1>2 DEF ChanType
  <2>2. CASE z = y
    <3>1. two.of[z].ref = 1 /\ two.of[z].file = s.of[x].file
      BY <1>4, <1>8, <1>9, <1>10, <2>2
    <3>2. s.of[z].ref = 0 /\ z # u /\ s.of[x].file \in File
      BY <1>1, <1>4, <1>10, <2>2
    <3> QED
      BY <2>2, <3>1, <3>2
  <2>3. CASE z = u
    BY <1>1, <1>10, <1>11, <1>12, <2>3
  <2>4. CASE z # y /\ z # u
    <3>1. two.of[z] = s.of[z]
      BY <1>4, <1>8, <2>4
    <3> QED
      BY <1>1, <2>1, <2>4, <3>1
  <2> QED
    BY <2>2, <2>3, <2>4
<1> QED
  BY <1>1, <1>4, <1>8, <1>10, <1>12, <1>13

(* What the heads of g and their mounts hold. *)
HeldBy(g, d) == IF head[g][d].from = Nil THEN <<>> ELSE <<head[g][d].from>> \o ToOf(List(g, d))
MountsIn(g, z) == {m \in Table(g) : To(m) = z}
MountsAt(g, d, z) == {m \in MountsOn(g, d) : To(m) = z}

LEMMA HeldByIs ==
  ASSUME TypeOK, ListInv, NEW g \in Group, NEW d \in File, NEW z \in Chan
  PROVE  /\ HeldBy(g, d) \in Seq(Chan)
         /\ IsFiniteSet(MountsAt(g, d, z))
         /\ Count(HeldBy(g, d), z) = (IF head[g][d].from = z THEN 1 ELSE 0) + Cardinality(MountsAt(g, d, z))
         /\ Cardinality(MountsAt(g, d, z)) \in Nat
<1> DEFINE l == List(g, d)
           S == MountsAt(g, d, z)
           x == head[g][d].from
<1>1. /\ l \in Seq(Mount) /\ IsInjective(l) /\ \A m \in ToSet(l) : mount[m].live /\ m \in Mount
      /\ head[g][d].mount = Nil => l = <<>>
  <2>1. \A m \in MountsOn(g, d) : m \in Mount /\ mount[m].live
    BY TableLive
  <2>2. l \in Seq(Mount) /\ IsInjective(l)
    BY TableLive
  <2>3. head[g][d].mount = Nil => l = <<>>
    <3>1. head[g][d].mount = IF l = <<>> THEN Nil ELSE l[1]
      BY DEF ListInv, IsList
    <3>2. l # <<>> => l[1] \in Mount
      BY <2>2, SeqIs
    <3>3. Nil \notin Mount
      BY NameSpaceAssumption DEF Nil, Mount
    <3> QED
      BY <3>1, <3>2, <3>3
  <2> QED
    BY <2>1, <2>2, <2>3 DEF MountsOn
<1>2. /\ IsFiniteSet({m \in ToSet(l) : To(m) = z})
      /\ Count(ToOf(l), z) = Cardinality({m \in ToSet(l) : To(m) = z})
      /\ (\A m \in ToSet(l) : To(m) \in Chan) => ToOf(l) \in Seq(Chan)
  <2> HIDE DEF l
  <2> QED
    BY <1>1, ToCount
<1>3. S = {m \in ToSet(l) : To(m) = z}
  BY DEF MountsAt, MountsOn
<1>4. \A m \in ToSet(l) : To(m) \in Chan
  BY <1>1 DEF ListInv
<1>5. x \in Chan \cup {Nil} /\ (x = Nil <=> head[g][d].mount = Nil)
  BY DEF TypeOK, ListInv
<1>6. z # Nil
  BY NameSpaceAssumption DEF Chan, Nil
<1>7. HeldBy(g, d) = IF x = Nil THEN <<>> ELSE <<x>> \o ToOf(l)
  BY DEF HeldBy
<1>8. IsFiniteSet(S) /\ Count(ToOf(l), z) = Cardinality(S) /\ ToOf(l) \in Seq(Chan)
  BY <1>2, <1>3, <1>4
<1> HIDE DEF x, S
<1>9. Cardinality(S) \in Nat
  BY <1>8, FS_CardinalityType
<1>10. CASE x = Nil
  <2>1. HeldBy(g, d) = <<>> /\ l = <<>>
    BY <1>1, <1>5, <1>7, <1>10
  <2>2. ToOf(<<>>) = <<>>
    BY DEF ToOf
  <2>3. Count(<<>>, z) = 0
    BY CountOne
  <2>4. Cardinality(S) = 0
    BY <1>8, <2>1, <2>2, <2>3
  <2> QED
    BY <1>6, <1>8, <1>9, <1>10, <2>1, <2>3, <2>4 DEF x, S
<1>11. CASE x # Nil
  <2> DEFINE a == <<x>>
             b == ToOf(l)
  <2>1. a \in Seq(Chan) /\ b \in Seq(Chan) /\ HeldBy(g, d) = a \o b
    BY <1>5, <1>7, <1>8, <1>11
  <2>2. Count(a, z) = IF z = x THEN 1 ELSE 0
    BY CountOne
  <2> HIDE DEF a, b
  <2>3. a \o b \in Seq(Chan) /\ Count(a \o b, z) = Count(a, z) + Count(b, z)
    BY <2>1, CountConcat
  <2> QED
    BY <1>8, <1>9, <2>1, <2>2, <2>3 DEF b, x, S
<1> QED
  BY <1>10, <1>11

(* The first i heads of g, in the order of HeadOrder, that have z, and their mounts. *)
FromTo(g, i, z)   == {d \in File : head[g][d].from = z /\ \E j \in 1..i : HeadOrder[j] = d}
MountsUpTo(g, i, z) == {m \in Mount : To(m) = z /\ \E j \in 1..i : m \in MountsOn(g, HeadOrder[j])}

LEMMA UpToIs ==
  ASSUME TypeOK, ListInv, NEW g \in Group, NEW z \in Chan
  PROVE  LET k == Len(HeadOrder)
             num(i) == Cardinality(FromTo(g, i, z)) + Cardinality(MountsUpTo(g, i, z))
         IN /\ k \in Nat /\ num(0) = 0
            /\ \A i \in 1..k : num(i) = num(i - 1) + Count(HeldBy(g, HeadOrder[i]), z)
            /\ num(k) = Cardinality(From(head, g, z)) + Cardinality(MountsIn(g, z))
<1> DEFINE k == Len(HeadOrder)
           A(i) == FromTo(g, i, z)
           B(i) == MountsUpTo(g, i, z)
<1>1. /\ k \in Nat /\ (\A i \in 1..k : HeadOrder[i] \in File)
      /\ (\A i, j \in 1..k : HeadOrder[i] = HeadOrder[j] => i = j)
      /\ \A d \in File : \E i \in 1..k : HeadOrder[i] = d
  BY HeadOrderIs
<1>2. IsFiniteSet(File) /\ IsFiniteSet(Mount)
  <2>4. IsFiniteSet(File)
    BY HeadOrderIs
  <2>5. NMount \in Nat
    BY NameSpaceAssumption
  <2>6. IsFiniteSet(Mount)
    BY <2>5, FS_Interval DEF Mount
  <2> QED
    BY <2>4, <2>6
<1>3. \A i : IsFiniteSet(A(i)) /\ IsFiniteSet(B(i))
  <2>1. \A i : A(i) \subseteq File /\ B(i) \subseteq Mount
    BY DEF FromTo, MountsUpTo
  <2> HIDE DEF A, B
  <2> QED
    BY <1>2, <2>1, FS_Subset
<1>4. \A i : /\ \A d : d \in A(i) <=> d \in File /\ head[g][d].from = z /\ \E j \in 1..i : HeadOrder[j] = d
             /\ \A m : m \in B(i) <=> m \in Mount /\ To(m) = z /\ \E j \in 1..i : m \in MountsOn(g, HeadOrder[j])
  BY DEF FromTo, MountsUpTo
<1>5. Cardinality(A(0)) = 0 /\ Cardinality(B(0)) = 0
  <2>1. A(0) = {} /\ B(0) = {}
    BY <1>4
  <2> QED
    BY <2>1, FS_EmptySet
<1>6. A(k) = From(head, g, z)
  BY <1>1, <1>4 DEF From
<1>7. B(k) = MountsIn(g, z)
  <2>1. \A m : m \in MountsIn(g, z) <=> To(m) = z /\ \E d \in File : m \in MountsOn(g, d)
    BY DEF MountsIn, Table
  <2>2. \A d \in File : \A m \in MountsOn(g, d) : m \in Mount
    BY TableLive
  <2> HIDE DEF B, k
  <2> QED
    BY <1>1, <1>4, <2>1, <2>2
<1>8. ASSUME NEW i \in 1..k
      PROVE  Cardinality(A(i)) + Cardinality(B(i))
               = Cardinality(A(i - 1)) + Cardinality(B(i - 1)) + Count(HeldBy(g, HeadOrder[i]), z)
  <2>s. SUFFICES ASSUME NEW d, d = HeadOrder[i], NEW l, l = i - 1
        PROVE  Cardinality(A(i)) + Cardinality(B(i))
                 = Cardinality(A(l)) + Cardinality(B(l)) + Count(HeldBy(g, d), z)
    OBVIOUS
  <2>1. d \in File
    BY <1>1, <2>s
  <2> DEFINE S == IF head[g][d].from = z THEN {d} ELSE {}
             T == MountsAt(g, d, z)
             e == IF head[g][d].from = z THEN 1 ELSE 0
  <2>2. /\ IsFiniteSet(T) /\ Count(HeldBy(g, d), z) = e + Cardinality(T)
        /\ Cardinality(T) \in Nat
    BY <2>1, HeldByIs
  <2>3. IsFiniteSet(S) /\ Cardinality(S) = e /\ e \in Nat
    BY FS_EmptySet, FS_Singleton
  <2>4. \A j : j \in 1..i <=> j \in 1..l \/ j = i
    <3> HIDE DEF k
    <3> QED
      BY <1>1, <2>s
  <2>5. i \notin 1..l /\ \A j \in 1..l : j \in 1..k /\ j # i
    BY <1>1, <2>s
  <2>6. A(i) = A(l) \cup S /\ A(l) \cap S = {}
    <3> HIDE DEF A, k
    <3> QED
      BY <1>1, <1>4, <2>1, <2>4, <2>5, <2>s
  <2>7. B(i) = B(l) \cup T /\ B(l) \cap T = {}
    <3>1. \A m : m \in T <=> m \in MountsOn(g, d) /\ To(m) = z
      BY DEF MountsAt
    <3>2. \A m \in MountsOn(g, d) : m \in Mount
      BY <2>1, TableLive
    <3>3. \A j \in 1..l : MountsOn(g, HeadOrder[j]) \cap MountsOn(g, d) = {}
      BY <1>1, <2>1, <2>5, <2>s DEF ListInv
    <3> HIDE DEF B, T, k
    <3> QED
      BY <1>4, <2>4, <2>s, <3>1, <3>2, <3>3
  <2>8. IsFiniteSet(A(l)) /\ IsFiniteSet(B(l))
    BY <1>3
  <2> HIDE DEF A, B, S, T, e, k
  <2>9. Cardinality(A(i)) = Cardinality(A(l)) + Cardinality(S) /\ Cardinality(A(l)) \in Nat
    BY <2>3, <2>6, <2>8, Apart
  <2>10. Cardinality(B(i)) = Cardinality(B(l)) + Cardinality(T) /\ Cardinality(B(l)) \in Nat
    BY <2>2, <2>7, <2>8, Apart
  <2> QED
    BY <2>2, <2>3, <2>9, <2>10
<1> HIDE DEF A, B, k
<1>9. Cardinality(A(0)) + Cardinality(B(0)) = 0
  BY <1>5
<1>10. Cardinality(A(k)) + Cardinality(B(k)) = Cardinality(From(head, g, z)) + Cardinality(MountsIn(g, z))
  BY <1>6, <1>7
<1> QED
  BY <1>1, <1>8, <1>9, <1>10 DEF A, B, k

(* What a group with one reference left holds. *)
LEMMA HeldIs ==
  ASSUME TypeOK, ListInv, NEW g \in Group, group[g].slash \in Chan, group[g].dot \in Chan, NEW z \in Chan
  PROVE  /\ Held(g) \in Seq(Chan)
         /\ Count(Held(g), z) = Cardinality(From(head, g, z)) + Cardinality(MountsIn(g, z))
              + (IF group[g].slash = z THEN 1 ELSE 0) + (IF group[g].dot = z THEN 1 ELSE 0)
         /\ Count(Held(g), z) \in Nat
         /\ IsFiniteSet(MountsIn(g, z)) /\ Cardinality(MountsIn(g, z)) \in Nat
<1> DEFINE k == Len(HeadOrder)
           ss == [i \in 1..k |-> HeldBy(g, HeadOrder[i])]
           num == [i \in 0..k |-> Cardinality(FromTo(g, i, z)) + Cardinality(MountsUpTo(g, i, z))]
           x == group[g].slash
           y == group[g].dot
           b == <<x, y>>
           f == Cardinality(From(head, g, z))
           t == Cardinality(MountsIn(g, z))
<1>1. /\ k \in Nat /\ num[0] = 0
      /\ \A i \in 1..k : num[i] = num[i - 1] + Count(HeldBy(g, HeadOrder[i]), z)
      /\ num[k] = f + t
  <2>1. LET num0(i) == Cardinality(FromTo(g, i, z)) + Cardinality(MountsUpTo(g, i, z))
        IN /\ k \in Nat /\ num0(0) = 0
           /\ \A i \in 1..k : num0(i) = num0(i - 1) + Count(HeldBy(g, HeadOrder[i]), z)
           /\ num0(k) = Cardinality(From(head, g, z)) + Cardinality(MountsIn(g, z))
    BY UpToIs
  <2>2. k \in Nat /\ 0 \in 0..k /\ k \in 0..k /\ \A i \in 1..k : i \in 0..k /\ i - 1 \in 0..k
    BY <2>1
  <2>3. \A i \in 0..k : num[i] = Cardinality(FromTo(g, i, z)) + Cardinality(MountsUpTo(g, i, z))
    OBVIOUS
  <2> HIDE DEF num, k
  <2> QED
    BY <2>1, <2>2, <2>3
<1>2. \A i \in 1..k : HeadOrder[i] \in File
  BY HeadOrderIs
<1>3. \A i \in 1..k : HeldBy(g, HeadOrder[i]) \in Seq(Chan)
  BY <1>2, HeldByIs
<1>4. ss \in [1..k -> Seq(Chan)]
  BY <1>3
<1>5. \A i \in 1..k : num[i] = num[i - 1] + Count(ss[i], z)
  BY <1>1
<1>6. Held(g) = Concat(ss) \o b
  BY DEF Held, HeldBy
<1> HIDE DEF ss, num, k
<1>7. Concat(ss) \in Seq(Chan) /\ Count(Concat(ss), z) = num[k]
  <2>1. Counts(num, ss, Chan, k, z)
    BY <1>1, <1>4, <1>5 DEF Counts
  <2> QED
    BY <2>1, ConcatCount
<1>8. b \in Seq(Chan) /\ Count(b, z) = (IF z = x THEN 1 ELSE 0) + (IF z = y THEN 1 ELSE 0)
  BY CountTwo
<1> HIDE DEF b
<1>9. Concat(ss) \o b \in Seq(Chan) /\ Count(Concat(ss) \o b, z) = Count(Concat(ss), z) + Count(b, z)
  BY <1>7, <1>8, CountConcat
<1>10. IsFiniteSet(MountsIn(g, z)) /\ t \in Nat /\ f \in Nat
  <2>1. MountsIn(g, z) \subseteq Mount
    <3>1. \A d \in File : \A m \in MountsOn(g, d) : m \in Mount
      BY TableLive
    <3> QED
      BY <3>1 DEF MountsIn, Table
  <2>a. NMount \in Nat
    BY NameSpaceAssumption
  <2>2. IsFiniteSet(Mount)
    BY <2>a, FS_Interval DEF Mount
  <2>3. IsFiniteSet(MountsIn(g, z))
    BY <2>1, <2>2, FS_Subset
  <2>4. f \in Nat
    BY RowCount
  <2> QED
    BY <2>3, <2>4, FS_CardinalityType
<1>11. Count(Held(g), z) \in Nat /\ Held(g) \in Seq(Chan)
  <2>1. Held(g) \in Seq(Chan)
    BY <1>6, <1>9
  <2> QED
    BY <2>1, CountType
<1>12. Count(Held(g), z) = f + t + ((IF z = x THEN 1 ELSE 0) + (IF z = y THEN 1 ELSE 0))
  BY <1>1, <1>6, <1>7, <1>8, <1>9
<1> HIDE DEF f, t
<1>13. Count(Held(g), z) = f + t + (IF x = z THEN 1 ELSE 0) + (IF y = z THEN 1 ELSE 0)
  BY <1>10, <1>12
<1> QED
  BY <1>10, <1>11, <1>13 DEF f, t

LEMMA LessSub ==
  ASSUME NEW A, NEW B, IsFiniteSet(B), A \subseteq B, NEW C, C = B \ A
  PROVE  /\ IsFiniteSet(A) /\ IsFiniteSet(C)
         /\ Cardinality(A) \in Nat /\ Cardinality(B) \in Nat /\ Cardinality(C) \in Nat
         /\ Cardinality(C) + Cardinality(A) = Cardinality(B)
<1>1. IsFiniteSet(A) /\ IsFiniteSet(C)
  BY FS_Subset
<1>2. B = C \cup A /\ C \cap A = {}
  OBVIOUS
<1> QED
  BY <1>1, <1>2, Apart, FS_CardinalityType

(* S with y, if b, and without x, if a. *)
LEMMA ChangeOne ==
  ASSUME NEW S, IsFiniteSet(S), NEW T, NEW y, NEW x, NEW a \in BOOLEAN, NEW b \in BOOLEAN,
         T = (S \ (IF a THEN {x} ELSE {})) \cup (IF b THEN {y} ELSE {}),
         a => x \in S, y \notin S
  PROVE  /\ Cardinality(S) \in Nat /\ Cardinality(T) \in Nat
         /\ Cardinality(T) + (IF a THEN 1 ELSE 0) = Cardinality(S) + (IF b THEN 1 ELSE 0)
<1> DEFINE A == IF a THEN {x} ELSE {}
           B == IF b THEN {y} ELSE {}
           C == S \ A
<1>1. /\ IsFiniteSet(A) /\ Cardinality(A) = IF a THEN 1 ELSE 0
      /\ IsFiniteSet(B) /\ Cardinality(B) = IF b THEN 1 ELSE 0
  BY FS_EmptySet, FS_Singleton
<1>2. A \subseteq S /\ C \cap B = {} /\ T = C \cup B
  OBVIOUS
<1> HIDE DEF A, B
<1>3. /\ IsFiniteSet(C) /\ Cardinality(C) \in Nat /\ Cardinality(S) \in Nat
      /\ Cardinality(C) + Cardinality(A) = Cardinality(S)
  BY <1>1, <1>2, LessSub
<1> HIDE DEF C
<1>4. Cardinality(T) = Cardinality(C) + Cardinality(B) /\ Cardinality(T) \in Nat
  BY <1>1, <1>2, <1>3, Apart, FS_CardinalityType
<1> QED
  BY <1>1, <1>3, <1>4

(* What h has for a slash and a dot, and what g keeps. *)
LeavesWith(p, g, h, last, y, u) ==
  /\ Leaves(p, g, h, last) /\ LeavesGroups(g, h, last)
  /\ last \in BOOLEAN /\ group'[h].slash = y /\ group'[h].dot = u
  /\ \A q \in Proc : grp[q] = g => at[q] # "setdot"

LEMMA LeavesMountsTo ==
  ASSUME IndInv, TypeOK', NEW p \in Proc, NEW g, NEW h, NEW last, NEW y, NEW u,
         LeavesWith(p, g, h, last, y, u), NEW z \in Chan
  PROVE  /\ Cardinality(MountsTo(z)) \in Nat /\ Cardinality(MountsTo(z)') \in Nat
         /\ Cardinality(MountsIn(g, z)) \in Nat
         /\ Cardinality(MountsTo(z)') + (IF last THEN Cardinality(MountsIn(g, z)) ELSE 0) = Cardinality(MountsTo(z))
<1>0. g \in Group /\ Leaves(p, g, h, last) /\ last \in BOOLEAN /\ TypeOK /\ ListInv
  BY DEF LeavesWith, Leaves, IndInv
<1> DEFINE B == MountsTo(z)
           C == MountsTo(z)'
           A == MountsIn(g, z)
<1>1. IsFiniteSet(B)
  BY <1>0, RefsFinite
<1>2. \A m \in Table(g) : m \in Mount /\ mount[m].live
  BY <1>0, LeavesLists
<1>3. A \subseteq B
  BY <1>2 DEF MountsIn, MountsTo
<1>4. C = IF last THEN B \ A ELSE B
  <2> DEFINE mu == mount'
  <2>1. \A m \in Mount : mu[m].to = mount[m].to /\ (mu[m].live <=> mount[m].live /\ ~(last /\ m \in Table(g)))
    BY <1>0 DEF Leaves
  <2>2. \A m : m \in C <=> m \in Mount /\ mu[m].live /\ mu[m].to = z
    BY DEF MountsTo, To
  <2>3. \A m : m \in B <=> m \in Mount /\ mount[m].live /\ mount[m].to = z
    BY DEF MountsTo, To
  <2>4. \A m : m \in A <=> m \in Table(g) /\ mount[m].to = z
    BY DEF MountsIn, To
  <2> HIDE DEF A, B, C, mu
  <2> QED
    BY <1>2, <2>1, <2>2, <2>3, <2>4
<1> HIDE DEF A, B, C
<1>5. Cardinality(A) \in Nat /\ Cardinality(B) \in Nat /\ Cardinality(B \ A) \in Nat
      /\ Cardinality(B \ A) + Cardinality(A) = Cardinality(B)
  BY <1>1, <1>3, LessSub
<1>6. Cardinality(C) \in Nat /\ Cardinality(C) + (IF last THEN Cardinality(A) ELSE 0) = Cardinality(B)
  <2>1. CASE last
    BY <1>4, <1>5, <2>1
  <2>2. CASE ~last
    BY <1>4, <1>5, <2>2
  <2> QED
    BY <2>1, <2>2
<1> QED
  BY <1>5, <1>6 DEF A, B, C

LEMMA LeavesHeadsOf ==
  ASSUME IndInv, TypeOK', NEW p \in Proc, NEW g, NEW h, NEW last, NEW y, NEW u,
         LeavesWith(p, g, h, last, y, u), NEW z \in Chan
  PROVE  /\ Cardinality(HeadsOf(z)) \in Nat /\ Cardinality(HeadsOf(z)') \in Nat
         /\ Cardinality(From(head, g, z)) \in Nat
         /\ Cardinality(HeadsOf(z)') + (IF last THEN Cardinality(From(head, g, z)) ELSE 0) = Cardinality(HeadsOf(z))
<1>0. g \in Group /\ Leaves(p, g, h, last) /\ last \in BOOLEAN /\ TypeOK /\ ListInv
  BY DEF LeavesWith, Leaves, IndInv
<1> DEFINE B == HeadsOf(z)
           C == HeadsOf(z)'
           A == Row(head, g, z)
<1>1. IsFiniteSet(B)
  BY <1>0, RefsFinite
<1>3. A \subseteq B
  BY DEF Row, HeadsOf
<1>4. C = IF last THEN B \ A ELSE B
  <2> DEFINE hd == head'
  <2>0. z # Nil
    BY NameSpaceAssumption DEF Chan, Nil
  <2>1. \A gd \in Group \X File : hd[gd[1]][gd[2]] = IF last /\ gd[1] = g THEN NoHead ELSE head[gd[1]][gd[2]]
    BY <1>0 DEF Leaves
  <2>2. \A gd : gd \in C <=> gd \in Group \X File /\ hd[gd[1]][gd[2]].from = z
    BY DEF HeadsOf
  <2>3. \A gd : gd \in B <=> gd \in Group \X File /\ head[gd[1]][gd[2]].from = z
    BY DEF HeadsOf
  <2>4. \A gd : gd \in A <=> gd \in Group \X File /\ gd[1] = g /\ head[gd[1]][gd[2]].from = z
    BY DEF Row
  <2>5. NoHead.from # z
    BY <2>0 DEF NoHead
  <2> HIDE DEF A, B, C, hd
  <2>6. CASE last
    BY <2>1, <2>2, <2>3, <2>4, <2>5, <2>6
  <2>7. CASE ~last
    BY <2>1, <2>2, <2>3, <2>7
  <2> QED
    BY <2>6, <2>7
<1> HIDE DEF A, B, C
<1>5. Cardinality(A) \in Nat /\ Cardinality(B) \in Nat /\ Cardinality(B \ A) \in Nat
      /\ Cardinality(B \ A) + Cardinality(A) = Cardinality(B)
  BY <1>1, <1>3, LessSub
<1>6. Cardinality(C) \in Nat /\ Cardinality(C) + (IF last THEN Cardinality(A) ELSE 0) = Cardinality(B)
  <2>1. CASE last
    BY <1>4, <1>5, <2>1
  <2>2. CASE ~last
    BY <1>4, <1>5, <2>2
  <2> QED
    BY <2>1, <2>2
<1>7. Cardinality(A) = Cardinality(From(head, g, z))
  BY <1>0, RowCount DEF A
<1> QED
  BY <1>5, <1>6, <1>7 DEF B, C

LEMMA LeavesSlashes ==
  ASSUME IndInv, TypeOK', NEW p \in Proc, NEW g, NEW h, NEW last, NEW y, NEW u,
         LeavesWith(p, g, h, last, y, u), NEW z \in Chan
  PROVE  /\ Cardinality(SlashesOf(z)) \in Nat /\ Cardinality(SlashesOf(z)') \in Nat
         /\ Cardinality(SlashesOf(z)') + (IF last /\ group[g].slash = z THEN 1 ELSE 0)
              = Cardinality(SlashesOf(z)) + (IF y = z THEN 1 ELSE 0)
<1>0. /\ g \in Group /\ h \in Group /\ g # h /\ last \in BOOLEAN /\ TypeOK /\ GroupInv /\ Users(h) = {}
      /\ LeavesGroups(g, h, last) /\ group'[h].slash = y
  BY DEF LeavesWith, Leaves, IndInv
<1> DEFINE gu == group'
           S == SlashesOf(z)
           T == SlashesOf(z)'
           a == last /\ group[g].slash = z
           b == (y = z)
<1>1. IsFiniteSet(S)
  BY <1>0, RefsFinite
<1>2. z # Nil /\ group[h].slash = Nil
  BY <1>0, NameSpaceAssumption DEF Chan, Nil, GroupInv
<1>3. /\ gu[h].slash = y /\ gu[g].slash = IF last THEN Nil ELSE group[g].slash
      /\ \A k \in Group : k # g /\ k # h => gu[k].slash = group[k].slash
  BY <1>0 DEF LeavesGroups
<1>4. \A k : k \in S <=> k \in Group /\ group[k].slash = z
  BY DEF SlashesOf
<1>5. \A k : k \in T <=> k \in Group /\ gu[k].slash = z
  BY DEF SlashesOf
<1>6. a \in BOOLEAN /\ b \in BOOLEAN
  BY <1>0
<1>7. T = (S \ (IF a THEN {g} ELSE {})) \cup (IF b THEN {h} ELSE {}) /\ (a => g \in S) /\ h \notin S
  <2> HIDE DEF gu, S, T
  <2> QED
    BY <1>0, <1>2, <1>3, <1>4, <1>5
<1> HIDE DEF S, T, a, b
<1>8. /\ Cardinality(S) \in Nat /\ Cardinality(T) \in Nat
      /\ Cardinality(T) + (IF a THEN 1 ELSE 0) = Cardinality(S) + (IF b THEN 1 ELSE 0)
  BY <1>1, <1>6, <1>7, ChangeOne
<1> QED
  BY <1>8 DEF S, T, a, b

LEMMA LeavesDots ==
  ASSUME IndInv, TypeOK', NEW p \in Proc, NEW g, NEW h, NEW last, NEW y, NEW u,
         LeavesWith(p, g, h, last, y, u), NEW z \in Chan
  PROVE  /\ Cardinality(DotsOf(z)) \in Nat /\ Cardinality(DotsOf(z)') \in Nat
         /\ Cardinality(DotsOf(z)') + (IF last /\ group[g].dot = z THEN 1 ELSE 0)
              = Cardinality(DotsOf(z)) + (IF u = z THEN 1 ELSE 0)
<1>0. /\ g \in Group /\ h \in Group /\ g # h /\ last \in BOOLEAN /\ TypeOK /\ GroupInv /\ Users(h) = {}
      /\ LeavesGroups(g, h, last) /\ group'[h].dot = u /\ Leaves(p, g, h, last)
      /\ \A q \in Proc : grp[q] = g => at[q] # "setdot"
  BY DEF LeavesWith, Leaves, IndInv
<1> DEFINE gu == group'
           gp == grp'
           aa == at'
           S == DotsOf(z)
           T == DotsOf(z)'
           a == last /\ group[g].dot = z
           b == (u = z)
<1>1. IsFiniteSet(S)
  BY <1>0, RefsFinite
<1>2. z # Nil /\ group[h].dot = Nil
  BY <1>0, NameSpaceAssumption DEF Chan, Nil, GroupInv
<1>3. /\ gu[h].dot = u /\ gu[g].dot = IF last THEN Nil ELSE group[g].dot
      /\ \A k \in Group : k # g /\ k # h => gu[k].dot = group[k].dot
  BY <1>0 DEF LeavesGroups
<1>4. \A k : k \in S <=> k \in Group /\ group[k].dot = z /\ \A q \in Proc : grp[q] = k => at[q] # "setdot"
  BY DEF DotsOf
<1>5. \A k : k \in T <=> k \in Group /\ gu[k].dot = z /\ \A q \in Proc : gp[q] = k => aa[q] # "setdot"
  BY DEF DotsOf
<1>6. a \in BOOLEAN /\ b \in BOOLEAN
  BY <1>0
<1>7. /\ gp[p] = h /\ grp[p] = g /\ aa[p] = "idle" /\ at[p] = "copied"
      /\ \A q \in Proc \ {p} : gp[q] = grp[q] /\ aa[q] = at[q]
      /\ \A q \in Proc : grp[q] # h
  BY <1>0 DEF Leaves, OthersKeep, Users
<1>8. \A k \in Group : (\A q \in Proc : gp[q] = k => aa[q] # "setdot") <=> (\A q \in Proc : grp[q] = k => at[q] # "setdot")
  <2> HIDE DEF gp, aa
  <2>1. \A q \in Proc : q # p => gp[q] = grp[q] /\ aa[q] = at[q]
    BY <1>7
  <2>2. "idle" # "setdot" /\ "copied" # "setdot"
    OBVIOUS
  <2> QED
    BY <1>7, <2>1, <2>2
<1>9. \A q \in Proc : grp[q] = h => at[q] # "setdot"
  BY <1>7
<1>10. T = (S \ (IF a THEN {g} ELSE {})) \cup (IF b THEN {h} ELSE {}) /\ (a => g \in S) /\ h \notin S
  <2> HIDE DEF gu, gp, aa, S, T
  <2>1. \A k : k \in T <=> k \in Group /\ gu[k].dot = z /\ \A q \in Proc : grp[q] = k => at[q] # "setdot"
    BY <1>5, <1>8
  <2> QED
    BY <1>0, <1>2, <1>3, <1>4, <1>9, <2>1
<1> HIDE DEF S, T, a, b
<1>11. /\ Cardinality(S) \in Nat /\ Cardinality(T) \in Nat
       /\ Cardinality(T) + (IF a THEN 1 ELSE 0) = Cardinality(S) + (IF b THEN 1 ELSE 0)
  BY <1>1, <1>6, <1>10, ChangeOne
<1> QED
  BY <1>11 DEF S, T, a, b

(* What the tables have of z then. *)
Dropped(g, last, z) == IF last THEN Count(Held(g), z) ELSE 0
LEMMA LeavesRefs ==
  ASSUME IndInv, TypeOK', NEW p \in Proc, NEW g, NEW h, NEW last, NEW y, NEW u,
         LeavesWith(p, g, h, last, y, u), NEW z \in Chan
  PROVE  /\ InTables(z) \in Nat /\ InTables(z)' \in Nat /\ Dropped(g, last, z) \in Nat
         /\ InTables(z)' + Dropped(g, last, z)
              = InTables(z) + (IF y = z THEN 1 ELSE 0) + (IF u = z THEN 1 ELSE 0)
         /\ Dropped(g, last, z) <= InTables(z)
<1>0. /\ g \in Group /\ last \in BOOLEAN /\ TypeOK /\ ListInv
      /\ group[g].slash \in Chan /\ group[g].dot \in Chan
      /\ h \in Group /\ g # h /\ Users(h) = {} /\ GroupInv
  <2>1. g = grp[p] /\ g \in Group /\ last \in BOOLEAN /\ h \in Group /\ g # h /\ Users(h) = {}
    BY DEF LeavesWith, Leaves
  <2>2. p \in Users(g)
    BY <2>1 DEF Users
  <2> QED
    BY <2>1, <2>2 DEF IndInv, GroupInv
<1> DEFINE a == Cardinality(MountsTo(z))
           aa == Cardinality(MountsTo(z)')
           b == Cardinality(HeadsOf(z))
           bb == Cardinality(HeadsOf(z)')
           s == Cardinality(SlashesOf(z))
           ss == Cardinality(SlashesOf(z)')
           t == Cardinality(DotsOf(z))
           tt == Cardinality(DotsOf(z)')
           i == Cardinality(MountsIn(g, z))
           j == Cardinality(From(head, g, z))
           k == IF group[g].slash = z THEN 1 ELSE 0
           l == IF group[g].dot = z THEN 1 ELSE 0
           e == IF y = z THEN 1 ELSE 0
           f == IF u = z THEN 1 ELSE 0
<1>1. a \in Nat /\ aa \in Nat /\ i \in Nat /\ aa + (IF last THEN i ELSE 0) = a
  BY LeavesMountsTo
<1>2. b \in Nat /\ bb \in Nat /\ j \in Nat /\ bb + (IF last THEN j ELSE 0) = b
  BY LeavesHeadsOf
<1>3. s \in Nat /\ ss \in Nat /\ ss + (IF last THEN k ELSE 0) = s + e
  <2>1. /\ Cardinality(SlashesOf(z)) \in Nat /\ Cardinality(SlashesOf(z)') \in Nat
        /\ Cardinality(SlashesOf(z)') + (IF last /\ group[g].slash = z THEN 1 ELSE 0)
              = Cardinality(SlashesOf(z)) + (IF y = z THEN 1 ELSE 0)
    BY LeavesSlashes
  <2>2. (IF last THEN k ELSE 0) = (IF last /\ group[g].slash = z THEN 1 ELSE 0)
    BY <1>0
  <2> QED
    BY <2>1, <2>2
<1>4. t \in Nat /\ tt \in Nat /\ tt + (IF last THEN l ELSE 0) = t + f
  <2>1. /\ Cardinality(DotsOf(z)) \in Nat /\ Cardinality(DotsOf(z)') \in Nat
        /\ Cardinality(DotsOf(z)') + (IF last /\ group[g].dot = z THEN 1 ELSE 0)
              = Cardinality(DotsOf(z)) + (IF u = z THEN 1 ELSE 0)
    BY LeavesDots
  <2>2. (IF last THEN l ELSE 0) = (IF last /\ group[g].dot = z THEN 1 ELSE 0)
    BY <1>0
  <2> QED
    BY <2>1, <2>2
<1>5. InTables(z) = a + b + s + t /\ InTables(z)' = aa + bb + ss + tt
  BY DEF InTables
<1>6. Dropped(g, last, z) = IF last THEN j + i + k + l ELSE 0
  BY <1>0, HeldIs DEF Dropped
<1>7. k \in Nat /\ l \in Nat /\ e \in Nat /\ f \in Nat
  OBVIOUS
<1>8. last => s >= k /\ t >= l
  <2>1. last => (k = 1 => g \in SlashesOf(z)) /\ (l = 1 => g \in DotsOf(z))
    BY <1>0 DEF SlashesOf, DotsOf, LeavesWith
  <2>2. IsFiniteSet(SlashesOf(z)) /\ IsFiniteSet(DotsOf(z))
    BY <1>0, RefsFinite
  <2>3. (g \in SlashesOf(z) => s >= 1) /\ (g \in DotsOf(z) => t >= 1)
    BY <2>2, OneOf
  <2>4. (k = 0 \/ k = 1) /\ (l = 0 \/ l = 1)
    OBVIOUS
  <2> HIDE DEF s, t, k, l
  <2> QED
    BY <1>3, <1>4, <2>1, <2>3, <2>4
<1> HIDE DEF a, aa, b, bb, s, ss, t, tt, i, j, k, l, e, f
<1>9. CASE last
  <2>1. aa + i = a /\ bb + j = b /\ ss + k = s + e /\ tt + l = t + f /\ s >= k /\ t >= l
        /\ Dropped(g, last, z) = j + i + k + l
    BY <1>1, <1>2, <1>3, <1>4, <1>6, <1>8, <1>9
  <2> QED
    BY <1>1, <1>2, <1>3, <1>4, <1>5, <1>7, <2>1 DEF e, f
<1>10. CASE ~last
  <2>1. aa = a /\ bb = b /\ ss = s + e /\ tt = t + f /\ Dropped(g, last, z) = 0
    BY <1>1, <1>2, <1>3, <1>4, <1>6, <1>10
  <2> QED
    BY <1>1, <1>2, <1>3, <1>4, <1>5, <1>7, <2>1 DEF e, f
<1> QED
  BY <1>9, <1>10

(* What the last step of a fork does. *)
NumbersOf(ms) ==
  [m \in Mount |->
     IF {i \in 1..Len(ms) : mount[ms[i]].copy = m} = {} THEN mount[m]
     ELSE [mount[m] EXCEPT !.mountid =
             mountid + (CHOOSE i \in {i \in 1..Len(ms) : mount[ms[i]].copy = m} : TRUE) - 1]]
TwoOf(g) == Clone(Clone(ch, group[g].slash), group[g].dot)
IdsStep(p, g, h, ms, last) ==
  /\ at[p] = "copied" /\ Enough(2) /\ DotUsable(p)
  /\ last => Removable(p, InTable(g))
  /\ mountid' = mountid + Len(ms)
  /\ mount' = (IF last THEN MountFree(NumbersOf(ms), InTable(g)) ELSE NumbersOf(ms))
  /\ head' = (IF last THEN [head EXCEPT ![g] = [d \in File |-> NoHead]] ELSE head)
  /\ ch' = (IF last THEN CloseAll(TwoOf(g), Held(g)) ELSE TwoOf(g))
  /\ group' = [group EXCEPT ![h] = [ref |-> 1, slash |-> ch.free[1], dot |-> ch.free[2]],
                            ![g] = IF last THEN NoGroup
                                   ELSE [group[g] EXCEPT !.ref = @ - 1]]
  /\ grp' = [grp EXCEPT ![p] = h]
  /\ fork' = [fork EXCEPT ![p] = [to |-> h, order |-> <<>>]]
  /\ Return(p)
  /\ UNCHANGED <<fd, job, walking, left>>

LEMMA ForkIdsStep ==
  ASSUME NEW p \in Proc, ForkIds(p)
  PROVE  LET g == grp[p]
         IN IdsStep(p, g, fork[p].to, fork[p].order, group[g].ref = 1)
BY Zenon DEF ForkIds, IdsStep, NumbersOf, TwoOf

(* What it works on. *)
IdsOf(p, g, h, ms, last) ==
  /\ g = grp[p] /\ h = fork[p].to /\ ms = fork[p].order /\ last = (group[g].ref = 1)
  /\ IdsStep(p, g, h, ms, last)

LEMMA IdsHas ==
  ASSUME IndInv, Orderly, NEW p \in Proc, NEW g, NEW h, NEW ms, NEW last, IdsOf(p, g, h, ms, last)
  PROVE  /\ Paired(g, h, ms) /\ Numbered(g, h, ms, NumbersOf(ms))
         /\ last \in BOOLEAN /\ (last <=> Users(g) = {p})
         /\ group[g].slash \in Chan /\ group[g].dot \in Chan
         /\ ch.of[group[g].slash].ref > 0 /\ ch.of[group[g].dot].ref > 0
         /\ \A q \in Proc : grp[q] = g => at[q] # "setdot"
         /\ last => Table(g) \cap Followed(p) = {}
         /\ InTable(g) \in Seq(Mount) /\ ToSet(InTable(g)) = Table(g)
<1>0. /\ g = grp[p] /\ h = fork[p].to /\ ms = fork[p].order /\ last = (group[g].ref = 1)
      /\ at[p] = "copied" /\ DotUsable(p) /\ (last => Removable(p, InTable(g)))
  BY DEF IdsOf, IdsStep
<1>1. Copyists(p, g, h, ms)
  BY <1>0 DEF Copyists
<1>2. Paired(g, h, ms)
  BY <1>1, PairedIs
<1>3. TypeOK /\ ListInv /\ GroupInv /\ g \in Group
  BY <1>2 DEF IndInv, Paired
<1>4. Numbered(g, h, ms, NumbersOf(ms))
  <2>1. Numbers(ms, NumbersOf(ms))
    BY DEF Numbers, NumbersOf
  <2> QED
    BY <1>2, <1>3, <2>1, NumberedIs
<1>5. p \in Users(g)
  BY <1>0 DEF Users
<1>6. last \in BOOLEAN /\ (last <=> Users(g) = {p})
  <2>1. ~Grows(g)
    BY <1>3, <1>5 DEF Grows, GroupInv
  <2>2. group[g].ref = Cardinality(Users(g))
    <3>1. /\ group[g].ref = Cardinality(Users(g)) + IF Grows(g) THEN 1 ELSE 0
      BY <1>3 DEF GroupInv
    <3>2. Cardinality(Users(g)) \in Nat
      <4>1. IsFiniteSet(Users(g))
        BY NameSpaceAssumption, FS_Subset DEF Users
      <4> QED
        BY <4>1, FS_CardinalityType
    <3> HIDE DEF Users
    <3> QED
      BY <2>1, <3>1, <3>2
  <2>3. IsFiniteSet(Users(g))
    BY NameSpaceAssumption, FS_Subset DEF Users
  <2>4. Cardinality(Users(g)) = 1 => Users(g) = {p}
    BY <1>5, <2>3, OneOf
  <2>5. Cardinality({p}) = 1
    BY FS_Singleton
  <2> QED
    BY <1>0, <2>2, <2>4, <2>5
<1>7. /\ group[g].slash \in Chan /\ group[g].dot \in Chan
      /\ ch.of[group[g].slash].ref > 0 /\ ch.of[group[g].dot].ref > 0
  BY <1>0, StartFrom
<1>8. \A q \in Proc : grp[q] = g => at[q] # "setdot"
  BY <1>0 DEF DotUsable, Orderly
<1>9. InTable(g) \in Seq(Mount) /\ ToSet(InTable(g)) = Table(g)
  BY <1>3, InTableIs
<1>10. last => Table(g) \cap Followed(p) = {}
  BY <1>0, <1>9 DEF Removable, Orderly
<1> QED
  BY <1>2, <1>4, <1>6, <1>7, <1>8, <1>9, <1>10

(* What becomes of the groups. *)
LEMMA IdsGroups ==
  ASSUME TypeOK, NEW g \in Group, NEW h \in Group, g # h, NEW last \in BOOLEAN,
         group[g].ref >= 1, NEW y \in Chan, NEW u \in Chan, NEW gu,
         gu = [group EXCEPT ![h] = [ref |-> 1, slash |-> y, dot |-> u],
                            ![g] = IF last THEN NoGroup ELSE [group[g] EXCEPT !.ref = @ - 1]],
         last <=> group[g].ref = 1
  PROVE  /\ gu \in [Group -> [ref : Nat, slash : Chan \cup {Nil}, dot : Chan \cup {Nil}]]
         /\ gu[h].ref = 1 /\ gu[h].slash = y /\ gu[h].dot = u
         /\ gu[g].ref = group[g].ref - 1
         /\ gu[g].slash = IF last THEN Nil ELSE group[g].slash
         /\ gu[g].dot = IF last THEN Nil ELSE group[g].dot
         /\ \A k \in Group : k # g /\ k # h => gu[k] = group[k]
<1> DEFINE R == [ref : Nat, slash : Chan \cup {Nil}, dot : Chan \cup {Nil}]
           gr == group
           v == [ref |-> 1, slash |-> y, dot |-> u]
<1>1. gr \in [Group -> R]
  BY DEF TypeOK
<1>2. v \in R /\ v.ref = 1 /\ v.slash = y /\ v.dot = u
  OBVIOUS
<1>s. SUFFICES ASSUME NEW r, r = gr[g]
      PROVE  /\ gu \in [Group -> R]
             /\ gu[h] = v
             /\ gu[g].ref = r.ref - 1
             /\ gu[g].slash = IF last THEN Nil ELSE r.slash
             /\ gu[g].dot = IF last THEN Nil ELSE r.dot
             /\ \A k \in Group : k # g /\ k # h => gu[k] = gr[k]
  BY <1>2
<1> DEFINE x == IF last THEN NoGroup ELSE [r EXCEPT !.ref = r.ref - 1]
<1>3. r \in R /\ r.ref \in Nat /\ r.ref >= 1 /\ (last <=> r.ref = 1)
  BY <1>1, <1>s
<1>4. x \in R /\ x.ref = r.ref - 1 /\ x.slash = (IF last THEN Nil ELSE r.slash) /\ x.dot = IF last THEN Nil ELSE r.dot
  <2>1. CASE last
    <3>1. x = NoGroup /\ r.ref - 1 = 0
      BY <1>3, <2>1
    <3>2. NoGroup \in R /\ NoGroup.ref = 0 /\ NoGroup.slash = Nil /\ NoGroup.dot = Nil
      BY DEF NoGroup
    <3> HIDE DEF x, R
    <3> QED
      BY <2>1, <3>1, <3>2
  <2>2. CASE ~last
    <3>1. r.ref - 1 \in Nat
      BY <1>3
    <3> QED
      BY <1>3, <2>2, <3>1
  <2> QED
    BY <2>1, <2>2
<1>5. gu = [gr EXCEPT ![h] = v, ![g] = x]
  BY <1>1, <1>s
<1> HIDE DEF gr, v, x, R
<1>6. gu \in [Group -> R] /\ gu[h] = v /\ gu[g] = x /\ \A k \in Group : k # g /\ k # h => gu[k] = gr[k]
  BY <1>1, <1>2, <1>4, <1>5
<1> QED
  BY <1>4, <1>6

LEMMA FreedIs ==
  ASSUME NEW nu \in MountsType, NEW gone, NEW mu, mu = MountFree(nu, gone)
  PROVE  /\ mu \in MountsType
         /\ \A m \in Mount :
              /\ mu[m].to = nu[m].to /\ mu[m].copy = nu[m].copy /\ mu[m].next = nu[m].next
              /\ m \notin ToSet(gone) => mu[m] = nu[m]
              /\ mu[m].live <=> nu[m].live /\ m \notin ToSet(gone)
<1> DEFINE R == [mountid : Nat, next : Mount \cup {Nil}, to : Chan \cup {Nil},
                 copy : Mount \cup {Nil}, live : BOOLEAN]
<1>1. mu = [m \in Mount |-> IF m \in ToSet(gone) THEN [nu[m] EXCEPT !.mountid = 0, !.live = FALSE] ELSE nu[m]]
  BY DEF MountFree
<1>2. nu \in [Mount -> R]
  BY DEF MountsType
<1>3. ASSUME NEW m \in Mount
      PROVE  /\ mu[m] \in R
             /\ mu[m].to = nu[m].to /\ mu[m].copy = nu[m].copy /\ mu[m].next = nu[m].next
             /\ m \notin ToSet(gone) => mu[m] = nu[m]
             /\ mu[m].live <=> nu[m].live /\ m \notin ToSet(gone)
  <2>s. SUFFICES ASSUME NEW r, r = nu[m]
        PROVE  /\ mu[m] \in R
               /\ mu[m].to = r.to /\ mu[m].copy = r.copy /\ mu[m].next = r.next
               /\ m \notin ToSet(gone) => mu[m] = r
               /\ mu[m].live <=> r.live /\ m \notin ToSet(gone)
    OBVIOUS
  <2>1. mu[m] = IF m \in ToSet(gone) THEN [r EXCEPT !.mountid = 0, !.live = FALSE] ELSE r
    BY <1>1, <2>s
  <2>2. r \in R
    BY <1>2, <2>s
  <2>3. /\ [r EXCEPT !.mountid = 0, !.live = FALSE] \in R
        /\ [r EXCEPT !.mountid = 0, !.live = FALSE].to = r.to
        /\ [r EXCEPT !.mountid = 0, !.live = FALSE].copy = r.copy
        /\ [r EXCEPT !.mountid = 0, !.live = FALSE].next = r.next
        /\ ~[r EXCEPT !.mountid = 0, !.live = FALSE].live
    BY <2>2
  <2> HIDE DEF R
  <2> QED
    BY <2>1, <2>2, <2>3
<1> HIDE DEF R
<1>4. mu \in [Mount -> R]
  BY <1>1, <1>3
<1> QED
  BY <1>3, <1>4 DEF MountsType, R

(* What becomes of the mounts and the heads. *)
TablesStep(g, h, ms, last, mu, hd) ==
  /\ Paired(g, h, ms) /\ Numbered(g, h, ms, NumbersOf(ms))
  /\ last \in BOOLEAN /\ InTable(g) \in Seq(Mount) /\ ToSet(InTable(g)) = Table(g)
  /\ mu = (IF last THEN MountFree(NumbersOf(ms), InTable(g)) ELSE NumbersOf(ms))
  /\ hd = (IF last THEN [head EXCEPT ![g] = [d \in File |-> NoHead]] ELSE head)
TablesAre(g, h, ms, last, mu, hd) ==
  /\ mu \in MountsType /\ hd \in [Group -> [File -> HeadType]]
  /\ Len(ms) \in Nat
  /\ \A k \in Group, d \in File : hd[k][d] = IF last /\ k = g THEN NoHead ELSE head[k][d]
  /\ \A m \in Mount :
       /\ mu[m].next = mount[m].next /\ mu[m].to = mount[m].to /\ mu[m].copy = mount[m].copy
       /\ mu[m].live <=> mount[m].live /\ ~(last /\ m \in Table(g))
       /\ m \notin Table(h) /\ ~(last /\ m \in Table(g)) => mu[m].mountid = mount[m].mountid
  /\ \A m \in Table(h) : mu[m].mountid <= mountid + Len(ms)
  /\ \A m, l \in Table(h) : m # l => mu[m].mountid # mu[l].mountid
  /\ \A i \in 1..Len(ms) : mu[mount[ms[i]].copy].mountid = mountid + i - 1
LEMMA IdsTables ==
  ASSUME TypeOK, ListInv, NEW g, NEW h, NEW ms, NEW last, NEW mu, NEW hd,
         TablesStep(g, h, ms, last, mu, hd)
  PROVE  TablesAre(g, h, ms, last, mu, hd)
<1>0. /\ Paired(g, h, ms) /\ Numbered(g, h, ms, NumbersOf(ms))
      /\ last \in BOOLEAN /\ InTable(g) \in Seq(Mount) /\ ToSet(InTable(g)) = Table(g)
      /\ mu = (IF last THEN MountFree(NumbersOf(ms), InTable(g)) ELSE NumbersOf(ms))
      /\ hd = (IF last THEN [head EXCEPT ![g] = [d \in File |-> NoHead]] ELSE head)
  BY DEF TablesStep
<1> USE <1>0 DEF TablesAre
<1> DEFINE nu == NumbersOf(ms)
<1>1. /\ nu \in MountsType
      /\ \A m \in Mount : /\ nu[m].next = mount[m].next /\ nu[m].to = mount[m].to
                          /\ nu[m].copy = mount[m].copy /\ nu[m].live = mount[m].live
                          /\ m \notin Table(h) => nu[m].mountid = mount[m].mountid
      /\ \A i \in 1..Len(ms) : nu[mount[ms[i]].copy].mountid = mountid + i - 1
      /\ \A m \in Table(h) : nu[m].mountid <= mountid + Len(ms)
      /\ \A m, l \in Table(h) : m # l => nu[m].mountid # nu[l].mountid
  BY DEF Numbered
<1>2. /\ g \in Group /\ h \in Group /\ g # h /\ ms \in Seq(Mount) /\ ToSet(ms) = Table(g)
      /\ \A m \in Table(g) : mount[m].copy \in Table(h)
  BY DEF Paired
<1>3. Len(ms) \in Nat /\ \A i \in 1..Len(ms) : mount[ms[i]].copy \in Table(h)
  BY <1>2, SeqIs
<1>4. /\ \A m \in Table(h) : m \in Mount /\ m \notin Table(g)
  <2>1. \A d \in File : \A m \in MountsOn(h, d) : m \in Mount
    BY <1>2, TableLive
  <2>2. Table(g) \cap Table(h) = {}
    BY <1>2 DEF ListInv, Table
  <2> QED
    BY <2>1, <2>2 DEF Table
<1> HIDE DEF nu
<1>5. /\ mu \in MountsType
      /\ \A m \in Mount :
           /\ mu[m].to = nu[m].to /\ mu[m].copy = nu[m].copy /\ mu[m].next = nu[m].next
           /\ ~(last /\ m \in Table(g)) => mu[m] = nu[m]
           /\ mu[m].live <=> nu[m].live /\ ~(last /\ m \in Table(g))
  <2>1. CASE last
    <3>1. mu = MountFree(nu, InTable(g))
      BY <2>1 DEF nu
    <3> QED
      BY <1>1, <2>1, <3>1, FreedIs
  <2>2. CASE ~last
    <3>1. mu = nu
      BY <2>2 DEF nu
    <3> QED
      BY <1>1, <2>2, <3>1
  <2> QED
    BY <2>1, <2>2
<1>6. /\ hd \in [Group -> [File -> HeadType]]
      /\ \A k \in Group, d \in File : hd[k][d] = IF last /\ k = g THEN NoHead ELSE head[k][d]
  <2>1. head \in [Group -> [File -> HeadType]]
    BY DEF TypeOK, HeadType
  <2>2. [d \in File |-> NoHead] \in [File -> HeadType]
    BY DEF NoHead, HeadType
  <2>3. \A d \in File : [e \in File |-> NoHead][d] = NoHead
    OBVIOUS
  <2> HIDE DEF HeadType
  <2>4. CASE last
    BY <1>2, <2>1, <2>2, <2>3, <2>4
  <2>5. CASE ~last
    BY <2>1, <2>5
  <2> QED
    BY <2>4, <2>5
<1>7. \A m \in Table(h) : mu[m].mountid = nu[m].mountid
  BY <1>4, <1>5
<1>8. \A m \in Mount : m \notin Table(h) /\ ~(last /\ m \in Table(g)) => mu[m].mountid = mount[m].mountid
  BY <1>1, <1>5
<1>9. \A i \in 1..Len(ms) : mu[mount[ms[i]].copy].mountid = mountid + i - 1
  BY <1>1, <1>3, <1>7
<1>10. /\ \A m \in Table(h) : mu[m].mountid <= mountid + Len(ms)
       /\ \A m, l \in Table(h) : m # l => mu[m].mountid # mu[l].mountid
  BY <1>1, <1>7
<1>11. \A m \in Mount :
         /\ mu[m].next = mount[m].next /\ mu[m].to = mount[m].to /\ mu[m].copy = mount[m].copy
         /\ mu[m].live <=> mount[m].live /\ ~(last /\ m \in Table(g))
  BY <1>1, <1>5
<1> QED
  BY <1>3, <1>5, <1>6, <1>8, <1>9, <1>10, <1>11

(* The channels: two clones, and then those that the group held are closed. *)
ChansStep(g, last, y, u, t) ==
  /\ Enough(2) /\ g \in Group /\ group[g].slash \in Chan /\ group[g].dot \in Chan
  /\ ch.of[group[g].slash].ref > 0 /\ ch.of[group[g].dot].ref > 0
  /\ last \in BOOLEAN /\ y = ch.free[1] /\ u = ch.free[2]
  /\ t = (IF last THEN CloseAll(TwoOf(g), Held(g)) ELSE TwoOf(g))
ChansAre(g, last, y, u, t) ==
  /\ y \in Chan /\ u \in Chan /\ y # u /\ ch.of[y].ref = 0 /\ ch.of[u].ref = 0
  /\ t \in ChansType
  /\ (\A z \in Chan : Dropped(g, last, z) \in Nat /\ Dropped(g, last, z) <= ch.of[z].ref) =>
       /\ FreeOK(t) /\ ~t.panic
       /\ \A z \in Chan :
            /\ t.of[z].ref = ch.of[z].ref + (IF z = y THEN 1 ELSE 0) + (IF z = u THEN 1 ELSE 0)
                               - Dropped(g, last, z)
            /\ t.of[z].ref > 0 => t.of[z].file \in File
            /\ ch.of[z].ref > 0 => /\ t.of[z].file = ch.of[z].file /\ t.of[z].mnt = ch.of[z].mnt
                                   /\ t.of[z].mountid = ch.of[z].mountid
LEMMA IdsChans ==
  ASSUME IndInv, NEW g, NEW last, NEW y, NEW u, NEW t, ChansStep(g, last, y, u, t)
  PROVE  ChansAre(g, last, y, u, t)
<1>0. /\ Enough(2) /\ g \in Group /\ group[g].slash \in Chan /\ group[g].dot \in Chan
      /\ ch.of[group[g].slash].ref > 0 /\ ch.of[group[g].dot].ref > 0
      /\ last \in BOOLEAN /\ y = ch.free[1] /\ u = ch.free[2]
      /\ t = (IF last THEN CloseAll(TwoOf(g), Held(g)) ELSE TwoOf(g))
  BY DEF ChansStep
<1> USE <1>0 DEF ChansAre
<1> DEFINE two == TwoOf(g)
           x == group[g].slash
           v == group[g].dot
           Fact == \A z \in Chan : Dropped(g, last, z) \in Nat /\ Dropped(g, last, z) <= ch.of[z].ref
           Goal == /\ FreeOK(t) /\ ~t.panic
                   /\ \A z \in Chan :
                        /\ t.of[z].ref = ch.of[z].ref + (IF z = y THEN 1 ELSE 0) + (IF z = u THEN 1 ELSE 0)
                                           - Dropped(g, last, z)
                        /\ t.of[z].ref > 0 => t.of[z].file \in File
                        /\ ch.of[z].ref > 0 => /\ t.of[z].file = ch.of[z].file /\ t.of[z].mnt = ch.of[z].mnt
                                               /\ t.of[z].mountid = ch.of[z].mountid
<1>1. Cloned2(x, v, y, u, two)
  BY DEF Cloned2, TwoOf
<1> HIDE DEF two, x, v
<1>2. /\ y \in Chan /\ u \in Chan /\ y # u /\ ch.of[y].ref = 0 /\ ch.of[u].ref = 0
      /\ two \in ChansType /\ FreeOK(two) /\ ~two.panic
      /\ \A z \in Chan :
           /\ two.of[z].ref = ch.of[z].ref + (IF z = y THEN 1 ELSE 0) + (IF z = u THEN 1 ELSE 0)
           /\ two.of[z].ref > 0 => two.of[z].file \in File
           /\ ch.of[z].ref > 0 => two.of[z] = ch.of[z]
  <2>1. x \in Chan /\ v \in Chan /\ ch.of[x].ref > 0 /\ ch.of[v].ref > 0
    BY DEF x, v
  <2> QED
    BY <1>1, <2>1, CloneTwice
<1>3. \A z \in Chan : ch.of[z].ref \in Nat /\ two.of[z].ref \in Nat
  BY <1>2, Channels DEF ChansType, ChanType
<1>4. CASE last
  <2>1. t = CloseAll(two, Held(g))
    BY <1>4 DEF two
  <2>2. Held(g) \in Seq(Chan)
    <3>1. 1 \in Chan
      BY NameSpaceAssumption DEF Chan
    <3> QED
      BY <3>1, HeldIs DEF IndInv
  <2>3. t \in ChansType
    <3>1. PICK f \in [0..Len(Held(g)) -> ChansType] : CloseAll(two, Held(g)) = f[Len(Held(g))]
      BY <1>2, <2>2, CloseAllRec
    <3>2. Len(Held(g)) \in 0..Len(Held(g))
      BY <2>2
    <3> QED
      BY <2>1, <3>1, <3>2
  <2>4. ASSUME Fact
        PROVE  Goal
    <3>1. \A z \in Chan : Count(Held(g), z) \in Nat /\ Count(Held(g), z) <= ch.of[z].ref
                          /\ Dropped(g, last, z) = Count(Held(g), z)
      BY <1>4, <2>4 DEF Dropped
    <3>2. \A z \in Chan : Count(Held(g), z) <= two.of[z].ref
      <4>1. \A z \in Chan : two.of[z].ref >= ch.of[z].ref
        BY <1>2, <1>3
      <4> QED
        BY <1>3, <3>1, <4>1
    <3>3. /\ FreeOK(t) /\ SameButRefs(two, t)
          /\ \A z \in Chan : t.of[z].ref = two.of[z].ref - Count(Held(g), z)
      BY <1>2, <2>1, <2>2, <3>2, CloseAllEffect
    <3>4. \A z \in Chan : /\ t.of[z].ref = ch.of[z].ref + (IF z = y THEN 1 ELSE 0) + (IF z = u THEN 1 ELSE 0)
                                             - Dropped(g, last, z)
                          /\ t.of[z].ref > 0 => two.of[z].ref > 0
      <4>1. ASSUME NEW z \in Chan
            PROVE  /\ t.of[z].ref = ch.of[z].ref + (IF z = y THEN 1 ELSE 0) + (IF z = u THEN 1 ELSE 0)
                                      - Dropped(g, last, z)
                   /\ t.of[z].ref > 0 => two.of[z].ref > 0
        <5> DEFINE e == IF z = y THEN 1 ELSE 0
                   f == IF z = u THEN 1 ELSE 0
        <5>1. t.of[z].ref = two.of[z].ref - Count(Held(g), z) /\ two.of[z].ref = ch.of[z].ref + e + f
              /\ e \in Nat /\ f \in Nat
          BY <1>2, <3>3
        <5>2. t.of[z].ref > 0 => two.of[z].ref > 0
          BY <1>3, <3>1, <5>1
        <5> HIDE DEF e, f
        <5>3. t.of[z].ref = (ch.of[z].ref + e + f) - Dropped(g, last, z)
          BY <3>1, <5>1
        <5>4. ch.of[z].ref \in Nat /\ Dropped(g, last, z) \in Nat
          BY <1>3, <3>1
        <5>5. t.of[z].ref = ch.of[z].ref + e + f - Dropped(g, last, z)
          BY <5>1, <5>3, <5>4
        <5> QED
          BY <5>2, <5>5 DEF e, f
      <4> QED
        BY <4>1
    <3>5. \A z \in Chan : /\ t.of[z].file = two.of[z].file /\ t.of[z].mnt = two.of[z].mnt
                          /\ t.of[z].mountid = two.of[z].mountid
      BY <3>3 DEF SameButRefs
    <3>6. ~t.panic
      BY <1>2, <3>3 DEF SameButRefs
    <3> QED
      BY <1>2, <3>3, <3>4, <3>5, <3>6
  <2> QED
    BY <1>2, <2>3, <2>4
<1>5. CASE ~last
  <2>1. t = two /\ \A z : Dropped(g, last, z) = 0
    BY <1>5 DEF two, Dropped
  <2>2. \A z \in Chan : t.of[z].ref = ch.of[z].ref + (IF z = y THEN 1 ELSE 0) + (IF z = u THEN 1 ELSE 0)
                                        - Dropped(g, last, z)
    BY <1>2, <1>3, <2>1
  <2> QED
    BY <1>2, <2>1, <2>2
<1> QED
  BY <1>4, <1>5

(* What the last step of a fork has done. *)
LeaveEdits(p) == \E g, h, last : Leaves(p, g, h, last)

LEMMA ForkIdsKeeps ==
  ASSUME IndInv, Orderly, NEW p \in Proc, ForkIds(p)
  PROVE  IndInv' /\ FilesKept /\ LeaveEdits(p)
<1>s. SUFFICES ASSUME NEW g, NEW h, NEW ms, NEW last, IdsOf(p, g, h, ms, last)
      PROVE  IndInv' /\ FilesKept /\ LeaveEdits(p)
  <2>1. IdsStep(p, grp[p], fork[p].to, fork[p].order, group[grp[p]].ref = 1)
    BY ForkIdsStep
  <2>2. IdsOf(p, grp[p], fork[p].to, fork[p].order, group[grp[p]].ref = 1)
    BY <2>1 DEF IdsOf
  <2> QED
    BY <1>s, <2>2
<1>1. /\ Paired(g, h, ms) /\ Numbered(g, h, ms, NumbersOf(ms))
      /\ last \in BOOLEAN /\ (last <=> Users(g) = {p})
      /\ group[g].slash \in Chan /\ group[g].dot \in Chan
      /\ ch.of[group[g].slash].ref > 0 /\ ch.of[group[g].dot].ref > 0
      /\ \A q \in Proc : grp[q] = g => at[q] # "setdot"
      /\ last => Table(g) \cap Followed(p) = {}
      /\ InTable(g) \in Seq(Mount) /\ ToSet(InTable(g)) = Table(g)
  BY <1>s, IdsHas
<1>2. /\ g = grp[p] /\ h = fork[p].to /\ ms = fork[p].order /\ last = (group[g].ref = 1)
      /\ at[p] = "copied" /\ Enough(2)
      /\ mountid' = mountid + Len(ms)
      /\ mount' = (IF last THEN MountFree(NumbersOf(ms), InTable(g)) ELSE NumbersOf(ms))
      /\ head' = (IF last THEN [head EXCEPT ![g] = [d \in File |-> NoHead]] ELSE head)
      /\ ch' = (IF last THEN CloseAll(TwoOf(g), Held(g)) ELSE TwoOf(g))
      /\ group' = [group EXCEPT ![h] = [ref |-> 1, slash |-> ch.free[1], dot |-> ch.free[2]],
                                ![g] = IF last THEN NoGroup ELSE [group[g] EXCEPT !.ref = @ - 1]]
      /\ grp' = [grp EXCEPT ![p] = h]
      /\ fork' = [fork EXCEPT ![p] = [to |-> h, order |-> <<>>]]
      /\ Return(p)
      /\ UNCHANGED <<fd, job, walking, left>>
  BY <1>s DEF IdsOf, IdsStep
<1>3. TypeOK /\ RefsExact /\ Private /\ ListInv /\ GroupInv /\ ChanInv
  BY DEF IndInv
<1>4. g \in Group /\ h \in Group /\ g # h /\ Users(h) = {} /\ ms \in Seq(Mount) /\ ToSet(ms) = Table(g)
  BY <1>1 DEF Paired
<1>5. /\ OthersKeep(p) /\ at'[p] = "idle" /\ got'[p] = <<>> /\ Calling(p)'
      /\ at' \in [Proc -> Labels] /\ got' \in [Proc -> Seq(Chan)] /\ \A q \in Proc : Len(got'[q]) <= 2
  BY <1>2, ReturnIs DEF walking
<1>s2. SUFFICES ASSUME NEW y, NEW u, y = ch.free[1], u = ch.free[2]
       PROVE  IndInv' /\ FilesKept /\ LeaveEdits(p)
  OBVIOUS
<1>6. /\ y \in Chan /\ u \in Chan /\ y # u /\ ch.of[y].ref = 0 /\ ch.of[u].ref = 0
      /\ ch' \in ChansType
      /\ (\A z \in Chan : Dropped(g, last, z) \in Nat /\ Dropped(g, last, z) <= ch.of[z].ref) =>
           /\ FreeOK(ch') /\ ~ch'.panic
           /\ \A z \in Chan :
                /\ ch'.of[z].ref = ch.of[z].ref + (IF z = y THEN 1 ELSE 0) + (IF z = u THEN 1 ELSE 0)
                                   - Dropped(g, last, z)
                /\ ch'.of[z].ref > 0 => ch'.of[z].file \in File
                /\ ch.of[z].ref > 0 => /\ ch'.of[z].file = ch.of[z].file /\ ch'.of[z].mnt = ch.of[z].mnt
                                       /\ ch'.of[z].mountid = ch.of[z].mountid
  <2> DEFINE t == ch'
  <2>1. t = (IF last THEN CloseAll(TwoOf(g), Held(g)) ELSE TwoOf(g))
    BY <1>2
  <2> HIDE DEF t
  <2>2. ChansStep(g, last, y, u, t)
    BY <1>1, <1>2, <1>4, <1>s2, <2>1 DEF ChansStep
  <2>3. ChansAre(g, last, y, u, t)
    BY <2>2, IdsChans
  <2> QED
    BY <2>3 DEF t, ChansAre
<1>7. /\ mount' \in MountsType /\ head' \in [Group -> [File -> HeadType]]
      /\ Len(ms) \in Nat
      /\ \A k \in Group, d \in File : head'[k][d] = IF last /\ k = g THEN NoHead ELSE head[k][d]
      /\ \A m \in Mount :
           /\ mount'[m].next = mount[m].next /\ mount'[m].to = mount[m].to /\ mount'[m].copy = mount[m].copy
           /\ mount'[m].live <=> mount[m].live /\ ~(last /\ m \in Table(g))
           /\ m \notin Table(h) /\ ~(last /\ m \in Table(g)) => mount'[m].mountid = mount[m].mountid
      /\ \A m \in Table(h) : mount'[m].mountid <= mountid + Len(ms)
      /\ \A m, l \in Table(h) : m # l => mount'[m].mountid # mount'[l].mountid
  <2> DEFINE mu == mount'
             hd == head'
  <2>1. /\ mu = (IF last THEN MountFree(NumbersOf(ms), InTable(g)) ELSE NumbersOf(ms))
        /\ hd = (IF last THEN [head EXCEPT ![g] = [d \in File |-> NoHead]] ELSE head)
    BY <1>2
  <2> HIDE DEF mu, hd
  <2>2. TablesStep(g, h, ms, last, mu, hd)
    BY <1>1, <2>1 DEF TablesStep
  <2>3. TablesAre(g, h, ms, last, mu, hd)
    BY <1>3, <2>2, IdsTables
  <2> QED
    BY <2>3 DEF mu, hd, TablesAre
<1>8. /\ group' \in [Group -> [ref : Nat, slash : Chan \cup {Nil}, dot : Chan \cup {Nil}]]
      /\ group'[h].ref = 1 /\ group'[h].slash = y /\ group'[h].dot = u
      /\ group'[g].ref = group[g].ref - 1
      /\ group'[g].slash = IF last THEN Nil ELSE group[g].slash
      /\ group'[g].dot = IF last THEN Nil ELSE group[g].dot
      /\ \A k \in Group : k # g /\ k # h => group'[k] = group[k]
  <2> DEFINE gu == group'
  <2>1. gu = [group EXCEPT ![h] = [ref |-> 1, slash |-> y, dot |-> u],
                           ![g] = IF last THEN NoGroup ELSE [group[g] EXCEPT !.ref = @ - 1]]
    BY <1>2, <1>s2
  <2>2. group[g].ref >= 1
    <3>1. p \in Users(g)
      BY <1>2 DEF Users
    <3>2. IsFiniteSet(Users(g))
      BY NameSpaceAssumption, FS_Subset DEF Users
    <3>3. Cardinality(Users(g)) >= 1 /\ Cardinality(Users(g)) \in Nat
      BY <3>1, <3>2, OneOf
    <3>4. group[g].ref = Cardinality(Users(g)) + IF Grows(g) THEN 1 ELSE 0
      BY <1>3, <1>4 DEF GroupInv
    <3> HIDE DEF Users
    <3> QED
      BY <3>3, <3>4
  <2>3. last <=> group[g].ref = 1
    BY <1>2
  <2> HIDE DEF gu
  <2>4. /\ gu \in [Group -> [ref : Nat, slash : Chan \cup {Nil}, dot : Chan \cup {Nil}]]
        /\ gu[h].ref = 1 /\ gu[h].slash = y /\ gu[h].dot = u
        /\ gu[g].ref = group[g].ref - 1
        /\ gu[g].slash = IF last THEN Nil ELSE group[g].slash
        /\ gu[g].dot = IF last THEN Nil ELSE group[g].dot
        /\ \A k \in Group : k # g /\ k # h => gu[k] = group[k]
    <3>1. /\ TypeOK /\ g \in Group /\ h \in Group /\ g # h
          /\ last \in BOOLEAN /\ y \in Chan /\ u \in Chan
      BY <1>1, <1>3, <1>4, <1>6
    <3> QED
      BY <2>1, <2>2, <2>3, <3>1, IdsGroups
  <2> QED
    BY <2>4 DEF gu
<1>9. /\ grp' \in [Proc -> Group] /\ grp'[p] = h /\ \A q \in Proc \ {p} : grp'[q] = grp[q]
      /\ fork' \in [Proc -> [to : Group, order : Seq(Mount)]] /\ \A q \in Proc \ {p} : fork'[q] = fork[q]
      /\ mountid' \in Nat /\ mountid <= mountid' /\ mountid' = mountid + Len(ms)
  <2>1. [to |-> h, order |-> <<>>] \in [to : Group, order : Seq(Mount)]
    BY <1>4
  <2>2. mountid \in Nat
    BY <1>3 DEF TypeOK
  <2>3. mountid' = mountid + Len(ms) /\ Len(ms) \in Nat
    BY <1>2, <1>7
  <2>4. grp \in [Proc -> Group] /\ fork \in [Proc -> [to : Group, order : Seq(Mount)]]
    BY <1>3 DEF TypeOK
  <2>5. grp' \in [Proc -> Group] /\ grp'[p] = h /\ \A q \in Proc \ {p} : grp'[q] = grp[q]
    BY <1>2, <1>4, <2>4
  <2>6. fork' \in [Proc -> [to : Group, order : Seq(Mount)]] /\ \A q \in Proc \ {p} : fork'[q] = fork[q]
    BY <1>2, <2>1, <2>4
  <2> QED
    BY <2>2, <2>3, <2>5, <2>6
<1>10. TypeOK'
  <2>1. job' = job /\ fd' = fd /\ left' = left /\ name' = name /\ c' = c /\ w' = w
    BY <1>2 DEF walking
  <2>2. /\ fd' \in [Proc -> Chan \cup {Nil}] /\ left' \in [Proc -> Nat]
        /\ name' \in [Proc -> Seq(Elem)]
        /\ c' \in [Proc -> Chan \cup {Nil}] /\ w' \in [Proc -> Chan \cup {Nil}]
    BY <1>3, <2>1 DEF TypeOK
  <2>3. job' = [q \in Proc |-> job'[q]]
    <3>1. job = [q \in Proc |-> job[q]]
      BY <1>3 DEF TypeOK
    <3> QED
      BY <2>1, <3>1
  <2>4. ch' \in [of : [Chan -> [ref : Nat, file : File \cup {None}, mnt : Mount \cup {Nil},
                                   mountid : Nat]],
                    free : Seq(Chan), panic : BOOLEAN]
    BY <1>6 DEF ChansType, ChanType
  <2>5. /\ mount' \in [Mount -> [mountid : Nat, next : Mount \cup {Nil}, to : Chan \cup {Nil},
                                 copy : Mount \cup {Nil}, live : BOOLEAN]]
        /\ head' \in [Group -> [File -> [from : Chan \cup {Nil}, mount : Mount \cup {Nil}]]]
    BY <1>7 DEF MountsType, HeadType
  <2> QED
    BY <1>5, <1>8, <1>9, <2>2, <2>3, <2>4, <2>5 DEF TypeOK
<1>11. Leaves(p, g, h, last)
  <2>1. /\ g = grp[p] /\ h = fork[p].to /\ g \in Group /\ h \in Group /\ g # h /\ Users(h) = {}
        /\ at[p] = "copied" /\ (last <=> Users(g) = {p})
    BY <1>1, <1>2, <1>4
  <2>2. \A q \in Proc \ {p} : grp'[q] = grp[q] /\ fork'[q] = fork[q]
    BY <1>9
  <2>3. \A m \in Table(h) : mount'[m].mountid <= mountid'
    BY <1>7, <1>9
  <2>4. mountid <= mountid' /\ grp'[p] = h
    BY <1>9
  <2> QED
    BY <1>5, <1>7, <2>1, <2>2, <2>3, <2>4, Zenon DEF Leaves
<1>12. LeavesGroups(g, h, last)
  BY <1>6, <1>8 DEF LeavesGroups
<1>13. LeavesWith(p, g, h, last, y, u)
  BY <1>1, <1>8, <1>11, <1>12 DEF LeavesWith
<1>14. GroupInv' /\ BetweenInv'
  BY <1>10, <1>11, <1>12, LeavesKeepsGroups
<1>15. /\ ListInv' /\ IdInv' /\ CopyInv'
       /\ \A k \in Group : Users(k) # {} /\ ~(last /\ k = g) =>
            Users(k)' # {} /\ \A m \in Table(k) : KeepsMount(k, m)
  BY <1>10, <1>11, LeavesMounts
<1>16. ASSUME NEW z \in Chan
       PROVE  /\ InTables(z) \in Nat /\ InTables(z)' \in Nat /\ Dropped(g, last, z) \in Nat
              /\ InTables(z)' + Dropped(g, last, z)
                   = InTables(z) + (IF y = z THEN 1 ELSE 0) + (IF u = z THEN 1 ELSE 0)
              /\ Dropped(g, last, z) <= InTables(z)
              /\ InTables(z) <= ch.of[z].ref
  <2>1. /\ InTables(z) \in Nat /\ InTables(z)' \in Nat /\ Dropped(g, last, z) \in Nat
        /\ InTables(z)' + Dropped(g, last, z)
             = InTables(z) + (IF y = z THEN 1 ELSE 0) + (IF u = z THEN 1 ELSE 0)
        /\ Dropped(g, last, z) <= InTables(z)
    BY <1>10, <1>13, LeavesRefs
  <2>2. InTables(z) <= ch.of[z].ref
    <3> DEFINE a == Cardinality(FdsOf(z))
               b == Cardinality(WalksOf(z))
               d == Cardinality(GotOf(1, z))
               e == Cardinality(GotOf(2, z))
    <3>1. ch.of[z].ref = InTables(z) + a + b + d + e
      BY <1>3 DEF RefsExact, Refs, InTables
    <3>2. a \in Nat /\ b \in Nat /\ d \in Nat /\ e \in Nat
      BY <1>3, RefsType
    <3> HIDE DEF a, b, d, e
    <3> QED
      BY <2>1, <3>1, <3>2
  <2> QED
    BY <2>1, <2>2
<1>17. \A z \in Chan : Dropped(g, last, z) \in Nat /\ Dropped(g, last, z) <= ch.of[z].ref
  BY <1>3, <1>16 DEF TypeOK
<1>18. /\ FreeOK(ch') /\ ~ch'.panic
       /\ \A z \in Chan :
            /\ ch'.of[z].ref = ch.of[z].ref + (IF z = y THEN 1 ELSE 0) + (IF z = u THEN 1 ELSE 0)
                               - Dropped(g, last, z)
            /\ ch'.of[z].ref > 0 => ch'.of[z].file \in File
            /\ ch.of[z].ref > 0 => SameFields(z)
  BY <1>6, <1>17 DEF SameFields
<1>19. \A z : Own(p, z)' = Own(p, z) /\ Own(p, z) \in Nat
  <2>1. got[p] = <<>>
    <3>1. job[p].op = "fork" /\ Len(got[p]) <= Len(Names(job[p])) /\ job[p] \in Calls[p]
      BY <1>2 DEF IndInv, CallInv, Calling
    <3>2. Len(Names(job[p])) = 0
      BY <3>1 DEF Names
    <3>3. got[p] \in Seq(Chan)
      BY <1>3 DEF TypeOK
    <3> QED
      BY <3>1, <3>2, <3>3
  <2> QED
    BY <1>2, <1>5, <2>1 DEF Own, HasWalk, walking
<1>20. ASSUME NEW z \in Chan
       PROVE  /\ ch'.of[z].ref > 0 => ch'.of[z].file \in File
              /\ ch'.of[z].ref + InTables(z) + Own(p, z) = ch.of[z].ref + InTables(z)' + Own(p, z)'
              /\ ch.of[z].ref > 0 => SameFields(z)
              /\ z = fd[p] \/ (\E q \in Proc \ {p} : Own(q, z) > 0) => ~(ch'.of[z].ref > 1)
  <2> DEFINE k == ch.of[z].ref
             kk == ch'.of[z].ref
             v == InTables(z)
             vv == InTables(z)'
             o == Own(p, z)
             oo == Own(p, z)'
             l == Dropped(g, last, z)
             e == IF z = y THEN 1 ELSE 0
             f == IF z = u THEN 1 ELSE 0
  <2>1. /\ kk = k + e + f - l /\ k \in Nat /\ v \in Nat /\ vv \in Nat /\ l \in Nat /\ vv + l = v + e + f
        /\ o = oo /\ o \in Nat /\ e \in Nat /\ f \in Nat
    BY <1>3, <1>16, <1>18, <1>19 DEF TypeOK
  <2>2. k = 1 => e = 0 /\ f = 0
    BY <1>6
  <2>4. z = fd[p] => Own(p, z) > 0
    BY <1>3, OwnsThem, NameSpaceAssumption DEF Chan, Nil
  <2>5. \A q \in Proc : Own(q, z) > 0 => k = 1
    BY <1>3, OwnAlone
  <2> HIDE DEF k, kk, v, vv, o, oo, l, e, f
  <2>6. /\ kk + v + o = k + vv + oo
        /\ k = 1 => ~(kk > 1)
    BY <2>1, <2>2
  <2> QED
    BY <1>18, <2>4, <2>5, <2>6 DEF k, kk, v, vv, o, oo
<1>21. at[p] \notin HasWalk /\ fd' = fd /\ w' = w
  BY <1>2 DEF HasWalk, walking
<1>22. \A k \in Group : Users(k) # {} => \A m \in Table(k) \cap Followed(p) :
         Users(k)' # {} /\ KeepsMount(k, m)
  BY <1>1, <1>15
<1>23. IndInv' /\ FilesKept
  BY <1>5, <1>9, <1>10, <1>14, <1>15, <1>18, <1>20, <1>21, <1>22, TableStep
<1>24. LeaveEdits(p)
  BY <1>11 DEF LeaveEdits
<1> QED
  BY <1>23, <1>24

-----------------------------------------------------------------------------
(* At first. *)
First1 == CHOOSE h \in Group : TRUE

LEMMA InitType ==
  ASSUME Init
  PROVE  TypeOK
<1>1. First1 \in Group /\ NChan \in Nat /\ NChan >= 2 /\ NMount \in Nat /\ MaxCalls \in Nat /\ Root \in File
  BY NameSpaceAssumption DEF First1
<1>2. \A x \in Chan : (IF x <= 2 THEN [NoChan EXCEPT !.ref = 1, !.file = Root] ELSE NoChan)
        \in [ref : Nat, file : File \cup {None}, mnt : Mount \cup {Nil}, mountid : Nat]
  BY <1>1 DEF NoChan
<1>3. ch.of \in [Chan -> [ref : Nat, file : File \cup {None}, mnt : Mount \cup {Nil}, mountid : Nat]]
  BY <1>2 DEF Init
<1>4. ch.free \in Seq(Chan)
  <2>1. NChan - 2 \in Nat /\ \A i \in 1..(NChan - 2) : i + 2 \in Chan
    BY <1>1 DEF Chan
  <2>2. [i \in 1..(NChan - 2) |-> i + 2] \in Seq(Chan)
    BY <2>1
  <2> QED
    BY <2>2 DEF Init
<1>5. ch \in [of : [Chan -> [ref : Nat, file : File \cup {None}, mnt : Mount \cup {Nil}, mountid : Nat]],
              free : Seq(Chan), panic : BOOLEAN]
  BY <1>3, <1>4 DEF Init
<1>6. mount \in [Mount -> [mountid : Nat, next : Mount \cup {Nil}, to : Chan \cup {Nil},
                           copy : Mount \cup {Nil}, live : BOOLEAN]]
  BY DEF Init, NoMount
<1>7. head \in [Group -> [File -> [from : Chan \cup {Nil}, mount : Mount \cup {Nil}]]]
  BY DEF Init, NoHead
<1>8. group \in [Group -> [ref : Nat, slash : Chan \cup {Nil}, dot : Chan \cup {Nil}]]
  <2>1. Cardinality(Proc) \in Nat
    BY NameSpaceAssumption, FS_CardinalityType
  <2>2. 1 \in Chan /\ 2 \in Chan
    BY <1>1 DEF Chan
  <2> QED
    BY <2>1, <2>2 DEF Init, NoGroup
<1>9. grp \in [Proc -> Group] /\ fork \in [Proc -> [to : Group, order : Seq(Mount)]]
  BY <1>1 DEF Init, First1
<1>10. /\ mountid \in Nat /\ fd \in [Proc -> Chan \cup {Nil}]
       /\ at \in [Proc -> Labels] /\ job = [p \in Proc |-> job[p]]
       /\ name \in [Proc -> Seq(Elem)]
       /\ c \in [Proc -> Chan \cup {Nil}] /\ w \in [Proc -> Chan \cup {Nil}]
       /\ got \in [Proc -> Seq(Chan)] /\ \A p \in Proc : Len(got[p]) <= 2
       /\ left \in [Proc -> Nat]
  BY <1>1 DEF Init, Labels
<1> QED
  BY <1>5, <1>6, <1>7, <1>8, <1>9, <1>10 DEF TypeOK

LEMMA InitChans ==
  ASSUME Init, TypeOK
  PROVE  ChanInv /\ RefsExact /\ Private
<1>1. First1 \in Group /\ NChan \in Nat /\ NChan >= 2 /\ Root \in File
  BY NameSpaceAssumption DEF First1
<1>2. \A x \in Chan : /\ ch.of[x].ref = IF x <= 2 THEN 1 ELSE 0
                      /\ x <= 2 => ch.of[x].file = Root
  BY DEF Init, NoChan
<1>3. ch.free = [i \in 1..(NChan - 2) |-> i + 2] /\ ~ch.panic
  BY DEF Init
<1>4. IsInjective(ch.free) /\ \A x \in Chan : x \in ToSet(ch.free) <=> ~(x <= 2)
  <2>1. NChan - 2 \in Nat /\ ch.free \in Seq(Chan) /\ Len(ch.free) = NChan - 2
    <3>1. NChan - 2 \in Nat
      BY <1>1
    <3>2. \A i \in 1..(NChan - 2) : i + 2 \in Chan
      BY <1>1 DEF Chan
    <3>s. SUFFICES ASSUME NEW k \in Nat, k = NChan - 2
          PROVE  ch.free \in Seq(Chan) /\ Len(ch.free) = k
      BY <3>1
    <3>3. ch.free = [i \in 1..k |-> i + 2] /\ \A i \in 1..k : i + 2 \in Chan
      BY <1>3, <3>2, <3>s
    <3> QED
      BY <3>3
  <2>2. \A i \in 1..(NChan - 2) : ch.free[i] = i + 2
    BY <1>3
  <2>3. \A x \in Chan : ~(x <= 2) => x - 2 \in 1..(NChan - 2) /\ (x - 2) + 2 = x
    BY <1>1 DEF Chan
  <2>4. \A i \in 1..(NChan - 2) : ~(i + 2 <= 2)
    OBVIOUS
  <2>5. ToSet(ch.free) = {ch.free[i] : i \in 1..(NChan - 2)}
    BY <2>1, SeqIs
  <2>6. \A i, j \in 1..(NChan - 2) : ch.free[i] = ch.free[j] => i = j
    BY <2>2
  <2>7. IsInjective(ch.free)
    BY <2>1, <2>6, InjIs
  <2> QED
    BY <2>2, <2>3, <2>4, <2>5, <2>7
<1>5. ChanInv
  BY <1>1, <1>2, <1>3, <1>4 DEF ChanInv
<1>6. ASSUME NEW x \in Chan
      PROVE  ch.of[x].ref = Refs(x)
  <2>1. x # Nil /\ x \in Nat /\ x >= 1
    BY <1>1 DEF Chan, Nil
  <2>2. MountsTo(x) = {} /\ HeadsOf(x) = {} /\ FdsOf(x) = {} /\ WalksOf(x) = {}
    <3>1. \A m \in Mount : ~mount[m].live
      BY DEF Init, NoMount
    <3>2. \A g \in Group, d \in File : head[g][d].from = Nil
      BY DEF Init, NoHead
    <3>3. \A p \in Proc : fd[p] = Nil /\ at[p] = "idle"
      BY DEF Init
    <3> QED
      BY <2>1, <3>1, <3>2, <3>3 DEF MountsTo, HeadsOf, FdsOf, WalksOf, HasWalk
  <2>3. GotOf(1, x) = {} /\ GotOf(2, x) = {}
    <3>1. \A p \in Proc : Len(got[p]) = 0
      BY DEF Init
    <3> QED
      BY <3>1 DEF GotOf
  <2>4. SlashesOf(x) = (IF x = 1 THEN {First1} ELSE {}) /\ DotsOf(x) = (IF x = 2 THEN {First1} ELSE {})
    <3>1. /\ group[First1].slash = 1 /\ group[First1].dot = 2
          /\ \A g \in Group : g # First1 => group[g].slash = Nil /\ group[g].dot = Nil
      BY <1>1 DEF Init, NoGroup, First1
    <3>2. \A p \in Proc : at[p] # "setdot"
      BY DEF Init
    <3> QED
      BY <1>1, <2>1, <3>1, <3>2 DEF SlashesOf, DotsOf
  <2>5. Cardinality({}) = 0 /\ Cardinality({First1}) = 1
    BY FS_EmptySet, FS_Singleton
  <2>6. x <= 2 <=> x = 1 \/ x = 2
    BY <2>1
  <2> QED
    BY <1>2, <2>2, <2>3, <2>4, <2>5, <2>6 DEF Refs
<1>7. RefsExact
  BY <1>6 DEF RefsExact
<1>8. Private
  BY <1>2 DEF Private
<1> QED
  BY <1>5, <1>7, <1>8

LEMMA InitInv ==
  ASSUME Init
  PROVE  IndInv
<1>1. TypeOK
  BY InitType
<1>2. ChanInv /\ RefsExact /\ Private
  BY <1>1, InitChans
<1>3. First1 \in Group /\ Proc # {} /\ IsFiniteSet(Proc)
  BY NameSpaceAssumption DEF First1
<1>4. \A p \in Proc : /\ at[p] = "idle" /\ got[p] = <<>> /\ fd[p] = Nil /\ grp[p] = First1
                      /\ Len(got[p]) = 0
  BY DEF Init, First1
<1>5. \A g \in Group, d \in File : head[g][d] = NoHead
  BY DEF Init
<1>6. \A g \in Group, d \in File : List(g, d) = <<>>
  BY <1>5, NoList DEF List, ListFrom, NoHead
<1>7. ToSet(<<>>) = {} /\ Len(<<>>) = 0 /\ <<>> \in Seq(Mount) /\ IsInjective(<<>>)
  BY DEF ToSet, IsInjective
<1>8. \A g \in Group : (\A d \in File : MountsOn(g, d) = {}) /\ Table(g) = {}
  BY <1>6, <1>7 DEF MountsOn, Table
<1>9. ListInv
  <2>1. \A m \in Mount : ~mount[m].live
    BY DEF Init, NoMount
  <2>2. \A g \in Group, d \in File : IsList(mount, List(g, d), head[g][d].mount)
    <3>1. Nil = IF <<>> = <<>> THEN Nil ELSE <<>>[1]
      OBVIOUS
    <3>2. \A i \in 1..Len(<<>>) : mount[<<>>[i]].next = IF i = Len(<<>>) THEN Nil ELSE <<>>[i + 1]
      BY <1>7
    <3>3. IsList(mount, <<>>, Nil)
      BY <1>7, <3>1, <3>2 DEF IsList
    <3> QED
      BY <1>5, <1>6, <3>3 DEF NoHead
  <2>3. \A g \in Group, d \in File : head[g][d].from = Nil <=> head[g][d].mount = Nil
    BY <1>5 DEF NoHead
  <2> QED
    BY <1>8, <2>1, <2>2, <2>3 DEF ListInv
<1>10. GroupInv
  <2>1. \A g \in Group : Users(g) = IF g = First1 THEN Proc ELSE {}
    BY <1>4 DEF Users
  <2>2. \A g : ~Grows(g)
    BY <1>4 DEF Grows
  <2>3. \A g \in Group : group[g] = IF g = First1 THEN [ref |-> Cardinality(Proc), slash |-> 1, dot |-> 2]
                                                  ELSE NoGroup
    BY DEF Init, First1
  <2>4. 1 \in Chan /\ 2 \in Chan
    BY NameSpaceAssumption DEF Chan
  <2>5. Cardinality({}) = 0 /\ Cardinality(Proc) \in Nat
    BY <1>3, FS_EmptySet, FS_CardinalityType
  <2>6. \A p \in Proc : at[p] # "copied"
    BY <1>4
  <2>7. ASSUME NEW g \in Group
        PROVE  /\ group[g].ref = Cardinality(Users(g)) + IF Grows(g) THEN 1 ELSE 0
               /\ Users(g) # {} => group[g].slash \in Chan /\ group[g].dot \in Chan
               /\ Users(g) = {} => group[g].slash = Nil /\ group[g].dot = Nil
               /\ Users(g) = {} /\ ~Grows(g) => \A d \in File : head[g][d] = NoHead
    <3>1. CASE g = First1
      <4>1. Users(g) = Proc /\ group[g].ref = Cardinality(Proc) /\ group[g].slash = 1 /\ group[g].dot = 2
        BY <2>1, <2>3, <3>1
      <4> QED
        BY <1>3, <2>2, <2>4, <2>5, <4>1
    <3>2. CASE g # First1
      <4>1. Users(g) = {} /\ group[g].ref = 0 /\ group[g].slash = Nil /\ group[g].dot = Nil
        BY <2>1, <2>3, <3>2 DEF NoGroup
      <4> QED
        BY <1>5, <2>2, <2>5, <4>1
    <3> QED
      BY <3>1, <3>2
  <2> QED
    BY <2>6, <2>7 DEF GroupInv
<1>11. CallInv
  BY <1>4 DEF CallInv, Calling, HasWalk
<1>12. BetweenInv
  BY <1>4 DEF BetweenInv, Between
<1>13. IdInv
  BY <1>8 DEF IdInv
<1>14. CopyInv
  BY <1>4 DEF CopyInv, Copying
<1>15. ShowsInv
  BY <1>4 DEF ShowsInv, Showing, FdShows
<1> QED
  BY <1>1, <1>2, <1>9, <1>10, <1>11, <1>12, <1>13, <1>14, <1>15 DEF IndInv

LEMMA StutterKeeps ==
  ASSUME IndInv, UNCHANGED vars
  PROVE  IndInv' /\ FilesKept
<1>1. /\ ch' = ch /\ mount' = mount /\ head' = head /\ group' = group /\ mountid' = mountid
      /\ grp' = grp /\ fd' = fd /\ at' = at /\ job' = job /\ name' = name /\ c' = c /\ w' = w
      /\ got' = got /\ fork' = fork /\ left' = left
  BY DEF vars, tables, walking
<1>2. TypeOK' /\ ChanInv'
  BY <1>1 DEF IndInv, TypeOK, ChanInv
<1>3. /\ \A x : MountsTo(x)' = MountsTo(x) /\ HeadsOf(x)' = HeadsOf(x)
      /\ \A x : SlashesOf(x)' = SlashesOf(x) /\ DotsOf(x)' = DotsOf(x)
      /\ \A x : FdsOf(x)' = FdsOf(x) /\ WalksOf(x)' = WalksOf(x)
      /\ \A i, x : GotOf(i, x)' = GotOf(i, x)
  BY <1>1 DEF MountsTo, To, HeadsOf, SlashesOf, DotsOf, FdsOf, WalksOf, GotOf
<1>4. RefsExact' /\ Private'
  <2>1. \A x : Refs(x)' = Refs(x)
    BY <1>3 DEF Refs
  <2>2. RefsExact'
    BY <1>1, <2>1 DEF IndInv, RefsExact
  <2>3. Private'
    BY <1>1, <1>3 DEF IndInv, Private
  <2> QED
    BY <2>2, <2>3
<1>5. /\ \A g, d : List(g, d)' = List(g, d) /\ MountsOn(g, d)' = MountsOn(g, d)
      /\ \A g : Table(g)' = Table(g) /\ Users(g)' = Users(g) /\ (Grows(g)' <=> Grows(g))
      /\ \A m : To(m)' = To(m)
  BY <1>1 DEF List, ListFrom, MountsOn, Table, Users, Grows, To
<1>6. ListInv'
  BY <1>1, <1>5 DEF IndInv, ListInv, IsList
<1>7. GroupInv'
  BY <1>1, <1>5 DEF IndInv, GroupInv
<1>8. CallInv' /\ BetweenInv'
  BY <1>1 DEF IndInv, CallInv, Calling, BetweenInv, Between
<1>9. IdInv' /\ CopyInv'
  BY <1>1, <1>5 DEF IndInv, IdInv, CopyInv, Copying
<1>10. ShowsInv'
  BY <1>1, <1>5 DEF IndInv, ShowsInv, Showing, FdShows, GotShows, ShowsIn, FileOf
<1>11. FilesKept
  BY <1>1 DEF FilesKept
<1> QED
  BY <1>2, <1>4, <1>6, <1>7, <1>8, <1>9, <1>10, <1>11 DEF IndInv

LEMMA NextKeeps ==
  ASSUME IndInv, Orderly, Next
  PROVE  IndInv' /\ FilesKept
<1>1. PICK p \in Proc :
        \/ \E q \in Calls[p] : Ask(p, q)
        \/ Start(p) \/ DoMount(p) \/ Walk(p) \/ WalkUnion(p) \/ WalkFails(p) \/ Walked(p)
        \/ Undo(p, "undo", "unclone", "dev") \/ Unclone(p, "unclone", "dev")
        \/ Undo(p, "undo2", "unclone2", "walked") \/ Unclone(p, "unclone2", "walked")
        \/ Bind(p) \/ Unmount(p) \/ Refuse(p)
        \/ Open(p) \/ CloseFd(p) \/ Read(p) \/ ReadFile(p)
        \/ ChdirClose(p) \/ ChdirSet(p)
        \/ ForkCopy(p) \/ ForkIds(p)
  BY DEF Next
<1>2. CASE \E q \in Calls[p] : Ask(p, q)
  BY <1>2, AskKeeps
<1>3. CASE Start(p) \/ DoMount(p)
  BY <1>3, StartKeeps, DoMountKeeps
<1>4. CASE Walk(p) \/ WalkUnion(p) \/ WalkFails(p) \/ Walked(p)
  BY <1>4, WalkKeeps, WalkUnionKeeps, WalkFailsKeeps, WalkedKeeps
<1>5. CASE Undo(p, "undo", "unclone", "dev") \/ Undo(p, "undo2", "unclone2", "walked")
  BY <1>5, UndoKeeps
<1>6. CASE Unclone(p, "unclone", "dev") \/ Unclone(p, "unclone2", "walked")
  BY <1>6, UncloneKeeps
<1>7. CASE Bind(p) \/ Unmount(p) \/ Refuse(p)
  BY <1>7, BindKeeps, UnmountKeeps, RefuseKeeps
<1>8. CASE Open(p) \/ CloseFd(p) \/ Read(p) \/ ReadFile(p)
  BY <1>8, OpenKeeps, CloseFdKeeps, ReadKeeps, ReadFileKeeps
<1>9. CASE ChdirClose(p) \/ ChdirSet(p)
  BY <1>9, ChdirCloseKeeps, ChdirSetKeeps
<1>10. CASE ForkCopy(p) \/ ForkIds(p)
  BY <1>10, ForkCopyKeeps, ForkIdsKeeps
<1> QED
  BY Zenon, <1>1, <1>2, <1>3, <1>4, <1>5, <1>6, <1>7, <1>8, <1>9, <1>10

-----------------------------------------------------------------------------
(* The theorems. *)

(* If progs do not remove mounts that others use, copy one group together  *)
(* or race for its current directory, every call that binds, unmounts,     *)
(* walks, reads, closes or forks keeps the whole invariant: the counts of  *)
(* cclose, the lists of mounts, the groups and the ids of the mounts.      *)
THEOREM Inductive == Orderly => (Spec => []IndInv)
<1>1. Orderly /\ IndInv /\ [Next]_vars => IndInv'
  BY NextKeeps, StutterKeeps
<1> SUFFICES ASSUME Orderly PROVE Spec => []IndInv
  OBVIOUS
<1>2. IndInv /\ [Next]_vars => IndInv'
  BY <1>1
<1>3. Init => IndInv
  BY InitInv
<1> QED
  BY <1>2, <1>3, PTL DEF Spec

(* The fields of channels, mounts, heads and groups keep their types: no   *)
(* count of decref goes below zero and no pointer leads out of the tables. *)
THEOREM TypeCorrect == Orderly => (Spec => []TypeOK)
<1> SUFFICES ASSUME Orderly PROVE Spec => []TypeOK
  OBVIOUS
<1>1. Spec => []IndInv
  BY Inductive
<1>2. IndInv => TypeOK
  BY DEF IndInv
<1> QED
  BY <1>1, <1>2, PTL

(* incref, cclose and mountfree agree: each channel counts the mounts,     *)
(* heads, groups, open files and calls that have it, so that none is       *)
(* closed while it is used and none stays open that nobody has.            *)
THEOREM EveryReference == Orderly => (Spec => []RefsExact)
<1> SUFFICES ASSUME Orderly PROVE Spec => []RefsExact
  OBVIOUS
<1>1. Spec => []IndInv
  BY Inductive
<1>2. IndInv => RefsExact
  BY DEF IndInv
<1> QED
  BY <1>1, <1>2, PTL

(* cclose never panics: no path of namec, cmount, cunmount, kchdir or      *)
(* closepgrp closes a channel that has been freed.                         *)
THEOREM NothingClosedTwice == Orderly => (Spec => []NoClosePanic)
<1> SUFFICES ASSUME Orderly PROVE Spec => []NoClosePanic
  OBVIOUS
<1>1. Spec => []IndInv
  BY Inductive
<1>2. IndInv => NoClosePanic
  BY DEF IndInv, ChanInv, NoClosePanic
<1> QED
  BY <1>1, <1>2, PTL

-----------------------------------------------------------------------------
(* The ids of a copy. *)

(* Where the others are is not for a step of r to change. *)
Goes(r) == at[r] # "copied" /\ \E v : at' = [at EXCEPT ![r] = v]

LEMMA WalkGoes ==
  ASSUME NEW r \in Proc, Start(r) \/ DoMount(r) \/ Walk(r) \/ WalkUnion(r) \/ WalkFails(r) \/ Walked(r)
  PROVE  Goes(r)
<1>1. \A x, rest : Proceed(r, x, rest) => \E v : at' = [at EXCEPT ![r] = v]
  BY Zenon DEF Proceed
<1>2. \A x : Onward(r, x) => \E v : at' = [at EXCEPT ![r] = v]
  BY <1>1, Zenon DEF Onward
<1>3. CASE Start(r)
  <2>1. at[r] = "op"
    BY <1>3 DEF Start
  <2>2. \E v : at' = [at EXCEPT ![r] = v]
    BY <1>1, <1>3, Zenon DEF Start
  <2> QED
    BY <2>1, <2>2 DEF Goes
<1>4. CASE DoMount(r)
  <2>1. at[r] = "domount"
    BY <1>4 DEF DoMount
  <2>2. \E v : at' = [at EXCEPT ![r] = v]
    BY <1>1, <1>4, Zenon DEF DoMount
  <2> QED
    BY <2>1, <2>2 DEF Goes
<1>5. CASE Walk(r)
  <2>1. at[r] = "dev"
    BY <1>5 DEF Walk
  <2>2. \E v : at' = [at EXCEPT ![r] = v]
    BY <1>2, <1>5, Zenon DEF Walk
  <2> QED
    BY <2>1, <2>2 DEF Goes
<1>6. CASE WalkUnion(r)
  <2>1. at[r] = "dev"
    BY <1>6 DEF WalkUnion
  <2>2. \E v : at' = [at EXCEPT ![r] = v]
    BY <1>2, <1>6, Zenon DEF WalkUnion
  <2> QED
    BY <2>1, <2>2 DEF Goes
<1>7. CASE WalkFails(r)
  BY <1>7 DEF WalkFails, Goes
<1>8. CASE Walked(r)
  BY <1>2, <1>8 DEF Walked, Goes
<1> QED
  BY <1>3, <1>4, <1>5, <1>6, <1>7, <1>8

LEMMA UndoGoes ==
  ASSUME NEW r \in Proc,
         \/ Undo(r, "undo", "unclone", "dev") \/ Unclone(r, "unclone", "dev")
         \/ Undo(r, "undo2", "unclone2", "walked") \/ Unclone(r, "unclone2", "walked")
  PROVE  Goes(r)
<1>1. \A here, mid, next : Undo(r, here, mid, next) => at[r] = here /\ \E v : at' = [at EXCEPT ![r] = v]
  BY Zenon DEF Undo
<1>2. \A mid, next : Unclone(r, mid, next) => at[r] = mid /\ \E v : at' = [at EXCEPT ![r] = v]
  BY Zenon DEF Unclone
<1> QED
  BY <1>1, <1>2 DEF Goes

LEMMA CallGoes ==
  ASSUME NEW r \in Proc,
         \/ \E q \in Calls[r] : Ask(r, q)
         \/ Bind(r) \/ Unmount(r) \/ Refuse(r)
         \/ Open(r) \/ CloseFd(r) \/ Read(r) \/ ReadFile(r)
         \/ ChdirClose(r) \/ ChdirSet(r) \/ ForkCopy(r)
  PROVE  Goes(r)
<1>1. Return(r) => \E v : at' = [at EXCEPT ![r] = v]
  BY DEF Return
<1>2. \A op : Ready(r, op) => at[r] # "copied"
  BY DEF Ready
<1>3. CASE \E q \in Calls[r] : Ask(r, q)
  BY <1>3 DEF Ask, Goes
<1>4. CASE Bind(r)
  BY <1>1, <1>2, <1>4 DEF Bind, Goes
<1>5. CASE Unmount(r)
  BY <1>1, <1>2, <1>5 DEF Unmount, Goes
<1>6. CASE Refuse(r)
  BY <1>1, <1>6 DEF Refuse, Goes
<1>7. CASE Open(r) \/ CloseFd(r) \/ Read(r) \/ ReadFile(r)
  BY <1>1, <1>2, <1>7 DEF Open, CloseFd, Read, ReadFile, Goes
<1>8. CASE ChdirClose(r)
  BY <1>2, <1>8 DEF ChdirClose, Goes
<1>9. CASE ChdirSet(r)
  BY <1>1, <1>9 DEF ChdirSet, Goes
<1>10. CASE ForkCopy(r)
  BY <1>2, <1>10 DEF ForkCopy, Goes
<1> QED
  BY <1>3, <1>4, <1>5, <1>6, <1>7, <1>8, <1>9, <1>10

LEMMA OnlyIds ==
  ASSUME TypeOK, Next, NEW p \in Proc, at[p] = "copied", at'[p] = "idle"
  PROVE  ForkIds(p)
<1>1. PICK r \in Proc : Goes(r) \/ ForkIds(r)
  BY WalkGoes, UndoGoes, CallGoes DEF Next
<1>2. at \in [Proc -> Labels]
  BY DEF TypeOK
<1>3. CASE Goes(r)
  BY <1>2, <1>3 DEF Goes
<1>4. CASE ForkIds(r)
  <2>1. at' = [at EXCEPT ![r] = "idle"]
    BY <1>4 DEF ForkIds, Return
  <2>2. r = p
    BY <1>2, <2>1
  <2> QED
    BY <1>4, <2>2
<1> QED
  BY <1>1, <1>3, <1>4

(* The copies of the mounts of g have their ids in the order of the mounts. *)
LEMMA IdsInOrder ==
  ASSUME IndInv, Orderly, NEW p \in Proc, ForkIds(p),
         NEW m \in Table(grp[p]), NEW l \in Table(grp[p])
  PROVE  mount[m].mountid < mount[l].mountid
           <=> mount'[mount[m].copy].mountid < mount'[mount[l].copy].mountid
<1>s. SUFFICES ASSUME NEW g, NEW h, NEW ms, NEW last, IdsOf(p, g, h, ms, last),
                      m \in Table(g), l \in Table(g)
      PROVE  mount[m].mountid < mount[l].mountid
               <=> mount'[mount[m].copy].mountid < mount'[mount[l].copy].mountid
  <2>1. IdsStep(p, grp[p], fork[p].to, fork[p].order, group[grp[p]].ref = 1)
    BY ForkIdsStep
  <2>2. IdsOf(p, grp[p], fork[p].to, fork[p].order, group[grp[p]].ref = 1)
    BY <2>1 DEF IdsOf
  <2> QED
    BY <1>s, <2>2
<1>1. /\ Paired(g, h, ms) /\ Numbered(g, h, ms, NumbersOf(ms)) /\ last \in BOOLEAN
      /\ InTable(g) \in Seq(Mount) /\ ToSet(InTable(g)) = Table(g)
  BY <1>s, IdsHas
<1>2. /\ g = grp[p] /\ h = fork[p].to /\ ms = fork[p].order /\ at[p] = "copied"
      /\ mountid' = mountid + Len(ms)
      /\ mount' = (IF last THEN MountFree(NumbersOf(ms), InTable(g)) ELSE NumbersOf(ms))
      /\ head' = (IF last THEN [head EXCEPT ![g] = [d \in File |-> NoHead]] ELSE head)
  BY <1>s DEF IdsOf, IdsStep
<1>3. TypeOK /\ ListInv /\ CopyInv
  BY DEF IndInv
<1>4. \A i \in 1..Len(ms) : mount'[mount[ms[i]].copy].mountid = mountid + i - 1
  <2>1. TablesStep(g, h, ms, last, mount', head')
    BY <1>1, <1>2 DEF TablesStep
  <2>2. TablesAre(g, h, ms, last, mount', head')
    BY <1>3, <2>1, IdsTables
  <2> QED
    BY <2>2 DEF TablesAre
<1>5. ms \in Seq(Mount) /\ ToSet(ms) = Table(g)
  BY <1>1 DEF Paired
<1>6. PICK i \in 1..Len(ms) : ms[i] = m
  BY <1>s, <1>5, SeqIs
<1>7. PICK j \in 1..Len(ms) : ms[j] = l
  BY <1>s, <1>5, SeqIs
<1>8. \A x, y \in 1..Len(ms) : x < y => mount[ms[x]].mountid < mount[ms[y]].mountid
  BY <1>2, <1>3 DEF CopyInv, Copying
<1>9. mount[m].mountid \in Nat /\ mount[l].mountid \in Nat /\ mountid \in Nat
  <2>1. m \in Mount /\ l \in Mount
    BY <1>5, <1>6, <1>7, SeqIs
  <2> QED
    BY <1>3, <2>1 DEF TypeOK
<1>10. i \in Int /\ j \in Int
  OBVIOUS
<1>11. mount[m].mountid < mount[l].mountid <=> i < j
  <2>1. i < j => mount[m].mountid < mount[l].mountid
    BY <1>6, <1>7, <1>8
  <2>2. j < i => mount[l].mountid < mount[m].mountid
    BY <1>6, <1>7, <1>8
  <2>3. i = j => mount[m].mountid = mount[l].mountid
    BY <1>6, <1>7
  <2> QED
    BY <1>9, <1>10, <2>1, <2>2, <2>3
<1>12. /\ mount'[mount[m].copy].mountid = mountid + i - 1
       /\ mount'[mount[l].copy].mountid = mountid + j - 1
  BY <1>4, <1>6, <1>7
<1> QED
  BY <1>9, <1>10, <1>11, <1>12

(* What pctl with FORKNS promises of a search: the copies of the mounts    *)
(* get their ids in the order of the mounts, in whatever lists they are,   *)
(* though pgrpcpy finds the mounts list after list.                        *)
THEOREM CopiesInOrder == Orderly => (Spec => CopyInOrder)
<1> SUFFICES ASSUME Orderly PROVE Spec => CopyInOrder
  OBVIOUS
<1>1. Spec => []IndInv
  BY Inductive
<1>2. IndInv /\ [Next]_vars =>
        [\A p \in Proc : at[p] = "copied" /\ at'[p] = "idle" =>
           \A d, e \in File :
             \A i \in 1..Len(List(grp[p], d)), j \in 1..Len(List(grp[p], e)) :
               mount[List(grp[p], d)[i]].mountid < mount[List(grp[p], e)[j]].mountid
               <=> mount'[List(fork[p].to, d)[i]].mountid < mount'[List(fork[p].to, e)[j]].mountid]_vars
  <2> SUFFICES ASSUME IndInv, Next, NEW p \in Proc, at[p] = "copied", at'[p] = "idle",
                      NEW d \in File, NEW e \in File,
                      NEW i \in 1..Len(List(grp[p], d)), NEW j \in 1..Len(List(grp[p], e))
      PROVE  mount[List(grp[p], d)[i]].mountid < mount[List(grp[p], e)[j]].mountid
             <=> mount'[List(fork[p].to, d)[i]].mountid < mount'[List(fork[p].to, e)[j]].mountid
    OBVIOUS
  <2>1. TypeOK /\ ListInv /\ CopyInv /\ grp[p] \in Group
    BY DEF IndInv, TypeOK
  <2>2. ForkIds(p)
    BY <2>1, OnlyIds
  <2>3. /\ List(fork[p].to, d)[i] = mount[List(grp[p], d)[i]].copy
        /\ List(fork[p].to, e)[j] = mount[List(grp[p], e)[j]].copy
    BY <2>1 DEF CopyInv, Copying
  <2>4. List(grp[p], d)[i] \in Table(grp[p]) /\ List(grp[p], e)[j] \in Table(grp[p])
    <3>1. List(grp[p], d) \in Seq(Mount) /\ List(grp[p], e) \in Seq(Mount)
      BY <2>1, TableLive
    <3>2. List(grp[p], d)[i] \in MountsOn(grp[p], d) /\ List(grp[p], e)[j] \in MountsOn(grp[p], e)
      BY <3>1, SeqIs DEF MountsOn
    <3> QED
      BY <3>2 DEF Table
  <2> QED
    BY <2>2, <2>3, <2>4, IdsInOrder
<1> QED
  BY <1>1, <1>2, PTL DEF Spec, CopyInOrder

-----------------------------------------------------------------------------
(* The files of a list. *)

Img(f, s) == [i \in 1..Len(s) |-> f[s[i]]]

LEMMA ImgIs ==
  ASSUME NEW A, NEW B, NEW f \in [A -> B], NEW s \in Seq(A)
  PROVE  Img(f, s) \in Seq(B) /\ Len(Img(f, s)) = Len(s)
  BY DEF Img

LEMMA ImgAt ==
  ASSUME NEW f, NEW s, NEW i \in 1..Len(s)
  PROVE  Img(f, s)[i] = f[s[i]]
  BY DEF Img

LEMMA ImgSame ==
  ASSUME NEW A, NEW s \in Seq(A), NEW f, NEW h, \A x \in ToSet(s) : f[x] = h[x]
  PROVE  Img(f, s) = Img(h, s)
<1>1. \A i \in 1..Len(s) : f[s[i]] = h[s[i]]
  BY SeqIs
<1> QED
  BY <1>1 DEF Img

LEMMA CatIs ==
  ASSUME NEW A, NEW s \in Seq(A), NEW t \in Seq(A), NEW z, z = s \o t
  PROVE  /\ z \in Seq(A) /\ Len(s) \in Nat /\ Len(t) \in Nat /\ Len(z) = Len(s) + Len(t)
         /\ \A i \in 1..Len(z) : /\ i <= Len(s) => i \in 1..Len(s) /\ z[i] = s[i]
                                 /\ ~(i <= Len(s)) => i - Len(s) \in 1..Len(t) /\ z[i] = t[i - Len(s)]
<1>1. z \in Seq(A) /\ Len(s) \in Nat /\ Len(t) \in Nat /\ Len(z) = Len(s) + Len(t)
  OBVIOUS
<1>2. ASSUME NEW i \in 1..Len(z), i <= Len(s) PROVE i \in 1..Len(s) /\ z[i] = s[i]
  BY <1>2
<1>3. ASSUME NEW i \in 1..Len(z), ~(i <= Len(s)) PROVE i - Len(s) \in 1..Len(t) /\ z[i] = t[i - Len(s)]
  BY <1>3
<1> QED
  BY <1>1, <1>2, <1>3

LEMMA SubIs ==
  ASSUME NEW A, NEW s \in Seq(A), NEW i \in 1..(Len(s) + 1), NEW j \in 0..Len(s),
         NEW z, z = SubSeq(s, i, j)
  PROVE  /\ z \in Seq(A) /\ Len(z) = IF i <= j THEN j - i + 1 ELSE 0
         /\ \A k \in 1..Len(z) : i + k - 1 \in 1..Len(s) /\ z[k] = s[i + k - 1]
<1>1. SubSeq(s, i, j) \in Seq(A)
  OBVIOUS
<1>2. Len(SubSeq(s, i, j)) = IF i <= j THEN j - i + 1 ELSE 0
  OBVIOUS
<1>3. ASSUME NEW k \in 1..Len(SubSeq(s, i, j)) PROVE i + k - 1 \in 1..Len(s) /\ SubSeq(s, i, j)[k] = s[i + k - 1]
  BY <1>2
<1> QED
  BY <1>1, <1>2, <1>3, Zenon

ConcatOf(A, B, f, s, t) == f \in [A -> B] /\ s \in Seq(A) /\ t \in Seq(A)

Cat(s, t) == s \o t

LEMMA ImgConcat ==
  ASSUME NEW A, NEW B, NEW f, NEW s, NEW t, ConcatOf(A, B, f, s, t)
  PROVE  Cat(s, t) \in Seq(A) /\ Img(f, Cat(s, t)) = Cat(Img(f, s), Img(f, t))
<1> f \in [A -> B] /\ s \in Seq(A) /\ t \in Seq(A)
  BY DEF ConcatOf
<1> DEFINE z == s \o t
           x == Img(f, s)
           y == Img(f, t)
           u == Img(f, z)
           v == x \o y
<1>1. /\ z \in Seq(A) /\ Len(s) \in Nat /\ Len(t) \in Nat /\ Len(z) = Len(s) + Len(t)
      /\ \A i \in 1..Len(z) : /\ i <= Len(s) => i \in 1..Len(s) /\ z[i] = s[i]
                              /\ ~(i <= Len(s)) => i - Len(s) \in 1..Len(t) /\ z[i] = t[i - Len(s)]
  BY CatIs
<1> HIDE DEF z
<1>2. x \in Seq(B) /\ Len(x) = Len(s) /\ y \in Seq(B) /\ Len(y) = Len(t) /\ u \in Seq(B) /\ Len(u) = Len(z)
  <2>1. x \in Seq(B) /\ Len(x) = Len(s)
    BY DEF Img
  <2>2. y \in Seq(B) /\ Len(y) = Len(t)
    BY DEF Img
  <2>3. u \in Seq(B) /\ Len(u) = Len(z)
    BY <1>1 DEF Img
  <2> QED
    BY <2>1, <2>2, <2>3
<1>3. ASSUME NEW i \in 1..Len(s) PROVE x[i] = f[s[i]]
  BY ImgAt
<1>4. ASSUME NEW i \in 1..Len(t) PROVE y[i] = f[t[i]]
  BY ImgAt
<1>5. ASSUME NEW i \in 1..Len(z) PROVE u[i] = f[z[i]]
  BY ImgAt
<1> HIDE DEF x, y, u
<1>6. /\ v \in Seq(B) /\ Len(v) = Len(x) + Len(y)
      /\ \A i \in 1..Len(v) : /\ i <= Len(x) => i \in 1..Len(x) /\ v[i] = x[i]
                              /\ ~(i <= Len(x)) => i - Len(x) \in 1..Len(y) /\ v[i] = y[i - Len(x)]
  <2>1. x \in Seq(B) /\ y \in Seq(B)
    BY <1>2
  <2> QED
    BY <2>1, CatIs
<1> HIDE DEF v
<1>7. Len(u) = Len(v)
  BY <1>1, <1>2, <1>6
<1>8. ASSUME NEW i \in 1..Len(u) PROVE u[i] = v[i]
  <2>1. i \in 1..Len(z) /\ i \in 1..Len(v) /\ Len(x) = Len(s)
    BY <1>2, <1>7
  <2>2. u[i] = f[z[i]]
    BY <1>5, <2>1, Zenon
  <2>3. CASE i <= Len(s)
    <3>1. i \in 1..Len(s) /\ z[i] = s[i]
      BY <1>1, <2>1, <2>3, Zenon
    <3>2. v[i] = x[i]
      BY <1>6, <2>1, <2>3, Zenon
    <3> QED
      BY <1>3, <2>2, <3>1, <3>2, Zenon
  <2>4. CASE ~(i <= Len(s))
    <3>1. i - Len(s) \in 1..Len(t) /\ z[i] = t[i - Len(s)]
      BY <1>1, <2>1, <2>4, Zenon
    <3>2. v[i] = y[i - Len(s)]
      BY <1>6, <2>1, <2>4, Zenon
    <3> QED
      BY <1>4, <2>2, <3>1, <3>2, Zenon
  <2> QED
    BY <2>3, <2>4
<1>9. u = v
  BY <1>2, <1>6, <1>7, <1>8, SameSeq
<1> QED
  BY <1>1, <1>9 DEF u, v, x, y, z, Cat

SubOf(A, B, f, s, i, j) == /\ f \in [A -> B] /\ s \in Seq(A)
                           /\ i \in 1..(Len(s) + 1) /\ j \in 0..Len(s)

Cut(s, i, j) == SubSeq(s, i, j)

LEMMA ImgSub ==
  ASSUME NEW A, NEW B, NEW f, NEW s, NEW i, NEW j, SubOf(A, B, f, s, i, j)
  PROVE  Cut(s, i, j) \in Seq(A) /\ Img(f, Cut(s, i, j)) = Cut(Img(f, s), i, j)
<1> f \in [A -> B] /\ s \in Seq(A) /\ i \in 1..(Len(s) + 1) /\ j \in 0..Len(s)
  BY DEF SubOf
<1> DEFINE z == SubSeq(s, i, j)
           x == Img(f, s)
           u == Img(f, z)
           v == SubSeq(x, i, j)
<1>1. /\ z \in Seq(A) /\ Len(z) = IF i <= j THEN j - i + 1 ELSE 0
      /\ \A k \in 1..Len(z) : i + k - 1 \in 1..Len(s) /\ z[k] = s[i + k - 1]
  BY SubIs
<1> HIDE DEF z
<1>2. x \in Seq(B) /\ Len(x) = Len(s) /\ u \in Seq(B) /\ Len(u) = Len(z)
  <2>1. x \in Seq(B) /\ Len(x) = Len(s)
    BY DEF Img
  <2>2. u \in Seq(B) /\ Len(u) = Len(z)
    BY <1>1 DEF Img
  <2> QED
    BY <2>1, <2>2
<1>3. ASSUME NEW k \in 1..Len(s) PROVE x[k] = f[s[k]]
  BY ImgAt
<1>4. ASSUME NEW k \in 1..Len(z) PROVE u[k] = f[z[k]]
  BY ImgAt
<1> HIDE DEF x, u
<1>5. /\ v \in Seq(B) /\ Len(v) = IF i <= j THEN j - i + 1 ELSE 0
      /\ \A k \in 1..Len(v) : i + k - 1 \in 1..Len(x) /\ v[k] = x[i + k - 1]
  BY <1>2, SubIs
<1> HIDE DEF v
<1>6. Len(u) = Len(v)
  BY <1>1, <1>2, <1>5
<1>7. ASSUME NEW k \in 1..Len(u) PROVE u[k] = v[k]
  <2>1. k \in 1..Len(z) /\ k \in 1..Len(v)
    BY <1>2, <1>6
  <2>2. u[k] = f[z[k]]
    BY <1>4, <2>1, Zenon
  <2>3. i + k - 1 \in 1..Len(s) /\ z[k] = s[i + k - 1]
    BY <1>1, <2>1, Zenon
  <2>4. v[k] = x[i + k - 1]
    BY <1>5, <2>1, Zenon
  <2> QED
    BY <1>3, <2>2, <2>3, <2>4, Zenon
<1>8. u = v
  BY <1>2, <1>5, <1>6, <1>7, SameSeq
<1> QED
  BY <1>1, <1>8 DEF u, v, x, z, Cut

(* A list without its k-th element. *)
RemoveOf(A, B, f, s, k, z) == /\ f \in [A -> B] /\ s \in Seq(A) /\ k \in 1..Len(s)
                              /\ z = Cat(Cut(s, 1, k - 1), Cut(s, k + 1, Len(s)))

LEMMA ImgRemove ==
  ASSUME NEW A, NEW B, NEW f, NEW s, NEW k, NEW z, RemoveOf(A, B, f, s, k, z)
  PROVE  /\ z \in Seq(A) /\ ToSet(z) \subseteq ToSet(s)
         /\ Img(f, z) = Cat(Cut(Img(f, s), 1, k - 1), Cut(Img(f, s), k + 1, Len(s)))
<1> f \in [A -> B] /\ s \in Seq(A) /\ k \in 1..Len(s)
  BY DEF RemoveOf
<1>s. SUFFICES ASSUME NEW a, a = Cut(s, 1, k - 1), NEW b, b = Cut(s, k + 1, Len(s)), z = Cat(a, b)
      PROVE  /\ z \in Seq(A) /\ ToSet(z) \subseteq ToSet(s)
             /\ Img(f, z) = Cat(Cut(Img(f, s), 1, k - 1), Cut(Img(f, s), k + 1, Len(s)))
  BY DEF RemoveOf
<1>1. SubOf(A, B, f, s, 1, k - 1) /\ SubOf(A, B, f, s, k + 1, Len(s))
  BY DEF SubOf
<1>2. a \in Seq(A) /\ Img(f, a) = Cut(Img(f, s), 1, k - 1)
  <2>1. Cut(s, 1, k - 1) \in Seq(A) /\ Img(f, Cut(s, 1, k - 1)) = Cut(Img(f, s), 1, k - 1)
    BY <1>1, ImgSub, SMT
  <2> QED
    BY <1>s, <2>1, Zenon
<1>3. b \in Seq(A) /\ Img(f, b) = Cut(Img(f, s), k + 1, Len(s))
  <2>1. Cut(s, k + 1, Len(s)) \in Seq(A) /\ Img(f, Cut(s, k + 1, Len(s))) = Cut(Img(f, s), k + 1, Len(s))
    BY <1>1, ImgSub, SMT
  <2> QED
    BY <1>s, <2>1, Zenon
<1>4. z \in Seq(A) /\ Img(f, z) = Cat(Img(f, a), Img(f, b))
  <2>1. ConcatOf(A, B, f, a, b)
    BY <1>2, <1>3 DEF ConcatOf
  <2> QED
    BY <1>s, <2>1, ImgConcat
<1>5. ASSUME NEW y \in ToSet(a) PROVE y \in ToSet(s)
  <2>1. PICK i \in 1..Len(a) : a[i] = y
    BY <1>2, <1>5, SeqIs
  <2>2. \E j \in 1..Len(s) : a[i] = s[j]
    BY <1>s DEF Cut
  <2> QED
    BY <2>1, <2>2, SeqIs
<1>6. ASSUME NEW y \in ToSet(b) PROVE y \in ToSet(s)
  <2>1. PICK i \in 1..Len(b) : b[i] = y
    BY <1>3, <1>6, SeqIs
  <2>2. \E j \in 1..Len(s) : b[i] = s[j]
    BY <1>s DEF Cut
  <2> QED
    BY <2>1, <2>2, SeqIs
<1>7. ASSUME NEW y \in ToSet(z) PROVE y \in ToSet(a) \cup ToSet(b)
  <2>1. PICK i \in 1..Len(z) : z[i] = y
    BY <1>4, <1>7, SeqIs
  <2>2. \/ \E j \in 1..Len(a) : z[i] = a[j]
        \/ \E j \in 1..Len(b) : z[i] = b[j]
    BY <1>s, <1>2, <1>3, CatIs DEF Cat
  <2> QED
    BY <1>2, <1>3, <2>1, <2>2, SeqIs
<1>8. ToSet(z) \subseteq ToSet(s)
  BY <1>5, <1>6, <1>7
<1> QED
  BY <1>2, <1>3, <1>4, <1>8

-----------------------------------------------------------------------------
(* What a step shows. *)

(* The file that a mount shows. *)
Face == [m \in Mount |-> FileOf(To(m))]

(* The list of g and d, now and after a step. *)
LEMMA ShownOn ==
  ASSUME NEW g \in Group, NEW d \in File
  PROVE  /\ List(g, d) \in Seq(Mount) => Shown[g][d] = Img(Face, List(g, d))
         /\ List(g, d)' \in Seq(Mount) => Shown'[g][d] = Img(Face', List(g, d)')
<1>1. ASSUME List(g, d) \in Seq(Mount)
      PROVE  Shown[g][d] = Img(Face, List(g, d))
  <2>1. \A i \in 1..Len(List(g, d)) : Face[List(g, d)[i]] = FileOf(To(List(g, d)[i]))
    BY <1>1 DEF Face
  <2> QED
    BY <2>1 DEF Shown, Img
<1>2. ASSUME List(g, d)' \in Seq(Mount)
      PROVE  Shown'[g][d] = Img(Face', List(g, d)')
  <2>1. \A i \in 1..Len(List(g, d)') : Face'[List(g, d)'[i]] = FileOf(To(List(g, d)[i]))'
    BY <1>2 DEF Face, FileOf, To
  <2> QED
    BY <2>1 DEF Shown, Img
<1> QED
  BY <1>1, <1>2

LEMMA ShownIsFun ==
  /\ Shown = [g \in Group |-> [d \in File |-> Shown[g][d]]]
  /\ Shown' = [g \in Group |-> [d \in File |-> Shown'[g][d]]]
<1>1. Shown = [g \in Group |-> [d \in File |-> Shown[g][d]]]
  BY DEF Shown
<1>2. Shown' = [g \in Group |-> [d \in File |-> Shown'[g][d]]]
  BY DEF Shown
<1> QED
  BY <1>1, <1>2

(* A list that stays, of mounts whose files stay, shows the same. *)
LEMMA ShownStays ==
  ASSUME NEW g \in Group, NEW d \in File, List(g, d) \in Seq(Mount), List(g, d)' = List(g, d),
         \A m \in MountsOn(g, d) : Face'[m] = Face[m]
  PROVE  Shown'[g][d] = Shown[g][d]
<1>1. Img(Face', List(g, d)) = Img(Face, List(g, d))
  BY ImgSame DEF MountsOn
<1> QED
  BY <1>1, ShownOn

(* What a mount shows stays when where it points to does. *)
LEMMA FaceStays ==
  ASSUME FilesKept, NEW m \in Mount, mount[m].live, mount'[m].to = mount[m].to
  PROVE  Face'[m] = Face[m]
  BY DEF Face, FilesKept, FileOf, To

LEMMA SameShown ==
  ASSUME IndInv, mount' = mount, head' = head, FilesKept
  PROVE  Shown' = Shown
<1>1. TypeOK /\ ListInv
  BY DEF IndInv
<1>2. ASSUME NEW g \in Group, NEW d \in File
      PROVE  Shown'[g][d] = Shown[g][d]
  <2>1. List(g, d)' = List(g, d)
    BY DEF List, ListFrom
  <2>2. List(g, d) \in Seq(Mount) /\ \A m \in MountsOn(g, d) : m \in Mount /\ mount[m].live
    BY <1>1, TableLive
  <2>3. \A m \in MountsOn(g, d) : Face'[m] = Face[m]
    BY <2>2, FaceStays
  <2> QED
    BY <2>1, <2>2, <2>3, ShownStays
<1> QED
  BY <1>2, ShownIsFun

(* A bind or an unmount shows the new list of one directory. *)
LEMMA EditShows ==
  ASSUME IndInv, TypeOK', FilesKept, NEW g \in Group, NEW d \in File, NEW chain, Edited(g, d, chain)
  PROVE  /\ Shown' = [Shown EXCEPT ![g][d] = Img(Face', chain)]
         /\ chain \in Seq(Mount)
         /\ \A m \in Mount : mount[m].live /\ (m \notin MountsOn(g, d) \/ m \in ToSet(chain)) => Face'[m] = Face[m]
         /\ Shown[g][d] = Img(Face, List(g, d))
<1>1. TypeOK /\ ListInv
  BY DEF IndInv
<1>2. /\ List(g, d)' = chain
      /\ \A h \in Group, e \in File : h # g \/ e # d => List(h, e)' = List(h, e)
  BY <1>1, EditLists
<1>3. /\ chain \in Seq(Mount)
      /\ \A m \in Mount : mount[m].live /\ (m \notin MountsOn(g, d) \/ m \in ToSet(chain)) =>
           mount'[m].to = mount[m].to
  BY DEF Edited, IsList, To
<1>4. \A m \in Mount : mount[m].live /\ (m \notin MountsOn(g, d) \/ m \in ToSet(chain)) => Face'[m] = Face[m]
  BY <1>3, FaceStays
<1>5. ASSUME NEW h \in Group, NEW e \in File, h # g \/ e # d
      PROVE  Shown'[h][e] = Shown[h][e]
  <2>1. List(h, e)' = List(h, e)
    BY <1>2, <1>5
  <2>2. List(h, e) \in Seq(Mount) /\ \A m \in MountsOn(h, e) : m \in Mount /\ mount[m].live
    BY <1>1, TableLive
  <2>3. MountsOn(h, e) \cap MountsOn(g, d) = {}
    BY <1>1, <1>5 DEF ListInv
  <2>4. \A m \in MountsOn(h, e) : Face'[m] = Face[m]
    BY <1>4, <2>2, <2>3
  <2> QED
    BY <2>1, <2>2, <2>4, ShownStays
<1>6. Shown'[g][d] = Img(Face', chain)
  BY <1>2, <1>3, ShownOn
<1>7. Shown' = [Shown EXCEPT ![g][d] = Img(Face', chain)]
  <2>1. \A h \in Group, e \in File : Shown'[h][e] = [Shown EXCEPT ![g][d] = Img(Face', chain)][h][e]
    BY <1>5, <1>6, ShownIsFun
  <2> QED
    BY <2>1, ShownIsFun
<1>8. Shown[g][d] = Img(Face, List(g, d))
  BY <1>1, TableLive, ShownOn
<1> QED
  BY <1>3, <1>4, <1>7, <1>8

LEMMA MountedFile ==
  ASSUME IndInv, NEW m \in Mount, mount[m].live
  PROVE  Face[m] = FileOf(To(m)) /\ Face[m] \in File
<1>1. To(m) \in Chan /\ ch.of[To(m)].ref > 0
  BY TableChan DEF IndInv
<1>2. ch.of[To(m)].file \in File
  BY <1>1 DEF IndInv, ChanInv
<1> QED
  BY <1>2 DEF Face, FileOf

(* What is taken away is all, or the first that shows one file. *)
OneGone(ms, kept) ==
  \E k \in 1..Len(ms), x \in File :
    /\ Face[ms[k]] = x /\ \A j \in 1..(k - 1) : Face[ms[j]] # x
    /\ kept = Cat(Cut(ms, 1, k - 1), Cut(ms, k + 1, Len(ms)))

LEMMA GoneIs ==
  ASSUME IndInv, NEW p \in Proc, NEW g, NEW d, NEW ms, NEW gone, NEW kept, UnmountDone(p, g, d, ms, gone, kept)
  PROVE  kept = <<>> \/ OneGone(ms, kept)
<1>1. /\ g = grp[p] /\ g \in Group /\ d \in File /\ ms = List(g, d)
      /\ gone = Taken(p, d) /\ gone # <<>> /\ kept = Without(ms, gone)
  BY DEF UnmountDone
<1>2. /\ ms \in Seq(Mount) /\ IsInjective(ms)
      /\ \A m \in ToSet(ms) : m \in Mount /\ mount[m].live
  <2>1. TypeOK /\ ListInv
    BY DEF IndInv
  <2> QED
    BY <1>1, <2>1, TableLive DEF MountsOn
<1>3. CASE gone = ms
  BY <1>1, <1>3 DEF Without
<1>4. CASE gone # ms
  <2> DEFINE y == FileOf(got[p][2])
             same == {m \in ToSet(ms) : FileOf(To(m)) = y}
  <2>1. gone = <<First(ms, same)>> /\ same # {}
    BY <1>1, <1>4 DEF Taken
  <2>2. same \cap ToSet(ms) # {}
    BY <2>1
  <2> HIDE DEF same
  <2>3. PICK k \in 1..Len(ms) : /\ First(ms, same) = ms[k] /\ ms[k] \in same
                                /\ \A j \in 1..(k - 1) : ms[j] \notin same
    BY <1>2, <2>2, FirstIs
  <2>4. \A i \in 1..Len(ms) : ms[i] \in ToSet(ms) /\ (ms[i] = ms[k] => i = k)
    BY <1>2, SeqIs
  <2>5. (CHOOSE i \in 1..Len(ms) : ms[i] = gone[1]) = k
    <3>1. gone[1] = ms[k]
      BY <2>1, <2>3
    <3> QED
      BY <2>4, <3>1
  <2>6. kept = Cat(Cut(ms, 1, k - 1), Cut(ms, k + 1, Len(ms)))
    BY <1>1, <1>4, <2>5 DEF Without, RemoveAt, Cat, Cut
  <2>7. Face[ms[k]] = y /\ y \in File
    BY <1>2, <2>3, <2>4, MountedFile DEF same
  <2>8. ASSUME NEW j \in 1..(k - 1) PROVE Face[ms[j]] # y
    <3>1. j \in 1..Len(ms) /\ ms[j] \notin same
      BY <1>2, <2>3
    <3>2. ms[j] \in ToSet(ms) /\ FileOf(To(ms[j])) # y
      BY <2>4, <3>1 DEF same
    <3> QED
      BY <1>2, <3>2, MountedFile
  <2> QED
    BY <2>6, <2>7, <2>8 DEF OneGone
<1> QED
  BY <1>3, <1>4

(* An unmount takes away the union of a directory, or the first of its     *)
(* members that is the file.                                               *)
LEMMA UnmountShows ==
  ASSUME IndInv, TypeOK', FilesKept, NEW p \in Proc, UnmountEdits(p), Shown' # Shown
  PROVE  U!Next
<1>1. PICK g, d, ms, gone, kept : UnmountDone(p, g, d, ms, gone, kept)
  BY DEF UnmountEdits
<1>2. g \in Group /\ d \in File /\ ms = List(g, d) /\ Edited(g, d, kept)
  BY <1>1 DEF UnmountDone
<1>3. /\ Shown' = [Shown EXCEPT ![g][d] = Img(Face', kept)] /\ kept \in Seq(Mount)
      /\ \A m \in Mount : mount[m].live /\ m \in ToSet(kept) => Face'[m] = Face[m]
      /\ Shown[g][d] = Img(Face, ms)
  BY <1>2, EditShows
<1>4. \A m \in ToSet(ms) : m \in Mount /\ mount[m].live
  <2>1. TypeOK /\ ListInv
    BY DEF IndInv
  <2> QED
    BY <1>2, <2>1, TableLive DEF MountsOn
<1>5. ms \in Seq(Mount) /\ Face \in [Mount -> {Face[m] : m \in Mount}]
  <2>1. TypeOK /\ ListInv
    BY DEF IndInv
  <2> QED
    BY <1>2, <2>1, TableLive DEF Face
<1>6. CASE kept = <<>>
  <2>1. Img(Face', kept) = <<>>
    BY <1>6 DEF Img
  <2>2. U!Unmount(g, d)
    BY <1>3, <2>1 DEF U!Unmount, U!Becomes
  <2> QED
    BY <1>2, <2>2 DEF U!Next
<1>7. CASE kept # <<>>
  <2>0. OneGone(ms, kept)
    BY <1>1, <1>7, GoneIs
  <2>1. PICK k \in 1..Len(ms), x \in File :
              /\ Face[ms[k]] = x /\ \A j \in 1..(k - 1) : Face[ms[j]] # x
              /\ kept = Cat(Cut(ms, 1, k - 1), Cut(ms, k + 1, Len(ms)))
    BY <2>0 DEF OneGone
  <2>2. /\ kept \in Seq(Mount) /\ ToSet(kept) \subseteq ToSet(ms)
        /\ Img(Face, kept) = Cat(Cut(Img(Face, ms), 1, k - 1), Cut(Img(Face, ms), k + 1, Len(ms)))
    <3>1. RemoveOf(Mount, {Face[m] : m \in Mount}, Face, ms, k, kept)
      BY <1>5, <2>1 DEF RemoveOf
    <3> QED
      BY <3>1, ImgRemove
  <2>3. Img(Face', kept) = Img(Face, kept)
    <3>1. \A m \in ToSet(kept) : Face'[m] = Face[m]
      BY <1>3, <1>4, <2>2
    <3> QED
      BY <2>2, <3>1, ImgSame
  <2> DEFINE fs == Img(Face, ms)
  <2>4. Len(fs) = Len(ms) /\ \A j \in 1..Len(ms) : fs[j] = Face[ms[j]]
    BY <1>5 DEF Img
  <2>5. Shown' = [Shown EXCEPT ![g][d] = Cat(Cut(fs, 1, k - 1), Cut(fs, k + 1, Len(fs)))] /\ Shown[g][d] = fs
    <3>1. Img(Face', kept) = Cat(Cut(fs, 1, k - 1), Cut(fs, k + 1, Len(fs)))
      BY <2>2, <2>3, <2>4, Zenon
    <3> QED
      BY <1>3, <3>1, Zenon
  <2> HIDE DEF fs
  <2>6. /\ k \in 1..Len(fs) /\ fs[k] = x /\ \A j \in 1..(k - 1) : fs[j] # x
    <3>1. \A j \in 1..(k - 1) : j \in 1..Len(ms)
      BY <1>5
    <3> QED
      BY <2>1, <2>4, <3>1
  <2>7. U!UnmountOne(g, d, x)
    BY <2>5, <2>6 DEF U!UnmountOne, U!Becomes, Cat, Cut
  <2> QED
    BY <1>2, <2>1, <2>7 DEF U!Next
<1> QED
  BY <1>6, <1>7

(* A group without mounts shows nothing. *)
LEMMA ShownNone ==
  ASSUME NEW g \in Group, NEW d \in File
  PROVE  /\ head[g][d] = NoHead => List(g, d) = <<>> /\ Shown[g][d] = <<>>
         /\ head'[g][d] = NoHead => Shown'[g][d] = <<>>
<1>1. ASSUME head[g][d] = NoHead PROVE List(g, d) = <<>> /\ Shown[g][d] = <<>>
  <2>1. List(g, d) = <<>>
    BY <1>1, NoList DEF NoHead, List, ListFrom
  <2> QED
    BY <2>1 DEF Shown
<1>2. ASSUME head'[g][d] = NoHead PROVE Shown'[g][d] = <<>>
  <2>1. List(g, d)' = <<>>
    BY <1>2, NoList DEF NoHead, List, ListFrom
  <2> QED
    BY <2>1 DEF Shown
<1> QED
  BY <1>1, <1>2

(* The first step of a fork gives the new group the unions of the old one. *)
LEMMA ForkShows ==
  ASSUME IndInv, TypeOK', FilesKept, CopyEdits, Shown' # Shown
  PROVE  U!Next
<1>s. SUFFICES ASSUME NEW g \in Group, NEW h \in Group, NEW ms, NEW new, NEW copy,
                      Forks(g, h, ms, new, copy)
               PROVE  U!Next
  BY DEF CopyEdits
<1>1. Forks(g, h, ms, new, copy)
  BY <1>s
<1>2. TypeOK /\ ListInv
  BY DEF IndInv
<1>3. /\ \A k \in Group, d \in File : k # h => List(k, d)' = List(k, d)
      /\ \A d \in File : List(h, d)' = [i \in 1..Len(List(g, d)) |-> copy[List(g, d)[i]]]
      /\ \A k \in Group : \A m \in Table(k) : m \in Mount /\ mount[m].live /\ m \notin ToSet(new)
  BY <1>1, <1>2, ForkLists
<1>4. /\ g # h /\ \A d \in File : head[h][d] = NoHead
      /\ ToSet(ms) = Table(g) /\ new \in Seq(Mount) /\ Copied(ms, new, copy, mount')
  BY <1>1 DEF Forks
<1>5. /\ \A m \in Table(g) : copy[m] \in Mount /\ mount'[copy[m]].to = mount[m].to
      /\ \A m \in Mount : m \notin ToSet(new) => mount'[m].to = mount[m].to
  <2>1. \A x \in ToSet(new) : x \in Mount
    BY <1>4, SeqIs
  <2> QED
    BY <1>4, <2>1 DEF Copied
<1>6. \A m \in Table(g) : Face'[copy[m]] = Face[m]
  BY <1>3, <1>5 DEF Face, FilesKept, FileOf, To
<1>7. \A k \in Group, d \in File :
        /\ List(k, d) \in Seq(Mount)
        /\ \A m \in MountsOn(k, d) : m \in Mount /\ mount[m].live /\ m \in Table(k)
        /\ \A i \in 1..Len(List(k, d)) : List(k, d)[i] \in MountsOn(k, d)
  BY <1>2, TableLive, SeqIs DEF MountsOn
<1>8. ASSUME NEW k \in Group, NEW d \in File, k # h
      PROVE  Shown'[k][d] = Shown[k][d]
  <2>1. \A m \in MountsOn(k, d) : Face'[m] = Face[m]
    BY <1>3, <1>5, <1>7, FaceStays
  <2> QED
    BY <1>3, <1>7, <1>8, <2>1, ShownStays
<1>9. ASSUME NEW d \in File
      PROVE  Shown'[h][d] = Shown[g][d]
  <2> DEFINE s == List(g, d)
             t == List(h, d)'
  <2>1. t = [i \in 1..Len(s) |-> copy[s[i]]] /\ s \in Seq(Mount)
    BY <1>3, <1>7
  <2>2. \A i \in 1..Len(s) : copy[s[i]] \in Mount /\ Face'[copy[s[i]]] = Face[s[i]]
    BY <1>5, <1>6, <1>7
  <2>3. t \in Seq(Mount) /\ Shown'[h][d] = Img(Face', t) /\ Shown[g][d] = Img(Face, s)
    <3>1. t \in Seq(Mount)
      <4> HIDE DEF s, t
      <4> QED
        BY <2>1, <2>2
    <3> QED
      BY <1>7, <3>1, ShownOn
  <2> HIDE DEF s, t
  <2>4. Len(t) = Len(s) /\ \A i \in 1..Len(s) : t[i] = copy[s[i]]
    BY <2>1
  <2>5. \A i \in 1..Len(s) : Face'[t[i]] = Face[s[i]]
    BY <2>2, <2>4
  <2>6. Img(Face', t) = Img(Face, s)
    BY <2>4, <2>5 DEF Img
  <2> QED
    BY <2>3, <2>6
<1>10. Shown' = [Shown EXCEPT ![h] = Shown[g]]
  <2>1. \A k \in Group, d \in File : Shown'[k][d] = [Shown EXCEPT ![h] = Shown[g]][k][d]
    BY <1>8, <1>9, ShownIsFun
  <2> QED
    BY <2>1, ShownIsFun
<1>11. U!Fork(g, h)
  <2>1. \A d \in File : Shown[h][d] = <<>>
    BY <1>4, ShownNone
  <2> QED
    BY <1>10, <2>1 DEF U!Fork, U!Empty
<1>12. File # {}
  BY NameSpaceAssumption
<1> QED
  BY <1>4, <1>11 DEF U!Next

(* The second step leaves the old group, and its unions go with the last   *)
(* that leaves it.                                                         *)
LEMMA LeaveShows ==
  ASSUME IndInv, TypeOK', FilesKept, NEW p \in Proc, LeaveEdits(p), Shown' # Shown
  PROVE  U!Next
<1>1. PICK g, h, last : Leaves(p, g, h, last)
  BY DEF LeaveEdits
<1>2. TypeOK /\ ListInv
  BY DEF IndInv
<1>3. /\ \A k \in Group, d \in File : ~(last /\ k = g) => List(k, d)' = List(k, d)
      /\ \A k \in Group : \A m \in Table(k) : m \in Mount /\ mount[m].live
  BY <1>1, <1>2, LeavesLists
<1>4. /\ g \in Group
      /\ \A k \in Group, d \in File : head'[k][d] = IF last /\ k = g THEN NoHead ELSE head[k][d]
      /\ \A m \in Mount : mount'[m].to = mount[m].to
  BY <1>1 DEF Leaves
<1>5. ASSUME NEW k \in Group, NEW d \in File, ~(last /\ k = g)
      PROVE  Shown'[k][d] = Shown[k][d]
  <2>1. List(k, d) \in Seq(Mount) /\ \A m \in MountsOn(k, d) : m \in Mount /\ mount[m].live
    BY <1>2, TableLive
  <2>2. \A m \in MountsOn(k, d) : Face'[m] = Face[m]
    BY <1>4, <2>1, FaceStays
  <2> QED
    BY <1>3, <1>5, <2>1, <2>2, ShownStays
<1>6. CASE ~last
  <2>1. Shown' = Shown
    BY <1>5, <1>6, ShownIsFun
  <2> QED
    BY <2>1
<1>7. CASE last
  <2>1. \A d \in File : Shown'[g][d] = <<>>
    BY <1>4, <1>7, ShownNone
  <2>2. Shown' = [Shown EXCEPT ![g] = [d \in File |-> <<>>]]
    <3>1. \A k \in Group, d \in File : Shown'[k][d] = [Shown EXCEPT ![g] = [e \in File |-> <<>>]][k][d]
      BY <1>5, <2>1, ShownIsFun
    <3> QED
      BY <3>1, ShownIsFun
  <2>3. U!Release(g)
    BY <2>2 DEF U!Release
  <2> QED
    BY <1>4, <2>3 DEF U!Next
<1> QED
  BY <1>6, <1>7

(* What a bind mounts: a file, or a union from one of its members on. *)
LEMMA BoundIs ==
  ASSUME IndInv, NEW p \in Proc, Ready(p, "bind"), NEW g, NEW new, NEW old, NEW more,
         BindOf(p, g, new, old, more), NEW s \in Seq(File), Len(s) = Len(more) + 1,
         s[1] = FileOf(new), \A i \in 1..Len(more) : s[i + 1] = Face[more[i]]
  PROVE  s \in U!Bindable(g)
<1>1. /\ g = grp[p] /\ new = got[p][1]
      /\ more = IF ch.of[new].mnt = Nil THEN <<>> ELSE Tail(ListFrom(ch.of[new].mnt))
  BY DEF BindOf
<1>2. /\ g \in Group /\ job[p].op = "bind" /\ new \in Chan /\ got[p] = <<new, old>>
      /\ ch.of[new].file \in File /\ more \in Seq(Mount)
  BY BindHas
<1>3. CASE ch.of[new].mnt = Nil
  <2>1. Len(s) = 1 /\ s[1] = FileOf(new) /\ FileOf(new) \in File
    BY <1>1, <1>2, <1>3 DEF FileOf
  <2>2. s = <<FileOf(new)>>
    <3>s. SUFFICES ASSUME NEW x \in File, x = FileOf(new)
                   PROVE  s = <<x>>
      BY <2>1
    <3> DEFINE y == <<x>>
    <3>1. y \in Seq(File) /\ Len(y) = 1 /\ y[1] = x
      OBVIOUS
    <3> HIDE DEF y
    <3>2. \A i \in 1..Len(s) : s[i] = y[i]
      <4>1. s[1] = y[1] /\ \A i \in 1..1 : i = 1
        BY <2>1, <3>1, <3>s
      <4> QED
        BY <2>1, <4>1
    <3>3. s = y
      BY <2>1, <3>1, <3>2, SameSeq
    <3> QED
      BY <3>3 DEF y
  <2> QED
    BY <2>1, <2>2 DEF U!Bindable
<1>4. CASE ch.of[new].mnt # Nil
  <2>s. SUFFICES ASSUME NEW k, k = ch.of[new].mnt
                 PROVE  s \in U!Bindable(g)
    OBVIOUS
  <2>1. Names(job[p]) = << <<job[p].what, "access">>, <<job[p].on, "mount">> >>
    BY <1>2 DEF Names
  <2>2. Names(job[p])[1][2] = "access" /\ 1 \in 1..Len(got[p])
    BY <1>2, <2>1
  <2>3. TypeOK /\ ListInv /\ GotShows(p, 1)
    BY <2>2 DEF IndInv, ShowsInv, Showing
  <2>4. k \in Table(g) /\ FileOf(new) = FileOf(To(k))
    BY <1>1, <1>4, <2>2, <2>3, <2>s DEF GotShows, ShowsIn
  <2>5. PICK e \in File : k \in MountsOn(g, e)
    BY <2>4 DEF Table
  <2> DEFINE ms == List(g, e)
             q == ListFrom(k)
  <2>6. /\ ms \in Seq(Mount) /\ k \in Mount /\ mount[k].live
        /\ q \in Seq(Mount) /\ q # <<>> /\ q[1] = k
        /\ \E j \in 1..Len(ms) : q = Cut(ms, j, Len(ms))
    BY <1>2, <2>3, <2>5, TableLive DEF Cut
  <2>7. more = Tail(q)
    BY <1>1, <1>4, <2>s
  <2>8. Shown[g][e] = Img(Face, ms)
    BY <1>2, <2>6, ShownOn
  <2> HIDE DEF ms, q
  <2>9. PICK j \in 1..Len(ms) : q = Cut(ms, j, Len(ms))
    BY <2>6
  <2>10. Img(Face, q) = Cut(Img(Face, ms), j, Len(ms)) /\ Len(Img(Face, ms)) = Len(ms)
    <3>1. Face \in [Mount -> {Face[m] : m \in Mount}]
      BY DEF Face
    <3>2. SubOf(Mount, {Face[m] : m \in Mount}, Face, ms, j, Len(ms))
      BY <2>6, <3>1 DEF SubOf
    <3>3. Img(Face, Cut(ms, j, Len(ms))) = Cut(Img(Face, ms), j, Len(ms))
      BY <3>2, ImgSub
    <3>4. Len(Img(Face, ms)) = Len(ms)
      BY <2>6 DEF Img
    <3> QED
      BY <2>9, <3>3, <3>4, Zenon
  <2>11. Img(Face, q) = s
    <3>1. /\ Len(q) \in Nat /\ Len(q) # 0 /\ Len(more) = Len(q) - 1
          /\ \A i \in 1..(Len(q) - 1) : more[i] = q[i + 1]
      BY <2>6, <2>7
    <3>2. Len(s) = Len(q)
      BY <3>1
    <3>3. Face[k] = FileOf(To(k))
      BY <2>6, MountedFile
    <3>4. ASSUME NEW i \in 1..Len(q) PROVE Face[q[i]] = s[i]
      <4>1. CASE i = 1
        BY <2>4, <2>6, <3>3, <4>1
      <4>2. CASE i # 1
        <5>s. SUFFICES ASSUME NEW l \in 1..(Len(q) - 1), i = l + 1
                       PROVE  Face[q[i]] = s[i]
          <6>1. i - 1 \in 1..(Len(q) - 1) /\ i = (i - 1) + 1
            BY <3>1, <4>2
          <6> QED
            BY <6>1
        <5>1. l \in 1..Len(more)
          BY <3>1
        <5>2. s[l + 1] = Face[more[l]] /\ more[l] = q[l + 1]
          BY <3>1, <5>1
        <5> QED
          BY <5>2, <5>s
      <4> QED
        BY <4>1, <4>2
    <3>5. Img(Face, q) = [i \in 1..Len(q) |-> s[i]]
      BY <3>4 DEF Img
    <3>6. s = [i \in 1..Len(s) |-> s[i]]
      OBVIOUS
    <3> QED
      BY <3>2, <3>5, <3>6
  <2>12. s \in U!Suffixes(Shown[g][e])
    <3>1. s = SubSeq(Shown[g][e], j, Len(Shown[g][e])) /\ j \in 1..Len(Shown[g][e])
      BY <2>8, <2>10, <2>11, Zenon DEF Cut
    <3> QED
      BY <3>1 DEF U!Suffixes
  <2> QED
    BY <2>12 DEF U!Bindable
<1> QED
  BY <1>3, <1>4

LEMMA TwoIs ==
  ASSUME NEW A, NEW a \in A, NEW b \in A
  PROVE  <<a>> \o <<b>> = <<a, b>>
<1> DEFINE x == <<a>>
           y == <<b>>
           z == <<a, b>>
           q == x \o y
<1>1. x \in Seq(A) /\ Len(x) = 1 /\ x[1] = a /\ y \in Seq(A) /\ Len(y) = 1 /\ y[1] = b
  OBVIOUS
<1>2. z \in Seq(A) /\ Len(z) = 2 /\ z[1] = a /\ z[2] = b
  OBVIOUS
<1> HIDE DEF x, y, z
<1>3. /\ q \in Seq(A) /\ Len(q) = Len(x) + Len(y)
      /\ \A i \in 1..Len(q) : /\ i <= Len(x) => i \in 1..Len(x) /\ q[i] = x[i]
                              /\ ~(i <= Len(x)) => i - Len(x) \in 1..Len(y) /\ q[i] = y[i - Len(x)]
  BY <1>1, CatIs
<1> HIDE DEF q
<1>4. q = z
  BY <1>1, <1>2, <1>3, SameSeq
<1> QED
  BY <1>4 DEF q, x, y, z

(* The files of its new mounts. *)
LEMMA NewShow ==
  ASSUME IndInv, NEW p \in Proc, NEW g, NEW d, NEW new, NEW old, NEW order, NEW more, NEW self, NEW to,
         NEW ms, NEW chain, BindDone(p, g, d, new, old, order, more, self, to, ms, chain)
  PROVE  LET n == Len(self)
             b == Img(Face', Cut(ms, n + 1, Len(ms)))
         IN /\ self = <<>> \/ self = <<old>>
            /\ Img(Face', Cut(ms, 1, n)) = IF self = <<>> THEN <<>> ELSE <<d>>
            /\ b \in U!Bindable(g) /\ b \in Seq(File)
            /\ Cut(ms, 1, n) \in Seq(Mount) /\ Cut(ms, n + 1, Len(ms)) \in Seq(Mount)
<1> DEFINE n == Len(self)
           u == Cut(ms, 1, n)
           v == Cut(ms, n + 1, Len(ms))
           t == ToOf(more)
           k == Len(more)
<1>1. /\ Ready(p, "bind") /\ Binds(p, g, d, new, old, order, more, self, to) /\ BindOf(p, g, new, old, more)
      /\ d = FileOf(old) /\ self = OwnMember(head[g][d].from, old, order)
      /\ ms \in Seq(Mount) /\ Len(ms) = Len(to) /\ \A j \in 1..Len(to) : mount'[ms[j]].to = to[j]
      /\ SameButRefs(ch, ch')
  BY DEF BindDone, Binds
<1>2. /\ new \in Chan /\ old \in Chan /\ FileOf(new) \in File /\ FileOf(old) \in File
      /\ more \in Seq(Mount) /\ \A m \in ToSet(more) : m \in Mount /\ mount[m].live
  BY <1>1, BindHas DEF FileOf
<1>3. self = <<>> \/ self = <<old>>
  BY <1>1 DEF OwnMember
<1>4. to = (self \o <<new>>) \o t
  BY <1>1 DEF Binds
<1>5. /\ k \in Nat
      /\ \A i \in 1..k : /\ more[i] \in Mount /\ mount[more[i]].live /\ t[i] = To(more[i]) /\ t[i] \in Chan
                         /\ Face[more[i]] = FileOf(t[i]) /\ FileOf(t[i]) \in File
  <2>1. k \in Nat /\ \A i \in 1..k : more[i] \in Mount /\ mount[more[i]].live
    BY <1>2, SeqIs
  <2>2. \A m \in Mount : mount[m].live => To(m) \in Chan
    BY DEF IndInv, ListInv
  <2>3. \A i \in 1..k : t[i] = To(more[i])
    BY DEF ToOf
  <2> QED
    BY <2>1, <2>2, <2>3, MountedFile
<1>6. t \in Seq(Chan) /\ Len(t) = k
  <2>1. t = [i \in 1..k |-> To(more[i])]
    BY DEF ToOf
  <2>2. \A i \in 1..k : To(more[i]) \in Chan
    BY <1>5
  <2> HIDE DEF k
  <2> QED
    BY <1>5, <2>1, <2>2
<1> HIDE DEF t, k
<1>7. /\ n \in {0, 1} /\ (n = 0 <=> self = <<>>) /\ Len(to) = n + 1 + k
      /\ to[n + 1] = new /\ (n = 1 => to[1] = old)
      /\ \A i \in 1..k : to[n + 1 + i] = t[i]
  <2>1. CASE self = <<>>
    <3>1. to = <<new>> \o t /\ n = 0
      BY <1>4, <2>1
    <3>2. <<new>> \in Seq(Chan) /\ Len(<<new>>) = 1
      BY <1>2
    <3> HIDE DEF n
    <3>3. Len(to) = 1 + k /\ to[1] = new /\ \A i \in 1..k : to[1 + i] = t[i]
      BY <1>5, <1>6, <3>1, <3>2
    <3> QED
      BY <1>5, <2>1, <3>1, <3>3
  <2>2. CASE self = <<old>>
    <3>1. to = <<old, new>> \o t /\ n = 1 /\ self # <<>>
      <4>1. <<old>> \o <<new>> = <<old, new>>
        BY <1>2, TwoIs
      <4> QED
        BY <1>4, <2>2, <4>1
    <3>2. <<old, new>> \in Seq(Chan) /\ Len(<<old, new>>) = 2
      BY <1>2
    <3> HIDE DEF n
    <3>3. Len(to) = 2 + k /\ to[1] = old /\ to[2] = new /\ \A i \in 1..k : to[2 + i] = t[i]
      BY <1>5, <1>6, <3>1, <3>2
    <3> QED
      BY <1>5, <2>2, <3>1, <3>3
  <2> QED
    BY <1>3, <2>1, <2>2
<1> HIDE DEF n
<1>8. ASSUME NEW j \in 1..Len(ms) PROVE Face'[ms[j]] = ch'.of[to[j]].file /\ ms[j] \in Mount
  <2>1. ms[j] \in Mount /\ mount'[ms[j]].to = to[j]
    BY <1>1
  <2> QED
    BY <2>1 DEF Face, FileOf, To
<1>9. ASSUME NEW x \in Chan PROVE ch'.of[x].file = FileOf(x)
  BY <1>1 DEF SameButRefs, FileOf
<1>10. /\ u \in Seq(Mount) /\ Len(u) = n /\ \A i \in 1..n : u[i] = ms[i]
       /\ v \in Seq(Mount) /\ Len(v) = k + 1 /\ \A i \in 1..(k + 1) : v[i] = ms[n + i]
  <2>1. Len(ms) = n + 1 + k /\ ms \in Seq(Mount) /\ k \in Nat
    BY <1>1, <1>5, <1>7
  <2>2. u \in Seq(Mount) /\ Len(u) = n /\ \A i \in 1..n : u[i] = ms[i]
    <3>1. 1 \in 1..(Len(ms) + 1) /\ n \in 0..Len(ms)
      BY <1>7, <2>1
    <3> QED
      BY <1>7, <2>1, <3>1 DEF Cut
  <2>3. v \in Seq(Mount) /\ Len(v) = k + 1 /\ \A i \in 1..(k + 1) : v[i] = ms[n + i]
    <3>1. n + 1 \in 1..(Len(ms) + 1) /\ Len(ms) \in 0..Len(ms)
      BY <1>7, <2>1
    <3> QED
      BY <1>7, <2>1, <3>1 DEF Cut
  <2> QED
    BY <2>2, <2>3
<1> DEFINE b == Img(Face', v)
<1>11. /\ Len(b) = k + 1 /\ b[1] = FileOf(new) /\ \A i \in 1..k : b[i + 1] = Face[more[i]]
       /\ b \in Seq(File)
  <2>0. \A i \in 1..(k + 1) : n + i \in 1..Len(ms)
    BY <1>1, <1>5, <1>7
  <2>1. Len(b) = k + 1 /\ \A i \in 1..(k + 1) : b[i] = Face'[v[i]]
    BY <1>10, <1>5 DEF Img
  <2> HIDE DEF b
  <2>2. \A i \in 1..(k + 1) : b[i] = ch'.of[to[n + i]].file
    BY <1>8, <1>10, <2>0, <2>1
  <2>3. b[1] = FileOf(new)
    <3>1. 1 \in 1..(k + 1)
      BY <1>5
    <3> QED
      BY <1>2, <1>7, <1>9, <2>2, <3>1
  <2>4. ASSUME NEW i \in 1..k PROVE b[i + 1] = Face[more[i]]
    <3>1. i + 1 \in 1..(k + 1) /\ n + (i + 1) = n + 1 + i
      BY <1>5, <1>7
    <3>2. b[i + 1] = ch'.of[to[n + 1 + i]].file
      BY <2>2, <3>1
    <3>3. to[n + 1 + i] = t[i] /\ t[i] \in Chan /\ Face[more[i]] = FileOf(t[i])
      BY <1>5, <1>7
    <3> QED
      BY <1>9, <3>2, <3>3
  <2>5. \A i \in 1..(k + 1) : b[i] \in File
    <3>1. \A i \in 1..(k + 1) : i = 1 \/ \E l \in 1..k : i = l + 1
      <4>1. \A i \in 1..(k + 1) : i = 1 \/ (i - 1 \in 1..k /\ i = (i - 1) + 1)
        BY <1>5
      <4> QED
        BY <4>1
    <3>2. \A i \in 1..k : Face[more[i]] \in File
      BY <1>5
    <3> QED
      BY <1>2, <2>3, <2>4, <3>1, <3>2
  <2>6. b \in Seq(File)
    <3>1. b = [i \in 1..(k + 1) |-> b[i]]
      BY <1>10 DEF b, Img
    <3> QED
      BY <1>5, <2>5, <3>1
  <2> QED
    BY <2>1, <2>3, <2>4, <2>6
<1> HIDE DEF b
<1>12. b \in U!Bindable(g)
  <2>1. Len(b) = Len(more) + 1 /\ \A i \in 1..Len(more) : b[i + 1] = Face[more[i]]
    BY <1>11 DEF k
  <2> QED
    BY <1>1, <1>11, <2>1, BoundIs
<1>13. Img(Face', u) = IF self = <<>> THEN <<>> ELSE <<d>>
  <2>1. CASE self = <<>>
    BY <1>7, <1>10, <2>1 DEF Img
  <2>2. CASE self # <<>>
    <3>1. n = 1 /\ 1 \in 1..Len(ms)
      BY <1>1, <1>5, <1>7, <2>2
    <3>2. Face'[u[1]] = d
      BY <1>1, <1>2, <1>7, <1>8, <1>9, <1>10, <3>1
    <3>3. Len(u) = 1
      BY <1>10, <3>1
    <3>4. Img(Face', u) = [i \in 1..1 |-> d]
      <4>1. \A i \in 1..1 : Face'[u[i]] = d
        BY <3>2
      <4> QED
        BY <3>3, <4>1 DEF Img
    <3> HIDE DEF u
    <3>5. [i \in 1..1 |-> d] = <<d>>
      OBVIOUS
    <3> QED
      BY <2>2, <3>4, <3>5
  <2> QED
    BY <2>1, <2>2
<1> QED
  BY <1>3, <1>10, <1>11, <1>12, <1>13 DEF b, n

(* A bind adds what it mounts to the union of the directory, which is a    *)
(* member of it when nothing was mounted there, or puts it in its place.   *)
LEMMA BindShows ==
  ASSUME IndInv, TypeOK', FilesKept, NEW p \in Proc, BindEdits(p), Shown' # Shown
  PROVE  U!Next
<1>1. PICK g, d, new, old, order, more, self, to, ms, chain :
           BindDone(p, g, d, new, old, order, more, self, to, ms, chain)
  BY DEF BindEdits
<1> DEFINE u == Cut(ms, 1, Len(self))
           v == Cut(ms, Len(self) + 1, Len(ms))
           l == List(g, d)
           fu == Img(Face', u)
           fv == Img(Face', v)
           fl == Img(Face, l)
<1>2. /\ g \in Group /\ d \in File /\ Edited(g, d, chain)
      /\ self = OwnMember(head[g][d].from, old, order)
      /\ chain = Joined(order, IF order = "replace" THEN <<>> ELSE Cat(u, l), v)
  BY <1>1 DEF BindDone, Binds, Cut, Cat
<1>3. /\ fu = (IF self = <<>> THEN <<>> ELSE <<d>>)
      /\ fv \in U!Bindable(g) /\ fv \in Seq(File)
      /\ u \in Seq(Mount) /\ v \in Seq(Mount)
  BY <1>1, NewShow
<1>4. /\ Shown' = [Shown EXCEPT ![g][d] = Img(Face', chain)]
      /\ \A m \in Mount : mount[m].live /\ m \in ToSet(chain) => Face'[m] = Face[m]
      /\ Shown[g][d] = fl
  BY <1>2, EditShows
<1>5. TypeOK /\ ListInv
  BY DEF IndInv
<1>6. /\ l \in Seq(Mount) /\ \A m \in ToSet(l) : m \in Mount /\ mount[m].live
      /\ head[g][d].from = Nil <=> head[g][d].mount = Nil
      /\ head[g][d].mount = (IF l = <<>> THEN Nil ELSE l[1])
  <2>1. l \in Seq(Mount) /\ \A m \in ToSet(l) : m \in Mount /\ mount[m].live
    BY <1>2, <1>5, TableLive DEF MountsOn
  <2>2. /\ head[g][d].from = Nil <=> head[g][d].mount = Nil
        /\ head[g][d].mount = (IF l = <<>> THEN Nil ELSE l[1])
    BY <1>2, <1>5 DEF ListInv, IsList
  <2> QED
    BY <2>1, <2>2
<1>7. fl \in Seq(File) /\ Len(fl) = Len(l) /\ (fl = <<>> <=> l = <<>>)
  <2>1. \A i \in 1..Len(l) : Face[l[i]] \in File
    BY <1>6, MountedFile, SeqIs
  <2> HIDE DEF l
  <2>2. fl = [i \in 1..Len(l) |-> Face[l[i]]] /\ Len(l) \in Nat
    BY <1>6 DEF Img
  <2>3. fl \in Seq(File) /\ Len(fl) = Len(l)
    BY <2>1, <2>2
  <2> HIDE DEF fl
  <2> QED
    BY <1>6, <2>3
<1>8. head[g][d].from = Nil <=> l = <<>>
  <2>1. l # <<>> => l[1] # Nil
    BY <1>6, NameSpaceAssumption DEF Mount, Nil
  <2> QED
    BY <1>6, <2>1
<1> HIDE DEF u, v, l, fu, fv, fl
<1>9. order = "replace" => U!Replace(g, d, fv)
  <2> HAVE order = "replace"
  <2>1. chain = v
    <3>1. chain = v \o <<>>
      BY <1>2 DEF Joined
    <3> QED
      BY <1>3, <3>1
  <2> QED
    BY <1>4, <2>1 DEF fv, U!Replace, U!Becomes
<1>10. ASSUME order # "replace"
       PROVE  Cat(fu, fl) = U!Base(g, d) /\ Cat(fu, fl) \in Seq(File)
  <2>1. CASE head[g][d].from = Nil
    <3>1. fu = <<d>> /\ fl = <<>>
      BY <1>2, <1>3, <1>7, <1>8, <1>10, <2>1 DEF OwnMember
    <3>2. <<d>> \o <<>> = <<d>>
      BY <1>2
    <3> QED
      BY <1>2, <1>4, <3>1, <3>2 DEF Cat, U!Base
  <2>2. CASE head[g][d].from # Nil
    <3>1. fu = <<>> /\ fl # <<>>
      BY <1>2, <1>3, <1>7, <1>8, <2>2 DEF OwnMember
    <3>2. <<>> \o fl = fl
      BY <1>7
    <3> QED
      BY <1>4, <1>7, <3>1, <3>2 DEF Cat, U!Base
  <2> QED
    BY <2>1, <2>2
<1> DEFINE F == {Face'[m] : m \in Mount}
           b == Cat(u, l)
<1>11. Face' \in [Mount -> F]
  BY DEF Face
<1>12. ASSUME order # "replace"
       PROVE  b \in Seq(Mount) /\ Img(Face', b) = U!Base(g, d)
  <2>1. ToSet(l) \subseteq ToSet(chain)
    <3>1. b \in Seq(Mount) /\ ToSet(b) = ToSet(u) \cup ToSet(l)
      BY <1>3, <1>6, CountConcat DEF Cat
    <3>2. chain = v \o b \/ chain = b \o v
      BY <1>2, <1>12 DEF Joined
    <3> HIDE DEF b
    <3>3. ToSet(v \o b) = ToSet(v) \cup ToSet(b) /\ ToSet(b \o v) = ToSet(b) \cup ToSet(v)
      <4>1. v \in Seq(Mount) /\ b \in Seq(Mount)
        BY <1>3, <3>1
      <4> QED
        BY <4>1, CountConcat
    <3> QED
      BY <3>1, <3>2, <3>3
  <2>2. Img(Face', l) = fl
    <3>1. \A m \in ToSet(l) : Face'[m] = Face[m]
      BY <1>4, <1>6, <2>1
    <3> QED
      BY <1>6, <3>1, ImgSame DEF fl
  <2>3. ConcatOf(Mount, F, Face', u, l)
    BY <1>3, <1>6, <1>11 DEF ConcatOf
  <2>4. b \in Seq(Mount) /\ Img(Face', b) = Cat(Img(Face', u), Img(Face', l))
    BY <2>3, ImgConcat
  <2>5. Cat(fu, fl) = U!Base(g, d)
    BY <1>10, <1>12
  <2> QED
    BY <2>2, <2>4, <2>5, Zenon DEF fu
<1> HIDE DEF b, F
<1>13. ASSUME order # "replace"
       PROVE  \/ Shown' = [Shown EXCEPT ![g][d] = Cat(U!Base(g, d), fv)]
              \/ Shown' = [Shown EXCEPT ![g][d] = Cat(fv, U!Base(g, d))]
  <2>1. ConcatOf(Mount, F, Face', b, v) /\ ConcatOf(Mount, F, Face', v, b)
    BY <1>3, <1>11, <1>12, <1>13 DEF ConcatOf
  <2>2. /\ Img(Face', Cat(b, v)) = Cat(Img(Face', b), Img(Face', v))
        /\ Img(Face', Cat(v, b)) = Cat(Img(Face', v), Img(Face', b))
    BY <2>1, ImgConcat
  <2>3. /\ Img(Face', Cat(b, v)) = Cat(U!Base(g, d), fv)
        /\ Img(Face', Cat(v, b)) = Cat(fv, U!Base(g, d))
    BY <1>12, <1>13, <2>2, Zenon DEF fv
  <2>4. chain = Cat(b, v) \/ chain = Cat(v, b)
    BY <1>2, <1>13 DEF Joined, Cat, b
  <2> QED
    BY <1>4, <2>3, <2>4, Zenon
<1>14. order # "replace" => U!Before(g, d, fv) \/ U!After(g, d, fv)
  BY <1>13 DEF Cat, U!Before, U!After, U!Becomes
<1>15. U!Replace(g, d, fv) \/ U!Before(g, d, fv) \/ U!After(g, d, fv)
  BY <1>9, <1>14
<1> QED
  BY <1>2, <1>3, <1>15 DEF U!Next

(* Only bind, unmount and fork write the mount table. *)
LEMMA OthersLeave ==
  ASSUME NEW p \in Proc,
         \/ \E q \in Calls[p] : Ask(p, q)
         \/ Start(p) \/ DoMount(p) \/ Walk(p) \/ WalkUnion(p) \/ WalkFails(p) \/ Walked(p)
         \/ Undo(p, "undo", "unclone", "dev") \/ Unclone(p, "unclone", "dev")
         \/ Undo(p, "undo2", "unclone2", "walked") \/ Unclone(p, "unclone2", "walked")
         \/ Refuse(p)
         \/ Open(p) \/ CloseFd(p) \/ Read(p) \/ ReadFile(p)
         \/ ChdirClose(p) \/ ChdirSet(p)
  PROVE  mount' = mount /\ head' = head
<1>1. CASE \E q \in Calls[p] : Ask(p, q)
  BY <1>1 DEF Ask, tables
<1>2. CASE Start(p)
  BY <1>2 DEF Start, tables
<1>3. CASE DoMount(p)
  BY <1>3 DEF DoMount, tables
<1>4. CASE Walk(p)
  BY <1>4, Zenon DEF Walk, tables
<1>5. CASE WalkUnion(p)
  BY <1>5, Zenon DEF WalkUnion, tables
<1>6. CASE WalkFails(p)
  BY <1>6 DEF WalkFails, tables
<1>7. CASE Walked(p)
  BY <1>7 DEF Walked, tables
<1>8. \A here, mid, next : Undo(p, here, mid, next) => mount' = mount /\ head' = head
  BY DEF Undo, tables
<1>9. \A mid, next : Unclone(p, mid, next) => mount' = mount /\ head' = head
  BY DEF Unclone, tables
<1>10. CASE Refuse(p) \/ Open(p) \/ CloseFd(p) \/ Read(p) \/ ReadFile(p)
  BY <1>10 DEF Refuse, Open, CloseFd, Read, ReadFile, tables
<1>11. CASE ChdirClose(p) \/ ChdirSet(p)
  BY <1>11 DEF ChdirClose, ChdirSet, tables
<1> QED
  BY <1>1, <1>2, <1>3, <1>4, <1>5, <1>6, <1>7, <1>8, <1>9, <1>10, <1>11

(* Nothing is mounted at first. *)
LEMMA InitShows == Init => U!Init
<1> SUFFICES ASSUME Init PROVE U!Init
  OBVIOUS
<1>1. \A g \in Group, d \in File : head[g][d] = NoHead
  BY DEF Init
<1>2. \A g \in Group, d \in File : Shown[g][d] = <<>>
  BY <1>1, ShownNone
<1>3. [g \in Group |-> [d \in File |-> Shown[g][d]]] = [g \in Group |-> [d \in File |-> <<>>]]
  BY <1>2
<1> QED
  BY <1>3, ShownIsFun DEF U!Init

(* A step shows no more than a step of Unions. *)
LEMMA StepShows ==
  ASSUME IndInv, Orderly, [Next]_vars
  PROVE  [U!Next]_Shown
<1>1. SUFFICES ASSUME Shown' # Shown PROVE U!Next
  OBVIOUS
<1>2. IndInv' /\ FilesKept
  BY NextKeeps, StutterKeeps
<1>3. TypeOK'
  BY <1>2 DEF IndInv
<1>4. ~(mount' = mount /\ head' = head)
  BY <1>1, <1>2, SameShown
<1>5. Next
  BY <1>4 DEF vars, tables
<1>6. PICK p \in Proc : Bind(p) \/ Unmount(p) \/ ForkCopy(p) \/ ForkIds(p)
  BY <1>4, <1>5, OthersLeave DEF Next
<1>7. CASE Bind(p)
  BY <1>1, <1>2, <1>3, <1>7, BindKeeps, BindShows
<1>8. CASE Unmount(p)
  BY <1>1, <1>2, <1>3, <1>8, UnmountKeeps, UnmountShows
<1>9. CASE ForkCopy(p)
  BY <1>1, <1>2, <1>3, <1>9, ForkCopyKeeps, ForkShows
<1>10. CASE ForkIds(p)
  BY <1>1, <1>2, <1>3, <1>10, ForkIdsKeeps, LeaveShows
<1> QED
  BY <1>6, <1>7, <1>8, <1>9, <1>10

(* cmount, cunmount, pgrpcpy and closepgrp do what Unions promises: each   *)
(* step of them changes the union of one directory in one name space, or   *)
(* copies or drops those of one, and no other step of any call shows.      *)
THEOREM ShowsUnions == Orderly => (Spec => ImplementsUnions)
<1> SUFFICES ASSUME Orderly PROVE Spec => ImplementsUnions
  OBVIOUS
<1>1. Spec => []IndInv
  BY Inductive
<1>2. IndInv /\ [Next]_vars => [U!Next]_Shown
  BY StepShows
<1> QED
  BY <1>1, <1>2, InitShows, PTL DEF Spec, ImplementsUnions, U!Spec

=============================================================================
