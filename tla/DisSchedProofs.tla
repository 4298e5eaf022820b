--------------------------- MODULE DisSchedProofs ---------------------------
(***************************************************************************)
(* Proofs about DisSched, for every set of progs, channels and alts: its   *)
(* types, and then its safety invariants.                                  *)
(***************************************************************************)
EXTENDS DisSched, WellFoundedInduction, SequenceTheorems, TLAPS

AltPtrs == [Chans -> [Dirs -> Progs \union {NoProg}]]

Lists == [Chans -> [Dirs -> Seq(Progs)]]

(* A non-empty set of natural numbers has a least element. *)
LEMMA LeastNat ==
  ASSUME NEW T, T \subseteq Nat, T # {}
  PROVE  \E m \in T : \A n \in T : m <= n
<1>1. \E m \in T : \A n \in T : ~ (<<n, m>> \in OpToRel(<, Nat))
  BY NatLessThanWellFounded, WFMin
<1>2. PICK m \in T : \A n \in T : ~ (<<n, m>> \in OpToRel(<, Nat))
  BY <1>1
<1>3. \A n \in T : ~(n < m)
  BY <1>2, Zenon DEF OpToRel
<1>4. \A n \in T : m <= n
  BY <1>3
<1> QED
  BY <1>4

(* RemoveFirst, the loop of delrunq and killprog, cuts out one occurrence. *)
LEMMA RemoveFirstForm ==
  ASSUME NEW S, NEW s \in Seq(S), NEW e
  PROVE  \/ ~In(e, s) /\ RemoveFirst(s, e) = s
         \/ \E i \in 1..Len(s) :
              /\ s[i] = e
              /\ RemoveFirst(s, e) = SubSeq(s, 1, i - 1) \o SubSeq(s, i + 1, Len(s))
<1> DEFINE I == {i \in 1..Len(s) : s[i] = e}
<1>1. CASE I = {}
  <2>1. RemoveFirst(s, e) = s
    BY <1>1, Zenon DEF RemoveFirst
  <2>2. ~In(e, s)
    BY <1>1 DEF In
  <2> QED
    BY <2>1, <2>2
<1>2. CASE I # {}
  <2>0. I \subseteq Nat
    OBVIOUS
  <2>1. PICK m \in I : \A n \in I : m <= n
    BY <1>2, <2>0, LeastNat, Zenon
  <2>2. Min(I) \in I
    BY <2>1 DEF Min
  <2>3. SelectInSeq(s, LAMBDA v : v = e) = Min(I)
    BY <1>2, Zenon DEF SelectInSeq
  <2>4. \E i \in 1..Len(s) : s[i] = e
    BY <1>2
  <2>5. RemoveFirst(s, e) = SubSeq(s, 1, Min(I) - 1) \o SubSeq(s, Min(I) + 1, Len(s))
    BY <2>3, <2>4, Zenon DEF RemoveFirst, RemoveAt
  <2> QED
    BY <2>2, <2>5
<1> QED
  BY <1>1, <1>2

LEMMA RemoveFirstType ==
  ASSUME NEW S, NEW s \in Seq(S), NEW e
  PROVE  RemoveFirst(s, e) \in Seq(S)
<1>1. CASE RemoveFirst(s, e) = s
  BY <1>1
<1>2. ASSUME NEW i \in 1..Len(s),
             RemoveFirst(s, e) = SubSeq(s, 1, i - 1) \o SubSeq(s, i + 1, Len(s))
      PROVE  RemoveFirst(s, e) \in Seq(S)
  <2>1. SubSeq(s, 1, i - 1) \in Seq(S) /\ SubSeq(s, i + 1, Len(s)) \in Seq(S)
    OBVIOUS
  <2> QED
    BY <1>2, <2>1
<1> QED
  BY <1>1, <1>2, RemoveFirstForm

(* Removing another prog leaves the killer, at the head, in the run queue. *)
LEMMA RemoveFirstNonEmpty ==
  ASSUME NEW S, NEW s \in Seq(S), NEW e, s # <<>>, Head(s) # e
  PROVE  RemoveFirst(s, e) # <<>>
<1>1. CASE RemoveFirst(s, e) = s
  BY <1>1
<1>2. ASSUME NEW i \in 1..Len(s), s[i] = e,
             RemoveFirst(s, e) = SubSeq(s, 1, i - 1) \o SubSeq(s, i + 1, Len(s))
      PROVE  RemoveFirst(s, e) # <<>>
  <2>1. i > 1
    BY <1>2
  <2>2. /\ SubSeq(s, 1, i - 1) \in Seq(S) /\ Len(SubSeq(s, 1, i - 1)) = i - 1
        /\ SubSeq(s, i + 1, Len(s)) \in Seq(S)
    BY <2>1
  <2> DEFINE a == SubSeq(s, 1, i - 1)
             b == SubSeq(s, i + 1, Len(s))
  <2>3. Len(b) \in Nat /\ Len(a \o b) = Len(a) + Len(b)
    BY <2>2
  <2> HIDE DEF a, b
  <2>4. Len(a) = i - 1
    BY <2>2 DEF a
  <2>5. Len(a \o b) # 0
    BY <2>1, <2>3, <2>4
  <2>6. a \o b # <<>>
    BY <2>5
  <2> QED
    BY <1>2, <2>6 DEF a, b
<1> QED
  BY <1>1, <1>2, RemoveFirstForm

(* altdone and altrdy leave every alt pointer a prog or nil. *)
LEMMA UnmarkType ==
  ASSUME NEW ap \in AltPtrs, NEW a, NEW p
  PROVE  Unmark(ap, a, p) \in AltPtrs
  BY DEF Unmark, AltPtrs

LEMMA MarkType ==
  ASSUME altp \in AltPtrs, NEW a, NEW p \in Progs, NEW sends
  PROVE  Mark(a, p, sends) \in AltPtrs
  BY DEF Mark, AltPtrs

LEMMA DualType == \A d \in Dirs : Dual(d) \in Dirs
  BY DEF Dirs, Dual

LEMMA RotateType == ASSUME NEW q \in Seq(Progs) PROVE Rotate(q) \in Seq(Progs)
<1>1. CASE Len(q) > 1
  <2>1. Tail(q) \in Seq(Progs) /\ Head(q) \in Progs
    BY <1>1
  <2> QED
    BY <1>1, <2>1 DEF Rotate
<1>2. CASE ~(Len(q) > 1)
  BY <1>2 DEF Rotate
<1> QED
  BY <1>1, <1>2

LEMMA NoAltType == NoAlt \in AltStructs
  BY DEF NoAlt, AltStructs

(* The values Prog.state takes. *)
States == {"none", "Palt", "Psend", "Precv", "Pready", "Prelease", "Pexiting", "Pbroken"}

(* Making a prog ready keeps the run queue a queue of progs. *)
LEMMA AddRunType ==
  ASSUME TypeOK, NEW q \in Progs, AddRun(q)
  PROVE  /\ runq' \in Seq(Progs)
         /\ state' \in [Progs -> States]
         /\ hook' \in [Progs -> BOOLEAN]
<1>1. Append(runq, q) \in Seq(Progs)
  BY DEF TypeOK
<1> QED
  BY <1>1 DEF TypeOK, AddRun, States

(* A communication finds a real partner and leaves well-formed channels. *)
LEMMA TransferType ==
  ASSUME TypeOK, NEW p \in Progs, NEW c \in Chans, NEW d \in Dirs, NEW a, NEW mine,
         NEW marks \in AltPtrs,
         marks[c][Dual(d)] # NoProg \/ wait[c][Dual(d)] # <<>>,
         Transfer(p, c, d, a, mine, marks)
  PROVE  /\ altp' \in AltPtrs
         /\ wait' \in Lists
         /\ runq' \in Seq(Progs)
         /\ state' \in [Progs -> States]
         /\ hook' \in [Progs -> BOOLEAN]
<1> DEFINE e == Dual(d)
<1>1. e \in Dirs
  BY DualType
<1>2. wait \in Lists
  BY DEF TypeOK, Lists
<1>3. CASE marks[c][e] # NoProg
  <2> DEFINE q == marks[c][e]
             m == [marks EXCEPT ![c][e] = NoProg]
  <2>1. q \in Progs
    BY <1>1, <1>3 DEF AltPtrs
  <2>2. /\ altp' = Unmark(Unmark(m, alt[q], q), a, p)
        /\ wait' = wait
        /\ AddRun(q)
    BY <1>3 DEF Transfer
  <2>3. m \in AltPtrs
    BY <1>1 DEF AltPtrs
  <2>4. altp' \in AltPtrs
    BY <2>2, <2>3, UnmarkType
  <2> QED
    BY <1>2, <2>1, <2>2, <2>4, AddRunType
<1>4. CASE marks[c][e] = NoProg
  <2> DEFINE q == Head(wait[c][e])
  <2>1. wait[c][e] \in Seq(Progs) /\ wait[c][e] # <<>>
    BY <1>1, <1>2, <1>4 DEF Lists
  <2>2. q \in Progs /\ Tail(wait[c][e]) \in Seq(Progs)
    BY <2>1
  <2>3. /\ altp' = Unmark(marks, a, p)
        /\ wait' = [wait EXCEPT ![c][e] = Tail(wait[c][e])]
        /\ AddRun(q)
    BY <1>4 DEF Transfer
  <2>4. altp' \in AltPtrs
    BY <2>3, UnmarkType
  <2>5. wait' \in Lists
    BY <1>1, <1>2, <2>2, <2>3 DEF Lists
  <2> QED
    BY <2>2, <2>3, <2>4, <2>5, AddRunType
<1> QED
  BY <1>3, <1>4

(* The current prog exists, and the run queue without it is a run queue. *)
LEMMA CurrentType ==
  ASSUME TypeOK, NEW p \in Progs, Current(p)
  PROVE  Tail(runq) \in Seq(Progs)
  BY DEF TypeOK, Current

(* After a step of p that reuses its registers. *)
LEMMA ForgetType ==
  ASSUME TypeOK, NEW p \in Progs, Forget(p)
  PROVE  at' \in [Progs -> Globals \union {H}] /\ alt' \in [Progs -> AltStructs]
  BY NoAltType DEF TypeOK, Forget

(***************************************************************************)
(* The instructions isend, irecv, alt and nbalt keep the machine           *)
(* well-formed.                                                            *)
(***************************************************************************)
LEMMA ISendRecvType ==
  ASSUME TypeOK, NEW p \in Progs, NEW g \in Globals, NEW d \in Dirs, ISendRecv(p, g, d)
  PROVE  TypeOK'
<1> DEFINE c == slot[g]
<1>1. c \in Chans
  BY DEF TypeOK
<1>2. /\ alt' \in [Progs -> AltStructs]
      /\ kill' \in [Progs -> BOOLEAN]
      /\ host' = host /\ slot' = slot /\ builtin' = builtin
  BY NoAltType DEF ISendRecv, TypeOK
<1>3. Current(p)
  BY DEF ISendRecv, InXec
<1>4. CASE ~Waiting(c, Dual(d))
  <2>1. /\ Block(IF d = "send" THEN "Psend" ELSE "Precv", p)
        /\ wait' = [wait EXCEPT ![c][d] = Append(wait[c][d], p)]
        /\ at' = [at EXCEPT ![p] = g]
        /\ hook' = hook /\ altp' = altp
    BY <1>4 DEF ISendRecv
  <2>2. runq' \in Seq(Progs)
    BY <1>3, <2>1, CurrentType, RotateType DEF Block
  <2>3. Append(wait[c][d], p) \in Seq(Progs)
    BY <1>1 DEF TypeOK
  <2>4. wait' \in [Chans -> [Dirs -> Seq(Progs)]]
    BY <1>1, <2>1, <2>3 DEF TypeOK
  <2> QED
    BY <1>2, <2>1, <2>2, <2>4 DEF TypeOK, Block
<1>5. CASE Waiting(c, Dual(d))
  <2>1. /\ Transfer(p, c, d, NoAlt, NoSel, altp)
        /\ vm' = vm
        /\ at' = [at EXCEPT ![p] = H]
    BY <1>5 DEF ISendRecv
  <2>2. altp \in AltPtrs
    BY DEF TypeOK, AltPtrs
  <2>3. altp[c][Dual(d)] # NoProg \/ wait[c][Dual(d)] # <<>>
    BY <1>5 DEF Waiting
  <2>4. /\ altp' \in AltPtrs /\ wait' \in Lists /\ runq' \in Seq(Progs)
        /\ state' \in [Progs -> States] /\ hook' \in [Progs -> BOOLEAN]
    BY <1>1, <2>1, <2>2, <2>3, TransferType
  <2> QED
    BY <1>2, <2>1, <2>4 DEF TypeOK, AltPtrs, Lists, States
<1> QED
  BY <1>4, <1>5

LEMMA XecAltType ==
  ASSUME TypeOK, NEW p \in Progs, NEW a \in AltsOf[p], NEW block \in BOOLEAN,
         XecAlt(p, a, block)
  PROVE  TypeOK'
<1>1. a \in AltStructs
  BY AltAssumption
<1>2. /\ alt' \in [Progs -> AltStructs]
      /\ at' \in [Progs -> Globals \union {H}]
      /\ kill' = kill /\ host' = host /\ slot' = slot /\ builtin' = builtin
  BY <1>1 DEF XecAlt, TypeOK
<1>3. Current(p)
  BY DEF XecAlt, InXec
<1>4. altp \in AltPtrs
  BY DEF TypeOK, AltPtrs
<1>5. CASE AltClash(p, a)
  <2>1. PICK sends : altp' = Unmark(Mark(a, p, sends), a, p)
    BY <1>5 DEF AltClash
  <2>2. altp' \in AltPtrs
    BY <1>4, <2>1, MarkType, UnmarkType
  <2>3. Broken(p) /\ hook' = hook /\ wait' = wait
    BY <1>5 DEF AltClash
  <2> QED
    BY <1>2, <1>3, <2>2, <2>3, CurrentType DEF TypeOK, Broken, AltPtrs
<1>6. CASE AltNone(p, a, block)
  <2> DEFINE m == Mark(a, p, DOMAIN a.snd)
  <2>1. m \in AltPtrs /\ Unmark(m, a, p) \in AltPtrs
    BY <1>4, MarkType, UnmarkType
  <2>2. hook' = hook /\ wait' = wait
    BY <1>6 DEF AltNone
  <2>3. CASE block
    <3>1. altp' = m /\ Block("Palt", p)
      BY <1>6, <2>3 DEF AltNone
    <3>2. runq' \in Seq(Progs)
      BY <1>3, <3>1, CurrentType, RotateType DEF Block
    <3> QED
      BY <1>2, <2>1, <2>2, <3>1, <3>2 DEF TypeOK, Block, AltPtrs
  <2>4. CASE ~block
    <3>1. altp' = Unmark(m, a, p) /\ UNCHANGED <<runq, state, vm>>
      BY <1>6, <2>4 DEF AltNone
    <3> QED
      BY <1>2, <2>1, <2>2, <3>1 DEF TypeOK, AltPtrs
  <2> QED
    BY <2>3, <2>4
<1>7. CASE AltSome(p, a)
  <2> DEFINE m == Mark(a, p, DOMAIN a.snd)
  <2>1. PICK r \in Ready(a) : Transfer(p, r[1][1], r[2], a, <<r[1][2], r[1][3]>>, m)
    BY <1>7 DEF AltSome
  <2>2. r[1] \in Items(a, r[2]) /\ r[2] \in Dirs /\ r[1][1] # H
        /\ Waiting(r[1][1], Dual(r[2]))
    BY DEF Ready, Dirs
  <2>3. r[1][1] \in Chans
    BY <1>1, <2>2 DEF Items, AltStructs, Dirs
  <2>4. m \in AltPtrs
    BY <1>4, MarkType
  <2>5. Dual(r[2]) \in Dirs
    BY <2>2, DualType
  <2>6. m[r[1][1]][Dual(r[2])] # NoProg \/ wait[r[1][1]][Dual(r[2])] # <<>>
    BY <2>2, <2>3, <2>5, ProgAssumption DEF Waiting, Mark
  <2>7. /\ altp' \in AltPtrs /\ wait' \in Lists /\ runq' \in Seq(Progs)
        /\ state' \in [Progs -> States] /\ hook' \in [Progs -> BOOLEAN]
    BY <2>1, <2>2, <2>3, <2>4, <2>6, TransferType
  <2>8. vm' = vm
    BY <1>7 DEF AltSome
  <2> QED
    BY <1>2, <2>7, <2>8 DEF TypeOK, AltPtrs, Lists, States
<1> QED
  BY <1>5, <1>6, <1>7 DEF XecAlt

(* The other steps of progs and kernel processes. *)
LEMMA RunType ==
  ASSUME TypeOK, NEW p \in Progs,
         \/ EndQuantum(p) \/ Fault(p) \/ Exit(p) \/ Release(p)
         \/ Return(p) \/ \E q \in Progs : Spawn(p, q)
  PROVE  TypeOK'
<1>1. CASE EndQuantum(p) \/ Return(p)
  <2>1. runq' \in Seq(Progs)
    BY <1>1, RotateType DEF EndQuantum, Return, TypeOK
  <2>2. Forget(p) /\ builtin' \subseteq Progs
    BY <1>1 DEF EndQuantum, Return, Over, TypeOK
  <2> QED
    BY <1>1, <2>1, <2>2, ForgetType DEF EndQuantum, Return, TypeOK, chanvars
<1>2. CASE Fault(p)
  <2>1. builtin' \subseteq Progs
    BY <1>2 DEF Fault, Over, TypeOK
  <2> QED
    BY <1>2, <2>1, ForgetType, CurrentType
       DEF Fault, Broken, InXec, InCall, TypeOK, chanvars
<1>3. CASE Exit(p) \/ Release(p)
  <2>1. builtin' \subseteq Progs
    BY <1>3 DEF Exit, Release, TypeOK
  <2>2. /\ Current(p) /\ Forget(p)
        /\ runq' = Tail(runq) /\ state' = [state EXCEPT ![p] = "Prelease"]
        /\ vm' = "switch" /\ UNCHANGED <<kill, hook, wait, altp, slot>>
    BY <1>3 DEF Exit, Release, Leave, InXec, InCall, chanvars
  <2>3. host' = [host EXCEPT ![p] = "exit"] \/ host' = [host EXCEPT ![p] = "work"]
    BY <1>3 DEF Exit, Release, Leave
  <2>4. /\ runq' \in Seq(Progs) /\ at' \in [Progs -> Globals \union {H}]
        /\ alt' \in [Progs -> AltStructs]
    BY <2>2, ForgetType, CurrentType
  <2> QED
    BY <2>1, <2>2, <2>3, <2>4 DEF TypeOK
<1>4. ASSUME NEW q \in Progs, Spawn(p, q) PROVE TypeOK'
  BY <1>4, AddRunType DEF Spawn, NewProg, TypeOK, States, chanvars, memvars
<1> QED
  BY <1>1, <1>2, <1>3, <1>4

LEMMA HostType ==
  ASSUME TypeOK, NEW p \in Progs,
         ExitDone(p) \/ Acquire(p) \/ CSleep(p) \/ Unqueue(p)
  PROVE  TypeOK'
<1>1. CASE ExitDone(p)
  BY <1>1, ForgetType DEF ExitDone, Free, TypeOK, chanvars
<1>2. CASE Acquire(p)
  <2>1. runq' \in Seq(Progs)
    BY <1>2 DEF Acquire, TypeOK
  <2> QED
    BY <1>2, <2>1 DEF Acquire, TypeOK, chanvars, memvars
<1>3. CASE CSleep(p)
  BY <1>3 DEF CSleep, TypeOK, chanvars, memvars
<1>4. CASE Unqueue(p)
  <2>1. wait' \in [Chans -> [Dirs -> Seq(Progs)]]
    BY <1>4, RemoveFirstType DEF Unqueue, TypeOK
  <2> QED
    BY <1>4, <2>1 DEF Unqueue, TypeOK, memvars
<1> QED
  BY <1>1, <1>2, <1>3, <1>4

LEMMA CSendRecvType ==
  ASSUME TypeOK, NEW p \in Progs, NEW c \in Chans, NEW d \in Dirs, CSendRecv(p, c, d)
  PROVE  TypeOK'
<1>1. Current(p)
  BY DEF CSendRecv, InXec, InCall
<1>2. kill' = kill /\ slot' = slot /\ builtin' \subseteq Progs
  BY DEF CSendRecv, TypeOK
<1>3. CASE ~Waiting(c, Dual(d))
  <2>1. /\ wait' = [wait EXCEPT ![c][d] = Append(wait[c][d], p)]
        /\ hook' = [hook EXCEPT ![p] = TRUE]
        /\ Leave(p, "block") /\ Forget(p) /\ altp' = altp
    BY <1>3 DEF CSendRecv
  <2>2. Append(wait[c][d], p) \in Seq(Progs)
    BY DEF TypeOK
  <2>3. wait' \in [Chans -> [Dirs -> Seq(Progs)]]
    BY <2>1, <2>2 DEF TypeOK
  <2> QED
    BY <1>1, <1>2, <2>1, <2>3, CurrentType, ForgetType DEF TypeOK, Leave
<1>4. CASE Waiting(c, Dual(d))
  <2>1. /\ Transfer(p, c, d, NoAlt, NoSel, altp)
        /\ UNCHANGED <<host, at, alt>>
        /\ vm' \in {vm, "call"}
    BY <1>4 DEF CSendRecv
  <2>2. altp \in AltPtrs
    BY DEF TypeOK, AltPtrs
  <2>3. altp[c][Dual(d)] # NoProg \/ wait[c][Dual(d)] # <<>>
    BY <1>4 DEF Waiting
  <2>4. /\ altp' \in AltPtrs /\ wait' \in Lists /\ runq' \in Seq(Progs)
        /\ state' \in [Progs -> States] /\ hook' \in [Progs -> BOOLEAN]
    BY <2>1, <2>2, <2>3, TransferType
  <2> QED
    BY <1>2, <2>1, <2>4 DEF TypeOK, AltPtrs, Lists, States
<1> QED
  BY <1>3, <1>4

LEMMA KillType ==
  ASSUME TypeOK, NEW k \in Progs, NEW q \in Progs, Kill(k, q)
  PROVE  TypeOK'
<1>1. CASE KillSelf(k)
  BY <1>1 DEF KillSelf, TypeOK, chanvars, memvars
<1>2. CASE KillReleased(k, q)
  BY <1>2 DEF KillReleased, Interrupted, TypeOK, chanvars, memvars
<1>3. ASSUME Dequeued(q)
      PROVE  altp' \in AltPtrs /\ wait' \in Lists
  <2>1. altp' \in AltPtrs
    <3>1. altp \in AltPtrs
      BY DEF TypeOK, AltPtrs
    <3>2. altp' = Unmark(altp, alt[q], q) \/ altp' = altp
      BY <1>3 DEF Dequeued
    <3> QED
      BY <3>1, <3>2, UnmarkType
  <2>2. wait' \in Lists
    <3>1. wait \in Lists
      BY DEF TypeOK, Lists
    <3> DEFINE c == slot[at[q]]
               d == IF state[q] = "Psend" THEN "send" ELSE "recv"
    <3>2. \/ wait' = wait
          \/ wait' = [wait EXCEPT ![c][d] = RemoveFirst(wait[c][d], q)]
      BY <1>3 DEF Dequeued
    <3>3. d \in Dirs
      BY DEF Dirs
    <3>4. CASE c \in Chans
      <4>1. RemoveFirst(wait[c][d], q) \in Seq(Progs)
        BY <3>1, <3>3, <3>4, RemoveFirstType DEF Lists
      <4>2. \A x \in Chans, y \in Dirs, t \in Seq(Progs) :
              [wait EXCEPT ![x][y] = t] \in Lists
        BY <3>1 DEF Lists
      <4> HIDE DEF c, d
      <4> QED
        BY <3>1, <3>2, <3>3, <3>4, <4>1, <4>2
    <3>5. CASE c \notin Chans
      <4> HIDE DEF c, d
      <4> QED
        BY <3>1, <3>2, <3>5 DEF Lists
    <3> QED
      BY <3>4, <3>5
  <2> QED
    BY <2>1, <2>2
<1>4. RunqWithout(q) \in Seq(Progs)
  BY RemoveFirstType DEF RunqWithout, TypeOK
<1>5. CASE KillQueued(k, q)
  <2>1. RunqWithout(q) # <<>> => Tail(RunqWithout(q)) \in Seq(Progs)
    BY <1>4
  <2>2. RunqWithout(q) # <<>>
    BY <1>5, RemoveFirstNonEmpty DEF KillQueued, Kills, InCall, Current, RunqWithout, TypeOK
  <2> QED
    BY <1>3, <1>5, <2>1, <2>2, ForgetType DEF KillQueued, Free, TypeOK, AltPtrs, Lists
<1>6. CASE KillHooked(k, q)
  BY <1>3, <1>4, <1>6 DEF KillHooked, TypeOK, AltPtrs, Lists, memvars
<1> QED
  BY <1>1, <1>2, <1>5, <1>6 DEF Kill

(***************************************************************************)
(* Type correctness of the Dis machine: whatever the programs do and       *)
(* whatever is killed when, the run queue and the lists of the channels    *)
(* are lists of progs and every alt pointer is a prog or nil.              *)
(***************************************************************************)
THEOREM TypeCorrect == Spec => []TypeOK
<1>1. Init => TypeOK
  <2> SUFFICES ASSUME Init PROVE TypeOK
    OBVIOUS
  <2>1. runq \in Seq(Progs)
    BY ProgAssumption DEF Init
  <2>2. wait \in [Chans -> [Dirs -> Seq(Progs)]]
    BY DEF Init
  <2>3. slot \in [Globals -> Chans]
    BY ChanAssumption DEF Init
  <2> QED
    BY <2>1, <2>2, <2>3, NoAltType DEF Init, TypeOK
<1>2. TypeOK /\ [Next]_vars => TypeOK'
  <2> SUFFICES ASSUME TypeOK, [Next]_vars PROVE TypeOK'
    OBVIOUS
  <2>1. CASE Dispatch
    BY <2>1 DEF Dispatch, TypeOK, chanvars, memvars
  <2>2. ASSUME NEW p \in Progs, Step(p) PROVE TypeOK'
    <3>1. ASSUME NEW g \in Globals, ISend(p, g) \/ IRecv(p, g) PROVE TypeOK'
      BY <3>1, ISendRecvType DEF ISend, IRecv, Dirs
    <3>2. ASSUME NEW a \in AltsOf[p], NEW block \in BOOLEAN, XecAlt(p, a, block)
          PROVE  TypeOK'
      BY <3>2, XecAltType
    <3>3. ASSUME NEW c \in KChans, CSend(p, c) \/ CRecv(p, c) PROVE TypeOK'
      BY <3>3, CSendRecvType, ChanAssumption DEF CSend, CRecv, Dirs
    <3>4. ASSUME NEW q \in Progs, Kill(p, q) PROVE TypeOK'
      BY <3>4, KillType
    <3>5. CASE \/ EndQuantum(p) \/ Fault(p) \/ Exit(p) \/ Release(p)
               \/ Return(p) \/ \E q \in Progs : Spawn(p, q)
      BY <3>5, RunType
    <3>6. CASE ExitDone(p) \/ Acquire(p) \/ CSleep(p) \/ Unqueue(p)
      BY <3>6, HostType
    <3> QED
      BY <2>2, <3>1, <3>2, <3>3, <3>4, <3>5, <3>6 DEF Step
  <2>3. CASE UNCHANGED vars
    BY <2>3 DEF TypeOK, vars
  <2> QED
    BY <2>1, <2>2, <2>3 DEF Next
<1> QED
  BY <1>1, <1>2, PTL DEF Spec

-----------------------------------------------------------------------------
(* What the operations on the linked lists of the machine do. *)

(* addrun, and a prog that queues on a channel. *)
LEMMA AppendList ==
  ASSUME NEW S, NEW s \in Seq(S), NEW e \in S
  PROVE  /\ Append(s, e) # <<>>
         /\ \A x : In(x, Append(s, e)) <=> In(x, s) \/ x = e
         /\ Distinct(s) /\ ~In(e, s) => Distinct(Append(s, e))
         /\ s # <<>> => Head(Append(s, e)) = Head(s)
<1> DEFINE t == Append(s, e)
<1>1. /\ t \in Seq(S) /\ Len(t) = Len(s) + 1 /\ t[Len(s) + 1] = e
      /\ \A i \in 1..Len(s) : t[i] = s[i]
      /\ Len(s) \in Nat
  OBVIOUS
<1> HIDE DEF t
<1>2. DOMAIN t = 1..(Len(s) + 1) /\ DOMAIN s = 1..Len(s)
  BY <1>1
<1>3. t # <<>>
  BY <1>1
<1>4. \A x : In(x, t) <=> In(x, s) \/ x = e
  BY <1>1, <1>2 DEF In
<1>5. Distinct(s) /\ ~In(e, s) => Distinct(t)
  BY <1>1, <1>2 DEF In, Distinct
<1>6. s # <<>> => Head(t) = Head(s)
  BY <1>1
<1> QED
  BY <1>3, <1>4, <1>5, <1>6 DEF t

(* delrun and release: the head leaves. *)
LEMMA TailList ==
  ASSUME NEW S, NEW s \in Seq(S), s # <<>>, Distinct(s)
  PROVE  /\ Tail(s) \in Seq(S) /\ Head(s) \in S /\ In(Head(s), s)
         /\ \A x : In(x, Tail(s)) <=> In(x, s) /\ x # Head(s)
         /\ Distinct(Tail(s))
<1> DEFINE t == Tail(s)
<1>1. /\ t \in Seq(S) /\ Len(t) = Len(s) - 1 /\ Len(s) \in Nat /\ Len(s) > 0
      /\ \A i \in 1..(Len(s) - 1) : t[i] = s[i + 1]
      /\ Head(s) = s[1] /\ Head(s) \in S
  OBVIOUS
<1> HIDE DEF t
<1>2. DOMAIN t = 1..(Len(s) - 1) /\ DOMAIN s = 1..Len(s)
  BY <1>1
<1>3. In(Head(s), s)
  BY <1>1, <1>2 DEF In
<1>4. ASSUME NEW x PROVE In(x, t) <=> In(x, s) /\ x # Head(s)
  <2>1. ASSUME NEW i \in DOMAIN t, t[i] = x PROVE In(x, s) /\ x # Head(s)
    <3>1. s[i + 1] = x /\ i + 1 \in DOMAIN s /\ i + 1 # 1
      BY <1>1, <1>2, <2>1
    <3> QED
      BY <1>1, <1>2, <3>1 DEF In, Distinct
  <2>2. ASSUME NEW i \in DOMAIN s, s[i] = x, x # Head(s) PROVE In(x, t)
    <3>1. i - 1 \in DOMAIN t /\ t[i - 1] = x
      BY <1>1, <1>2, <2>2
    <3> QED
      BY <3>1 DEF In
  <2> QED
    BY <2>1, <2>2 DEF In
<1>5. Distinct(t)
  <2> SUFFICES ASSUME NEW i \in DOMAIN t, NEW j \in DOMAIN t, t[i] = t[j] PROVE i = j
    BY DEF Distinct
  <2>1. i + 1 \in DOMAIN s /\ j + 1 \in DOMAIN s /\ s[i + 1] = s[j + 1]
    BY <1>1, <1>2
  <2> QED
    BY <1>2, <2>1 DEF Distinct
<1> QED
  BY <1>1, <1>3, <1>4, <1>5 DEF t

(* acquire: a prog is put in front. *)
LEMMA ConsList ==
  ASSUME NEW S, NEW s \in Seq(S), NEW e \in S
  PROVE  /\ <<e>> \o s # <<>> /\ Head(<<e>> \o s) = e
         /\ \A x : In(x, <<e>> \o s) <=> In(x, s) \/ x = e
         /\ Distinct(s) /\ ~In(e, s) => Distinct(<<e>> \o s)
<1> DEFINE t == <<e>> \o s
<1>1. /\ t \in Seq(S) /\ Len(t) = Len(s) + 1 /\ t[1] = e
      /\ \A i \in 1..Len(s) : t[i + 1] = s[i]
      /\ Len(s) \in Nat
  OBVIOUS
<1> HIDE DEF t
<1>2. DOMAIN t = 1..(Len(s) + 1) /\ DOMAIN s = 1..Len(s)
  BY <1>1
<1>3. t # <<>> /\ Head(t) = e
  BY <1>1
<1>4. ASSUME NEW x PROVE In(x, t) <=> In(x, s) \/ x = e
  <2>1. ASSUME NEW i \in DOMAIN t, t[i] = x, x # e PROVE In(x, s)
    <3>1. i - 1 \in DOMAIN s /\ s[i - 1] = x
      BY <1>1, <1>2, <2>1
    <3> QED
      BY <3>1 DEF In
  <2>2. ASSUME NEW i \in DOMAIN s, s[i] = x PROVE In(x, t)
    <3>1. i + 1 \in DOMAIN t /\ t[i + 1] = x
      BY <1>1, <1>2, <2>2
    <3> QED
      BY <3>1 DEF In
  <2>3. In(e, t)
    BY <1>1, <1>2 DEF In
  <2> QED
    BY <2>1, <2>2, <2>3 DEF In
<1>5. ASSUME Distinct(s), ~In(e, s) PROVE Distinct(t)
  <2> SUFFICES ASSUME NEW i \in DOMAIN t, NEW j \in DOMAIN t, t[i] = t[j], i # j PROVE FALSE
    BY DEF Distinct
  <2>1. CASE i = 1
    BY <1>1, <1>2, <1>5, <2>1, j - 1 \in DOMAIN s /\ s[j - 1] = e DEF In
  <2>2. CASE j = 1
    BY <1>1, <1>2, <1>5, <2>2, i - 1 \in DOMAIN s /\ s[i - 1] = e DEF In
  <2>3. CASE i # 1 /\ j # 1
    <3>1. i - 1 \in DOMAIN s /\ j - 1 \in DOMAIN s /\ s[i - 1] = s[j - 1]
      BY <1>1, <1>2, <2>3
    <3> QED
      BY <1>2, <1>5, <3>1 DEF Distinct
  <2> QED
    BY <2>1, <2>2, <2>3
<1> QED
  BY <1>3, <1>4, <1>5 DEF t

(* The end of a quantum permutes the run queue. *)
LEMMA RotateList ==
  ASSUME NEW s \in Seq(Progs), Distinct(s)
  PROVE  /\ Distinct(Rotate(s))
         /\ \A x : In(x, Rotate(s)) <=> In(x, s)
<1>1. CASE Len(s) > 1
  <2>1. s # <<>>
    BY <1>1
  <2>2. /\ Tail(s) \in Seq(Progs) /\ Head(s) \in Progs /\ In(Head(s), s)
        /\ \A x : In(x, Tail(s)) <=> In(x, s) /\ x # Head(s)
        /\ Distinct(Tail(s))
    BY <2>1, TailList
  <2> DEFINE t == Tail(s)
             h == Head(s)
  <2>a. t \in Seq(Progs) /\ h \in Progs
    BY <2>2
  <2> HIDE DEF t, h
  <2>3. /\ \A x : In(x, Append(t, h)) <=> In(x, t) \/ x = h
        /\ Distinct(t) /\ ~In(h, t) => Distinct(Append(t, h))
    BY <2>a, AppendList
  <2>4. /\ \A x : In(x, Append(t, h)) <=> In(x, s)
        /\ Distinct(Append(t, h))
    BY <2>2, <2>3 DEF t, h
  <2> QED
    BY <1>1, <2>4 DEF Rotate, t, h
<1>2. CASE ~(Len(s) > 1)
  BY <1>2 DEF Rotate
<1> QED
  BY <1>1, <1>2

(* delrunq, and the loops of killprog and ccom: one prog is cut out. *)
LEMMA RemoveList ==
  ASSUME NEW S, NEW s \in Seq(S), NEW e, Distinct(s)
  PROVE  /\ Distinct(RemoveFirst(s, e))
         /\ \A x : In(x, RemoveFirst(s, e)) <=> In(x, s) /\ x # e
         /\ s # <<>> /\ Head(s) # e =>
              RemoveFirst(s, e) # <<>> /\ Head(RemoveFirst(s, e)) = Head(s)
<1> DEFINE t == RemoveFirst(s, e)
<1>1. CASE ~In(e, s) /\ t = s
  BY <1>1
<1>2. ASSUME NEW m \in 1..Len(s), s[m] = e,
             t = SubSeq(s, 1, m - 1) \o SubSeq(s, m + 1, Len(s))
      PROVE  /\ Distinct(t)
             /\ \A x : In(x, t) <=> In(x, s) /\ x # e
             /\ s # <<>> /\ Head(s) # e => t # <<>> /\ Head(t) = Head(s)
  <2> DEFINE a == SubSeq(s, 1, m - 1)
             b == SubSeq(s, m + 1, Len(s))
  <2>1. /\ a \in Seq(S) /\ Len(a) = m - 1 /\ \A i \in 1..(m - 1) : a[i] = s[i]
        /\ b \in Seq(S) /\ Len(b) = Len(s) - m
        /\ \A i \in 1..(Len(s) - m) : b[i] = s[m + i]
        /\ Len(s) \in Nat
    <3>1. a \in Seq(S) /\ Len(a) = m - 1 /\ \A i \in 1..(m - 1) : a[i] = s[i]
      OBVIOUS
    <3>2. b \in Seq(S) /\ Len(b) = Len(s) - m
      OBVIOUS
    <3>3. \A i \in 1..(Len(s) - m) : b[i] = s[m + i]
      OBVIOUS
    <3> QED
      BY <3>1, <3>2, <3>3
  <2> HIDE DEF a, b
  <2>2. /\ a \o b \in Seq(S) /\ Len(a \o b) = Len(a) + Len(b)
        /\ \A i \in 1..Len(a) : (a \o b)[i] = a[i]
        /\ \A i \in 1..Len(b) : (a \o b)[Len(a) + i] = b[i]
    <3>1. a \in Seq(S) /\ b \in Seq(S)
      BY <2>1
    <3> QED
      BY <3>1, ConcatProperties
  <2>3. t = a \o b
    BY <1>2 DEF a, b
  <2> HIDE DEF t
  <2>4. /\ t \in Seq(S) /\ Len(t) = Len(s) - 1
        /\ DOMAIN t = 1..(Len(s) - 1) /\ DOMAIN s = 1..Len(s)
    <3>1. t \in Seq(S) /\ Len(t) = Len(a) + Len(b)
      BY <2>2, <2>3
    <3>2. Len(a) + Len(b) = Len(s) - 1
      BY <2>1
    <3> QED
      BY <3>1, <3>2
  <2>5. \A i \in 1..(m - 1) : t[i] = s[i]
    BY <2>1, <2>2, <2>3
  <2>6. \A i \in 1..(Len(s) - m) : t[m - 1 + i] = s[m + i]
    BY <2>1, <2>2, <2>3
  <2>7. ASSUME NEW i \in 1..(Len(s) - 1), i >= m PROVE t[i] = s[i + 1]
    <3>1. i - m + 1 \in 1..(Len(s) - m) /\ m - 1 + (i - m + 1) = i /\ m + (i - m + 1) = i + 1
      BY <2>7, <2>1
    <3> QED
      BY <2>6, <3>1
  <2>8. Distinct(t)
    <3> SUFFICES ASSUME NEW i \in DOMAIN t, NEW j \in DOMAIN t, t[i] = t[j] PROVE i = j
      BY DEF Distinct
    <3>1. CASE i < m /\ j < m
      <4>1. i \in DOMAIN s /\ j \in DOMAIN s /\ i \in 1..(m - 1) /\ j \in 1..(m - 1)
        BY <2>1, <2>4, <3>1
      <4>2. s[i] = s[j]
        BY <2>5, <4>1
      <4> QED
        BY <4>1, <4>2 DEF Distinct
    <3>2. CASE i >= m /\ j >= m
      <4>1. i + 1 \in DOMAIN s /\ j + 1 \in DOMAIN s /\ i \in 1..(Len(s) - 1) /\ j \in 1..(Len(s) - 1)
        BY <2>1, <2>4
      <4>2. s[i + 1] = s[j + 1]
        BY <2>7, <3>2, <4>1
      <4>3. i + 1 = j + 1
        BY <4>1, <4>2 DEF Distinct
      <4> QED
        BY <4>1, <4>3
    <3>3. CASE i < m /\ j >= m
      <4>1. i \in DOMAIN s /\ j + 1 \in DOMAIN s /\ i \in 1..(m - 1) /\ j \in 1..(Len(s) - 1)
        BY <2>1, <2>4, <3>3
      <4>2. s[i] = s[j + 1]
        BY <2>5, <2>7, <3>3, <4>1
      <4>3. i = j + 1
        BY <4>1, <4>2 DEF Distinct
      <4> QED
        BY <2>4, <3>3, <4>3
    <3>4. CASE i >= m /\ j < m
      <4>1. j \in DOMAIN s /\ i + 1 \in DOMAIN s /\ j \in 1..(m - 1) /\ i \in 1..(Len(s) - 1)
        BY <2>1, <2>4, <3>4
      <4>2. s[j] = s[i + 1]
        BY <2>5, <2>7, <3>4, <4>1
      <4>3. j = i + 1
        BY <4>1, <4>2 DEF Distinct
      <4> QED
        BY <2>4, <3>4, <4>3
    <3> QED
      BY <2>4, <3>1, <3>2, <3>3, <3>4
  <2>9. ASSUME NEW x PROVE In(x, t) <=> In(x, s) /\ x # e
    <3>1. ASSUME NEW i \in DOMAIN t, t[i] = x PROVE In(x, s) /\ x # e
      <4>1. CASE i < m
        <5>1. i \in DOMAIN s /\ s[i] = x /\ i # m
          BY <2>4, <2>5, <3>1, <4>1
        <5> QED
          BY <1>2, <2>4, <5>1 DEF In, Distinct
      <4>2. CASE i >= m
        <5>1. i + 1 \in DOMAIN s /\ s[i + 1] = x /\ i + 1 # m
          BY <2>4, <2>7, <3>1, <4>2
        <5> QED
          BY <1>2, <2>4, <5>1 DEF In, Distinct
      <4> QED
        BY <2>4, <4>1, <4>2
    <3>2. ASSUME NEW i \in DOMAIN s, s[i] = x, x # e PROVE In(x, t)
      <4>1. CASE i < m
        BY <2>4, <2>5, <3>2, <4>1, i \in DOMAIN t DEF In
      <4>2. CASE i > m
        <5>1. i - 1 \in DOMAIN t /\ t[i - 1] = x
          BY <2>4, <2>7, <3>2, <4>2
        <5> QED
          BY <5>1 DEF In
      <4>3. i # m
        BY <1>2, <3>2
      <4>4. i \in 1..Len(s) /\ m \in 1..Len(s) /\ Len(s) \in Nat
        BY <2>1, <2>4
      <4> QED
        BY <4>1, <4>2, <4>3, <4>4
    <3> QED
      BY <3>1, <3>2 DEF In
  <2>10. ASSUME s # <<>>, Head(s) # e PROVE t # <<>> /\ Head(t) = Head(s)
    <3>1. m > 1 /\ Head(s) = s[1]
      BY <1>2, <2>10
    <3> QED
      BY <2>4, <2>5, <3>1
  <2> QED
    BY <2>8, <2>9, <2>10
<1>3. \/ ~In(e, s) /\ t = s
      \/ \E i \in 1..Len(s) : /\ s[i] = e
                             /\ t = SubSeq(s, 1, i - 1) \o SubSeq(s, i + 1, Len(s))
  BY RemoveFirstForm
<1> HIDE DEF t
<1>4. /\ Distinct(t)
      /\ \A x : In(x, t) <=> In(x, s) /\ x # e
      /\ s # <<>> /\ Head(s) # e => t # <<>> /\ Head(t) = Head(s)
  BY <1>1, <1>2, <1>3
<1> QED
  BY <1>4 DEF t

-----------------------------------------------------------------------------
(* What a step that leaves a part of the state alone preserves. *)

Queued == {"Psend", "Precv"}

LEMMA ListsKept ==
  ASSUME IndInv, wait' = wait, slot' = slot,
         \A x \in Progs : state[x] \in Queued \/ state'[x] \in Queued
                           => /\ state'[x] = state[x] /\ at'[x] = at[x]
                              /\ kill[x] => kill'[x],
         \A x \in Progs : InCblock(x)' <=> InCblock(x)
  PROVE  WaitInv' /\ AtInv'
<1>1. WaitInv'
  BY DEF IndInv, WaitInv, Queued
<1>2. AtInv'
  BY DEF IndInv, AtInv, Queued
<1> QED
  BY <1>1, <1>2

LEMMA AltsKept ==
  ASSUME IndInv, altp' = altp,
         \A x \in Progs : state[x] = "Palt" => state'[x] = "Palt" /\ alt'[x] = alt[x]
  PROVE  AltInv'
  BY DEF IndInv, AltInv, TypeOK, Dirs

(* The prog that runs is in no list, no alt and outside no machine. *)
LEMMA Runner ==
  ASSUME IndInv, NEW p \in Progs, Current(p)
  PROVE  /\ runq \in Seq(Progs) /\ runq # <<>> /\ Distinct(runq) /\ p = Head(runq)
         /\ In(p, runq) /\ MayRun(p) /\ host[p] = "none"
         /\ \A c \in Chans, d \in Dirs : ~In(p, wait[c][d]) /\ altp[c][d] # p
         /\ \A x \in builtin : x # p /\ In(x, runq) => ~kill[x]
<1>1. runq \in Seq(Progs) /\ runq # <<>> /\ Distinct(runq) /\ p = Head(runq)
  BY DEF IndInv, TypeOK, RunqInv, Current
<1>2. In(p, runq)
  BY <1>1, TailList
<1>3. MayRun(p)
  BY <1>2 DEF IndInv, RunqInv
<1>4. host[p] = "none"
  BY <1>3 DEF MayRun, IndInv, HostInv
<1>5. ~InCblock(p) /\ state[p] \notin Queued /\ state[p] # "Palt"
  BY <1>3, <1>4 DEF MayRun, InCblock, Queued
<1>6. \A c \in Chans, d \in Dirs : ~In(p, wait[c][d])
  BY <1>5 DEF IndInv, WaitInv, Queued
<1>7. \A c \in Chans, d \in Dirs : altp[c][d] # p
  BY <1>5, ProgAssumption DEF IndInv, AltInv
<1>8. \A x \in builtin : x # p /\ In(x, runq) => ~kill[x]
  BY <1>1 DEF IndInv, KillInv, KilledNeverRuns, InCall, Current
<1> QED
  BY <1>1, <1>2, <1>3, <1>4, <1>6, <1>7, <1>8

(* A prog that executes instructions was not killed in a built-in. *)
LEMMA NotKilled ==
  ASSUME IndInv, NEW p \in Progs, InXec(p)
  PROVE  p \in builtin => ~kill[p]
<1>1. Current(p) /\ vm = "run"
  BY DEF InXec
<1>2. In(p, runq)
  BY <1>1, Runner
<1> QED
  BY <1>1, <1>2 DEF IndInv, KillInv, KilledNeverRuns, InCall

-----------------------------------------------------------------------------
(* The run queue. *)

(* The states of a prog that waits for a partner. *)
Blocked == {"Palt", "Psend", "Precv"}

(* The running prog leaves the queue: it blocks, is released or breaks. *)
LEMMA Departs ==
  ASSUME IndInv, NEW p \in Progs, Current(p),
         runq' = Tail(runq) \/ runq' = Rotate(Tail(runq)),
         vm' = "switch", ~MayRun(p)', builtin' \subseteq builtin \cup {p},
         state'[p] \notin Blocked \/ ~(p \in builtin' /\ kill'[p]),
         \A x \in Progs : x # p => /\ kill'[x] = kill[x]
                                   /\ state'[x] = state[x] /\ host'[x] = host[x]
  PROVE  RunqInv' /\ KillInv' /\ VmInv'
<1>1. /\ runq \in Seq(Progs) /\ runq # <<>> /\ Distinct(runq) /\ p = Head(runq)
      /\ \A x \in builtin : x # p /\ In(x, runq) => ~kill[x]
  BY Runner
<1>2. /\ Tail(runq) \in Seq(Progs) /\ Distinct(Tail(runq))
      /\ \A x : In(x, Tail(runq)) <=> In(x, runq) /\ x # p
  BY <1>1, TailList
<1>3. /\ Distinct(Rotate(Tail(runq)))
      /\ \A x : In(x, Rotate(Tail(runq))) <=> In(x, Tail(runq))
  BY <1>2, RotateList
<1>4. Distinct(runq') /\ \A x : In(x, runq') <=> In(x, runq) /\ x # p
  BY <1>2, <1>3
<1>5. \A x \in Progs : x # p => (MayRun(x)' <=> MayRun(x))
  BY DEF MayRun
<1>6. RunqInv'
  BY <1>4, <1>5 DEF IndInv, RunqInv
<1>7. KillInv'
  BY <1>1, <1>4 DEF IndInv, TypeOK, KillInv, KilledNeverRuns, Blocked
<1>8. VmInv'
  BY DEF VmInv
<1> QED
  BY <1>6, <1>7, <1>8

(* The quantum of a prog ends that was not killed in a built-in. *)
LEMMA Rotates ==
  ASSUME IndInv, NEW p \in Progs, Current(p), p \in builtin => ~kill[p],
         runq' = Rotate(runq), vm' = "switch", builtin' \subseteq builtin,
         UNCHANGED <<state, kill, host>>
  PROVE  RunqInv' /\ KillInv' /\ VmInv'
<1>1. /\ runq \in Seq(Progs) /\ Distinct(runq)
      /\ \A x \in builtin : x # p /\ In(x, runq) => ~kill[x]
  BY Runner
<1>2. Distinct(runq') /\ \A x : In(x, runq') <=> In(x, runq)
  BY <1>1, RotateList
<1>3. \A x \in Progs : MayRun(x)' <=> MayRun(x)
  BY DEF MayRun
<1>4. RunqInv'
  BY <1>2, <1>3 DEF IndInv, RunqInv
<1>5. KillInv'
  BY <1>1, <1>2 DEF IndInv, TypeOK, KillInv, KilledNeverRuns
<1>6. VmInv'
  BY DEF VmInv
<1> QED
  BY <1>4, <1>5, <1>6

(* addrun of a prog that waits, by the one that runs. *)
LEMMA Joins ==
  ASSUME IndInv, NEW p \in Progs, Current(p), NEW q \in Progs,
         AddRun(q), hook[q] \/ state[q] \in {"none", "Palt", "Psend", "Precv"},
         UNCHANGED <<kill, host>>, vm \in {"run", "call"}, vm' \in {vm, "call"},
         builtin' \subseteq builtin \cup {p},
         p \in builtin' /\ kill[p] => vm' = "call"
  PROVE  RunqInv' /\ KillInv' /\ VmInv' /\ HostInv'
<1>1. /\ runq \in Seq(Progs) /\ runq # <<>> /\ Distinct(runq) /\ p = Head(runq)
      /\ MayRun(p)
      /\ \A x \in builtin : x # p /\ In(x, runq) => ~kill[x]
  BY Runner
<1>b. \A x \in builtin' : x # p => x \in builtin /\ x \in Progs
  BY DEF IndInv, TypeOK
<1>p. state[p] \notin Blocked
  BY <1>1 DEF MayRun, Blocked
<1>t. state \in [Progs -> States] /\ hook \in [Progs -> BOOLEAN]
  BY DEF IndInv, TypeOK, States
<1>2. CASE hook[q]
  <2>1. runq' = runq /\ state' = state /\ hook' = [hook EXCEPT ![q] = FALSE]
    BY <1>2 DEF AddRun
  <2>2. \A x \in Progs : MayRun(x)' <=> MayRun(x)
    BY <2>1 DEF MayRun
  <2>3. RunqInv'
    BY <2>1, <2>2 DEF IndInv, RunqInv
  <2>4. KillInv' /\ VmInv'
    BY <1>1, <1>b, <1>p, <2>1
       DEF IndInv, KillInv, KilledNeverRuns, VmInv, InCall, Current, Blocked
  <2>5. HostInv'
    BY <2>1, <1>t DEF IndInv, HostInv
  <2> QED
    BY <2>3, <2>4, <2>5
<1>3. CASE ~hook[q]
  <2>1. /\ state' = [state EXCEPT ![q] = "Pready"]
        /\ runq' = Append(runq, q) /\ hook' = hook
    BY <1>3 DEF AddRun
  <2>2. state[q] \in {"none", "Palt", "Psend", "Precv"}
    BY <1>3
  <2>3. host[q] = "none" /\ (q \in builtin => ~kill[q]) /\ ~MayRun(q)
    BY <2>2 DEF IndInv, HostInv, MayRun, KillInv, KilledNeverRuns
  <2>4. ~In(q, runq)
    BY <2>3 DEF IndInv, RunqInv
  <2>5. /\ \A x : In(x, runq') <=> In(x, runq) \/ x = q
        /\ Distinct(runq') /\ runq' # <<>> /\ Head(runq') = Head(runq)
    BY <1>1, <2>1, <2>4, AppendList
  <2>6. MayRun(q)' /\ \A x \in Progs : x # q => (MayRun(x)' <=> MayRun(x))
    BY <1>t, <2>1 DEF MayRun
  <2>7. RunqInv'
    BY <2>5, <2>6 DEF IndInv, RunqInv
  <2>8. KillInv' /\ VmInv'
    <3>1. ASSUME NEW x \in builtin', kill'[x]
          PROVE  state'[x] \notin Blocked /\ (In(x, runq') => InCall(x)')
      <4>1. CASE x = p
        BY <1>1, <1>p, <1>t, <2>1, <2>5, <3>1, <4>1 DEF InCall, Current, Blocked
      <4>2. CASE x # p
        <5>1. x \in builtin /\ x \in Progs /\ kill[x] /\ x # q
          BY <1>b, <2>3, <3>1, <4>2
        <5>2. state[x] \notin Blocked /\ ~In(x, runq)
          BY <1>1, <4>2, <5>1 DEF IndInv, KillInv, KilledNeverRuns, Blocked
        <5> QED
          BY <1>t, <2>1, <2>5, <5>1, <5>2
      <4> QED
        BY <4>1, <4>2
    <3> QED
      BY <2>5, <3>1 DEF KillInv, KilledNeverRuns, VmInv, Blocked
  <2>9. HostInv'
    BY <1>t, <2>1, <2>3, <1>3 DEF IndInv, HostInv
  <2> QED
    BY <2>7, <2>8, <2>9
<1> QED
  BY <1>2, <1>3

-----------------------------------------------------------------------------
(* One lemma per action, or per kind of action. *)

(* A quantum or a built-in call ends. *)
LEMMA QuantumInv ==
  ASSUME IndInv, NEW p \in Progs, EndQuantum(p) \/ Return(p)
  PROVE  IndInv'
<1>0. TypeOK'
  BY RunType DEF IndInv
<1>1. Current(p)
  BY DEF EndQuantum, Return, InXec, InCall
<1>2. /\ runq' = Rotate(runq) /\ vm' = "switch" /\ Forget(p)
      /\ UNCHANGED <<state, kill, hook, host, wait, altp, slot>>
      /\ builtin' \subseteq builtin
  BY DEF EndQuantum, Return, Over, chanvars
<1>3. p \in builtin => ~kill[p]
  BY NotKilled DEF EndQuantum, Return
<1>4. RunqInv' /\ KillInv' /\ VmInv'
  BY <1>1, <1>2, <1>3, Rotates
<1>5. HostInv'
  BY <1>2 DEF IndInv, HostInv
<1>6. state[p] \notin Queued /\ state[p] # "Palt"
  BY <1>1, Runner DEF MayRun, Queued
<1>7. \A x \in Progs : x # p => at'[x] = at[x] /\ alt'[x] = alt[x]
  BY <1>2 DEF Forget, IndInv, TypeOK
<1>8. WaitInv' /\ AtInv'
  BY <1>2, <1>6, <1>7, ListsKept DEF InCblock
<1>9. AltInv'
  BY <1>2, <1>6, <1>7, AltsKept
<1> QED
  BY <1>0, <1>4, <1>5, <1>8, <1>9 DEF IndInv

(* A prog breaks, exits or leaves the machine for the host. *)
LEMMA DepartInv ==
  ASSUME IndInv, NEW p \in Progs, Fault(p) \/ Exit(p) \/ Release(p)
  PROVE  IndInv'
<1>0. TypeOK'
  BY RunType DEF IndInv
<1>t. TypeOK
  BY DEF IndInv
<1>1. Current(p)
  BY DEF Fault, Exit, Release, InXec, InCall
<1>2. /\ runq' = Tail(runq) /\ vm' = "switch" /\ Forget(p)
      /\ UNCHANGED <<kill, hook, wait, altp, slot>>
      /\ builtin' \subseteq builtin \cup {p}
      /\ \/ state' = [state EXCEPT ![p] = "Pbroken"] /\ host' = host
         \/ /\ state' = [state EXCEPT ![p] = "Prelease"]
            /\ \E h \in {"exit", "work"} : host' = [host EXCEPT ![p] = h]
  BY DEF Fault, Exit, Release, Broken, Leave, Over, chanvars
<1>3. /\ \A x \in Progs : x # p => state'[x] = state[x] /\ host'[x] = host[x]
      /\ \/ state'[p] = "Pbroken" /\ host'[p] = host[p]
         \/ state'[p] = "Prelease" /\ host'[p] \in {"exit", "work"}
  BY <1>2, <1>t DEF TypeOK
<1>4. host[p] = "none" /\ MayRun(p)
  BY <1>1, Runner
<1>5. RunqInv' /\ KillInv' /\ VmInv'
  BY <1>1, <1>2, <1>3, Departs DEF MayRun, Blocked
<1>6. ~hook[p] \/ kill[p]
  BY <1>4 DEF IndInv, HostInv
<1>7. HostInv'
  BY <1>2, <1>3, <1>4, <1>6 DEF IndInv, HostInv
<1>8. \A x \in Progs : x # p => at'[x] = at[x] /\ alt'[x] = alt[x]
  BY <1>2 DEF Forget, IndInv, TypeOK
<1>9. WaitInv' /\ AtInv'
  BY <1>2, <1>3, <1>4, <1>8, ListsKept DEF InCblock, MayRun, Queued
<1>10. AltInv'
  BY <1>2, <1>3, <1>4, <1>8, AltsKept DEF MayRun
<1> QED
  BY <1>0, <1>5, <1>7, <1>9, <1>10 DEF IndInv

(* A new prog. *)
LEMMA SpawnInv ==
  ASSUME IndInv, NEW p \in Progs, NEW q \in Progs, Spawn(p, q)
  PROVE  IndInv'
<1>0. TypeOK'
  BY RunType DEF IndInv
<1>1. Current(p) /\ vm = "run" /\ (p \in builtin => ~kill[p])
  BY NotKilled DEF Spawn, InXec
<1>2. /\ state[q] = "none" /\ AddRun(q)
      /\ UNCHANGED <<vm, kill, host, builtin, wait, altp, slot, at, alt>>
  BY DEF Spawn, NewProg, chanvars, memvars
<1>3. RunqInv' /\ KillInv' /\ VmInv' /\ HostInv'
  BY <1>1, <1>2, Joins
<1>4. ~hook[q]
  BY <1>2 DEF IndInv, HostInv
<1>5. state' = [state EXCEPT ![q] = "Pready"] /\ hook' = hook
  BY <1>2, <1>4 DEF AddRun
<1>6. /\ state'[q] = "Pready" /\ state[q] = "none"
      /\ \A x \in Progs : x # q => state'[x] = state[x]
  BY <1>2, <1>5 DEF IndInv, TypeOK
<1>7. WaitInv' /\ AtInv'
  BY <1>2, <1>5, <1>6, ListsKept DEF InCblock, Queued
<1>8. AltInv'
  BY <1>2, <1>6, AltsKept
<1> QED
  BY <1>0, <1>3, <1>7, <1>8 DEF IndInv

(* vmachine picks the head of the run queue. *)
LEMMA DispatchInv ==
  ASSUME IndInv, Dispatch, TypeOK'
  PROVE  IndInv'
<1>1. /\ vm = "switch" /\ runq # <<>> /\ vm' = "run"
      /\ UNCHANGED <<runq, state, kill, hook, host, builtin, wait, altp, slot, at, alt>>
  BY DEF Dispatch, chanvars, memvars
<1>2. RunqInv'
  BY <1>1 DEF IndInv, RunqInv, MayRun
<1>3. HostInv'
  BY <1>1 DEF IndInv, HostInv
<1>4. KillInv' /\ VmInv'
  BY <1>1 DEF IndInv, KillInv, KilledNeverRuns, InCall, VmInv
<1>5. WaitInv' /\ AtInv'
  BY <1>1, ListsKept DEF InCblock
<1>6. AltInv'
  BY <1>1, AltsKept
<1> QED
  BY <1>2, <1>3, <1>4, <1>5, <1>6 DEF IndInv

(* A step that moves no prog in or out of the run queue or the machine. *)
LEMMA QueueKept ==
  ASSUME IndInv, UNCHANGED <<runq, kill, builtin>>,
         vm' = vm \/ (vm = "switch" /\ vm' = "halt"),
         \A x \in Progs : state'[x] \in Blocked => state'[x] = state[x] \/ ~kill[x] \/ x \notin builtin,
         \A x \in Progs : MayRun(x)' <=> MayRun(x)
  PROVE  RunqInv' /\ KillInv' /\ VmInv'
<1>1. RunqInv'
  BY DEF IndInv, RunqInv
<1>2. KillInv' /\ VmInv'
  BY DEF IndInv, TypeOK, KillInv, KilledNeverRuns, InCall, VmInv, Current, Blocked
<1> QED
  BY <1>1, <1>2

(* delprog is done: the prog is freed. *)
LEMMA ExitDoneInv ==
  ASSUME IndInv, NEW p \in Progs, ExitDone(p)
  PROVE  IndInv'
<1>0. TypeOK'
  BY HostType DEF IndInv
<1>t. TypeOK
  BY DEF IndInv
<1>1. /\ host[p] = "exit" /\ runq' = runq /\ vm = "switch" /\ vm' \in {"switch", "halt"}
      /\ state' = [state EXCEPT ![p] = "none"] /\ host' = [host EXCEPT ![p] = "none"]
      /\ kill' = [kill EXCEPT ![p] = FALSE] /\ hook' = [hook EXCEPT ![p] = FALSE]
      /\ builtin' = builtin \ {p}
      /\ UNCHANGED <<wait, altp, slot>> /\ Forget(p)
  BY DEF ExitDone, Free, chanvars
<1>2. state[p] \in {"Prelease", "Pexiting"} /\ ~MayRun(p)
  BY <1>1 DEF IndInv, HostInv, MayRun
<1>3. /\ state'[p] = "none" /\ host'[p] = "none" /\ kill'[p] = FALSE /\ hook'[p] = FALSE
      /\ \A x \in Progs : x # p =>
           /\ state'[x] = state[x] /\ host'[x] = host[x] /\ kill'[x] = kill[x]
           /\ hook'[x] = hook[x] /\ at'[x] = at[x] /\ alt'[x] = alt[x]
  BY <1>1, <1>t DEF TypeOK, Forget
<1>4. RunqInv'
  BY <1>1, <1>2, <1>3 DEF IndInv, RunqInv, MayRun
<1>5. KillInv' /\ VmInv'
  BY <1>1, <1>3 DEF IndInv, TypeOK, KillInv, KilledNeverRuns, InCall, VmInv
<1>6. HostInv'
  BY <1>3 DEF IndInv, HostInv
<1>7. WaitInv' /\ AtInv'
  BY <1>1, <1>2, <1>3, ListsKept DEF InCblock, Queued
<1>8. AltInv'
  BY <1>1, <1>2, <1>3, AltsKept
<1> QED
  BY <1>0, <1>4, <1>5, <1>6, <1>7, <1>8 DEF IndInv

(* A host thread gets the machine back. *)
LEMMA AcquireInv ==
  ASSUME IndInv, NEW p \in Progs, Acquire(p)
  PROVE  IndInv'
<1>0. TypeOK'
  BY HostType DEF IndInv
<1>t. TypeOK
  BY DEF IndInv
<1>1. /\ vm = "switch" /\ vm' = "call" /\ runq' = <<p>> \o runq
      /\ host[p] = "work" \/ (host[p] \in {"block", "sleep"} /\ ~hook[p])
      /\ state' = [state EXCEPT ![p] = "Pready"] /\ host' = [host EXCEPT ![p] = "none"]
      /\ UNCHANGED <<kill, hook, builtin, wait, altp, slot, at, alt>>
  BY DEF Acquire, chanvars, memvars
<1>2. /\ state[p] \in {"Prelease", "Pexiting"} /\ ~MayRun(p) /\ ~InCblock(p)
      /\ hook[p] => kill[p]
  BY <1>1 DEF IndInv, HostInv, MayRun, InCblock
<1>3. /\ state'[p] = "Pready" /\ host'[p] = "none"
      /\ \A x \in Progs : x # p => state'[x] = state[x] /\ host'[x] = host[x]
  BY <1>1, <1>t DEF TypeOK
<1>4. runq \in Seq(Progs) /\ Distinct(runq) /\ ~In(p, runq)
  BY <1>2 DEF IndInv, TypeOK, RunqInv
<1>5. /\ runq' # <<>> /\ Head(runq') = p /\ Distinct(runq')
      /\ \A x : In(x, runq') <=> In(x, runq) \/ x = p
  BY <1>1, <1>4, ConsList
<1>6. RunqInv'
  <2>1. ASSUME NEW x \in Progs, x # p
        PROVE  (MayRun(x)' <=> MayRun(x)) /\ kill'[x] = kill[x]
    BY <1>1, <1>3, <2>1 DEF MayRun
  <2>2. MayRun(p)'
    BY <1>3 DEF MayRun
  <2>3. ASSUME NEW x \in Progs
        PROVE  /\ In(x, runq') => MayRun(x)'
               /\ MayRun(x)' /\ ~kill'[x] => In(x, runq')
    BY <1>5, <2>1, <2>2 DEF IndInv, RunqInv
  <2> QED
    BY <1>5, <2>3 DEF RunqInv
<1>7. \A x \in builtin : In(x, runq) => ~kill[x]
  BY <1>1 DEF IndInv, KillInv, KilledNeverRuns, InCall
<1>8. KillInv' /\ VmInv'
  <2>1. InCall(p)'
    BY <1>1, <1>5 DEF InCall, Current
  <2>2. ASSUME NEW x \in builtin', kill'[x]
        PROVE  /\ state'[x] \notin {"Palt", "Psend", "Precv"}
               /\ In(x, runq') => InCall(x)'
    <3>1. x \in Progs /\ x \in builtin /\ kill[x]
      BY <1>1, <1>t, <2>2 DEF TypeOK
    <3>2. state[x] \notin {"Palt", "Psend", "Precv"}
      BY <3>1 DEF IndInv, KillInv, KilledNeverRuns
    <3> QED
      BY <1>3, <1>5, <1>7, <2>1, <3>1, <3>2
  <2>3. VmInv'
    BY <1>5 DEF VmInv
  <2> QED
    BY <2>2, <2>3 DEF KillInv, KilledNeverRuns
<1>9. HostInv'
  BY <1>1, <1>2, <1>3 DEF IndInv, HostInv
<1>10. WaitInv' /\ AtInv'
  BY <1>1, <1>2, <1>3, ListsKept DEF InCblock, Queued
<1>11. AltInv'
  BY <1>1, <1>2, <1>3, AltsKept
<1> QED
  BY <1>0, <1>6, <1>8, <1>9, <1>10, <1>11 DEF IndInv

(* cblock goes to sleep. *)
LEMMA CSleepInv ==
  ASSUME IndInv, NEW p \in Progs, CSleep(p)
  PROVE  IndInv'
<1>0. TypeOK'
  BY HostType DEF IndInv
<1>t. TypeOK
  BY DEF IndInv
<1>1. /\ host[p] = "block" /\ hook[p] /\ host' = [host EXCEPT ![p] = "sleep"]
      /\ UNCHANGED <<runq, vm, state, kill, hook, builtin, wait, altp, slot, at, alt>>
  BY DEF CSleep, chanvars, memvars
<1>2. host'[p] = "sleep" /\ \A x \in Progs : x # p => host'[x] = host[x]
  BY <1>1, <1>t DEF TypeOK
<1>3. \A x \in Progs : MayRun(x)' <=> MayRun(x)
  BY <1>1, <1>2 DEF MayRun
<1>4. RunqInv' /\ KillInv' /\ VmInv'
  BY <1>1, <1>3, QueueKept
<1>5. HostInv'
  BY <1>1, <1>2 DEF IndInv, HostInv
<1>6. WaitInv' /\ AtInv'
  BY <1>1, <1>2, ListsKept DEF InCblock
<1>7. AltInv'
  BY <1>1, AltsKept
<1> QED
  BY <1>0, <1>4, <1>5, <1>6, <1>7 DEF IndInv

(* killprog of the prog that runs, and of one that is outside the machine. *)
LEMMA KillSelfInv ==
  ASSUME IndInv, NEW k \in Progs, KillSelf(k), TypeOK'
  PROVE  IndInv'
<1>t. TypeOK
  BY DEF IndInv
<1>1. /\ vm = "call" /\ Current(k)
      /\ kill' = [kill EXCEPT ![k] = TRUE] /\ state' = [state EXCEPT ![k] = "Pexiting"]
      /\ UNCHANGED <<runq, vm, hook, host, builtin, wait, altp, slot, at, alt>>
  BY DEF KillSelf, Kills, InCall, chanvars, memvars
<1>2. /\ kill'[k] = TRUE /\ state'[k] = "Pexiting"
      /\ \A x \in Progs : x # k => kill'[x] = kill[x] /\ state'[x] = state[x]
  BY <1>1, <1>t DEF TypeOK
<1>3. /\ host[k] = "none" /\ MayRun(k)
      /\ \A x \in builtin : x # k /\ In(x, runq) => ~kill[x]
  BY <1>1, Runner
<1>4. RunqInv'
  BY <1>1, <1>2, <1>3 DEF IndInv, RunqInv, MayRun
<1>5. KillInv' /\ VmInv'
  BY <1>1, <1>2, <1>3 DEF IndInv, TypeOK, KillInv, KilledNeverRuns, VmInv, InCall, Current
<1>6. HostInv'
  BY <1>1, <1>2, <1>3 DEF IndInv, HostInv
<1>7. WaitInv' /\ AtInv'
  BY <1>1, <1>2, <1>3, ListsKept DEF InCblock, Queued, MayRun
<1>8. AltInv'
  BY <1>1, <1>2, <1>3, AltsKept DEF MayRun
<1> QED
  BY <1>4, <1>5, <1>6, <1>7, <1>8 DEF IndInv

LEMMA KillReleasedInv ==
  ASSUME IndInv, NEW k \in Progs, NEW q \in Progs, KillReleased(k, q), TypeOK'
  PROVE  IndInv'
<1>t. TypeOK
  BY DEF IndInv
<1>1. /\ state[q] = "Prelease" /\ host' = Interrupted(q)
      /\ kill' = [kill EXCEPT ![q] = TRUE] /\ state' = [state EXCEPT ![q] = "Pexiting"]
      /\ UNCHANGED <<runq, vm, hook, builtin, wait, altp, slot, at, alt>>
  BY DEF KillReleased, chanvars, memvars
<1>2. /\ kill'[q] = TRUE /\ state'[q] = "Pexiting"
      /\ \A x \in Progs : x # q => /\ kill'[x] = kill[x] /\ state'[x] = state[x]
                                   /\ host'[x] = host[x]
      /\ host'[q] = host[q] \/ (host[q] = "sleep" /\ hook[q] /\ host'[q] = "intr")
  BY <1>1, <1>t DEF TypeOK, Interrupted
<1>3. host[q] # "none" /\ host'[q] # "none" /\ ~MayRun(q)
  BY <1>1, <1>2 DEF IndInv, HostInv, MayRun
<1>4. \A x \in Progs : MayRun(x)' <=> MayRun(x)
  BY <1>2, <1>3 DEF MayRun
<1>5. RunqInv'
  BY <1>1, <1>4 DEF IndInv, RunqInv
<1>6. KillInv' /\ VmInv'
  BY <1>1, <1>2, <1>3
     DEF IndInv, TypeOK, KillInv, KilledNeverRuns, VmInv, InCall, Current, RunqInv
<1>7. HostInv'
  BY <1>1, <1>2, <1>3 DEF IndInv, HostInv
<1>8. WaitInv' /\ AtInv'
  BY <1>1, <1>2, ListsKept DEF InCblock, Queued
<1>9. AltInv'
  BY <1>1, <1>2, AltsKept
<1> QED
  BY <1>5, <1>6, <1>7, <1>8, <1>9 DEF IndInv

(* A prog leaves the lists of the channels: it is woken, killed or gives up. *)
LEMMA ListsLose ==
  ASSUME IndInv, NEW q \in Progs, slot' = slot,
         \A c \in Chans, d \in Dirs : Distinct(wait'[c][d]),
         \A c \in Chans, d \in Dirs, x \in Progs :
           In(x, wait'[c][d]) <=> In(x, wait[c][d]) /\ x # q,
         \A x \in Progs \ {q} : state[x] \in Queued \/ state'[x] \in Queued
                                 => /\ state'[x] = state[x] /\ at'[x] = at[x]
                                    /\ kill[x] => kill'[x],
         \A x \in Progs \ {q} : InCblock(x)' <=> InCblock(x),
         state'[q] \in Queued => kill'[q] /\ state'[q] = state[q] /\ at'[q] = at[q],
         ~InCblock(q)'
  PROVE  WaitInv' /\ AtInv'
<1>1. \A x \in Progs, c, b \in Chans, d, e \in Dirs :
        In(x, wait'[c][d]) /\ In(x, wait'[b][e]) => c = b /\ d = e
  BY DEF IndInv, WaitInv
<1>2. ASSUME NEW x \in Progs
      PROVE  /\ (state'[x] \in Queued /\ ~kill'[x]) \/ InCblock(x)'
                  => \E c \in Chans, d \in Dirs : In(x, wait'[c][d])
             /\ \A c \in Chans, d \in Dirs :
                  In(x, wait'[c][d]) => state'[x] \in Queued \/ InCblock(x)'
  BY DEF IndInv, WaitInv, Queued
<1>3. \A x \in Progs, c \in Chans :
        /\ state'[x] = "Psend" => ~In(x, wait'[c]["recv"])
        /\ state'[x] = "Precv" => ~In(x, wait'[c]["send"])
  BY DEF IndInv, WaitInv, Queued, Dirs
<1>4. WaitInv'
  BY <1>1, <1>2, <1>3 DEF WaitInv, Queued
<1>5. AtInv'
  <2>1. ASSUME NEW x \in Progs, state'[x] \in Queued
        PROVE  state'[x] = state[x] /\ at'[x] = at[x]
    BY <2>1
  <2>2. ASSUME NEW x \in Progs
        PROVE  /\ state'[x] \in Queued => at'[x] \in Globals
               /\ \A c \in Chans, d \in Dirs :
                    state'[x] \in Queued /\ In(x, wait'[c][d]) => c = slot[at'[x]]
    BY <2>1 DEF IndInv, AtInv, Queued
  <2> QED
    BY <2>2 DEF AtInv, Queued
<1> QED
  BY <1>4, <1>5

(* Alt pointers are cleared, and none is left of a prog that stops waiting. *)
LEMMA AltsLose ==
  ASSUME IndInv, NEW q,
         \A c \in Chans, d \in Dirs :
           altp'[c][d] # NoProg => altp'[c][d] = altp[c][d] /\ altp[c][d] # q,
         \A x \in Progs \ {q} :
           state[x] = "Palt" => state'[x] = "Palt" /\ alt'[x] = alt[x]
  PROVE  AltInv'
<1> SUFFICES ASSUME NEW c \in Chans, NEW d \in Dirs, altp'[c][d] # NoProg
             PROVE  /\ state'[altp'[c][d]] = "Palt"
                    /\ c \in ChansOf(alt'[altp'[c][d]], d)
  BY DEF AltInv, ChansOf, Items
<1> DEFINE x == altp[c][d]
<1>1. altp'[c][d] = x /\ x # q /\ x # NoProg
  OBVIOUS
<1>2. x \in Progs
  BY <1>1 DEF IndInv, TypeOK
<1>3. state[x] = "Palt" /\ c \in ChansOf(alt[x], d)
  BY <1>1 DEF IndInv, AltInv
<1> QED
  BY <1>1, <1>2, <1>3

LEMMA UnmarkValue ==
  ASSUME NEW ap, NEW a, NEW p, NEW c \in Chans, NEW d \in Dirs
  PROVE  Unmark(ap, a, p)[c][d] = IF c \in ChansOf(a, d) /\ ap[c][d] = p
                                  THEN NoProg ELSE ap[c][d]
  BY DEF Unmark

(* The error path of ccom: the interrupted prog leaves its channel. *)
LEMMA UnqueueInv ==
  ASSUME IndInv, NEW p \in Progs, Unqueue(p)
  PROVE  IndInv'
<1>0. TypeOK'
  BY HostType DEF IndInv
<1>t. TypeOK
  BY DEF IndInv
<1>1. /\ host[p] = "intr"
      /\ wait' = [c \in Chans |-> [d \in Dirs |-> RemoveFirst(wait[c][d], p)]]
      /\ state' = [state EXCEPT ![p] = "Prelease"] /\ host' = [host EXCEPT ![p] = "work"]
      /\ UNCHANGED <<runq, vm, kill, hook, builtin, altp, slot, at, alt>>
  BY DEF Unqueue, memvars
<1>2. /\ state'[p] = "Prelease" /\ host'[p] = "work"
      /\ \A x \in Progs : x # p => state'[x] = state[x] /\ host'[x] = host[x]
  BY <1>1, <1>t DEF TypeOK
<1>3. state[p] \in {"Prelease", "Pexiting"} /\ ~MayRun(p)
  BY <1>1 DEF IndInv, HostInv, MayRun
<1>4. \A x \in Progs : MayRun(x)' <=> MayRun(x)
  BY <1>1, <1>2, <1>3 DEF MayRun
<1>5. RunqInv' /\ KillInv' /\ VmInv'
  BY <1>1, <1>2, <1>4, QueueKept DEF Blocked
<1>6. HostInv'
  BY <1>1, <1>2 DEF IndInv, HostInv
<1>7. ASSUME NEW c \in Chans, NEW d \in Dirs
      PROVE  /\ Distinct(wait'[c][d])
             /\ \A x : In(x, wait'[c][d]) <=> In(x, wait[c][d]) /\ x # p
  <2>1. wait[c][d] \in Seq(Progs) /\ Distinct(wait[c][d])
    BY DEF IndInv, TypeOK, WaitInv
  <2>2. wait'[c][d] = RemoveFirst(wait[c][d], p)
    BY <1>1
  <2> QED
    BY <2>1, <2>2, RemoveList
<1>8. WaitInv' /\ AtInv'
  <2>1. state'[p] \notin Queued /\ ~InCblock(p)'
    BY <1>2 DEF InCblock, Queued
  <2>2. \A x \in Progs \ {p} : state'[x] = state[x] /\ at'[x] = at[x] /\ kill'[x] = kill[x]
    BY <1>1, <1>2
  <2>3. \A x \in Progs \ {p} : InCblock(x)' <=> InCblock(x)
    BY <1>1, <1>2 DEF InCblock
  <2>4. slot' = slot
    BY <1>1
  <2> QED
    BY <1>7, <2>1, <2>2, <2>3, <2>4, ListsLose
<1>9. AltInv'
  BY <1>1, <1>2, <1>3, AltsKept
<1> QED
  BY <1>0, <1>5, <1>6, <1>8, <1>9 DEF IndInv

(* killprog takes q, which the host does not work for, off every list. *)
LEMMA DequeuedLists ==
  ASSUME IndInv, NEW q \in Progs, host[q] = "none", Dequeued(q)
  PROVE  /\ \A c \in Chans, d \in Dirs : Distinct(wait'[c][d])
         /\ \A c \in Chans, d \in Dirs, x \in Progs :
              In(x, wait'[c][d]) <=> In(x, wait[c][d]) /\ x # q
         /\ \A c \in Chans, d \in Dirs :
              altp'[c][d] # NoProg => altp'[c][d] = altp[c][d] /\ altp[c][d] # q
<1>t. wait \in Lists
  BY DEF IndInv, TypeOK, Lists
<1>1. \A c \in Chans, d \in Dirs : Distinct(wait[c][d])
  BY DEF IndInv, WaitInv
<1>2. ~InCblock(q)
  BY DEF InCblock
<1>3. CASE state[q] \in Queued
  <2> DEFINE b == slot[at[q]]
             e == IF state[q] = "Psend" THEN "send" ELSE "recv"
  <2>1. wait' = [wait EXCEPT ![b][e] = RemoveFirst(wait[b][e], q)]
    BY <1>3 DEF Dequeued, Queued
  <2>2. b \in Chans /\ e \in Dirs
    BY <1>3 DEF IndInv, AtInv, TypeOK, Queued, Dirs
  <2>3. \A c \in Chans, d \in Dirs : In(q, wait[c][d]) => c = b /\ d = e
    BY <1>3 DEF IndInv, WaitInv, AtInv, Queued, Dirs
  <2> HIDE DEF b, e
  <2>4. /\ wait'[b][e] = RemoveFirst(wait[b][e], q)
        /\ \A c \in Chans, d \in Dirs : c # b \/ d # e => wait'[c][d] = wait[c][d]
    BY <1>t, <2>1, <2>2 DEF Lists
  <2>5. /\ Distinct(wait'[b][e])
        /\ \A x : In(x, wait'[b][e]) <=> In(x, wait[b][e]) /\ x # q
    BY <1>t, <1>1, <2>2, <2>4, RemoveList DEF Lists
  <2>6. \A c \in Chans, d \in Dirs : Distinct(wait'[c][d])
    BY <1>1, <2>4, <2>5
  <2>7. \A c \in Chans, d \in Dirs, x \in Progs :
          In(x, wait'[c][d]) <=> In(x, wait[c][d]) /\ x # q
    BY <2>3, <2>4, <2>5
  <2>8. altp' = altp
    BY <1>3 DEF Dequeued, Queued
  <2>9. \A c \in Chans, d \in Dirs : altp[c][d] # NoProg => altp[c][d] # q
    BY <1>3 DEF IndInv, AltInv, Queued
  <2> QED
    BY <2>6, <2>7, <2>8, <2>9
<1>4. CASE state[q] \notin Queued
  <2>1. wait' = wait
    BY <1>4 DEF Dequeued, Queued
  <2>2. \A c \in Chans, d \in Dirs : ~In(q, wait[c][d])
    BY <1>2, <1>4 DEF IndInv, WaitInv, Queued
  <2>3. ASSUME NEW c \in Chans, NEW d \in Dirs, altp'[c][d] # NoProg
        PROVE  altp'[c][d] = altp[c][d] /\ altp[c][d] # q
    <3>1. CASE state[q] = "Palt"
      <4>1. altp' = Unmark(altp, alt[q], q)
        BY <3>1 DEF Dequeued
      <4>2. altp'[c][d] = altp[c][d] /\ ~(c \in ChansOf(alt[q], d) /\ altp[c][d] = q)
        BY <2>3, <4>1, UnmarkValue
      <4> QED
        BY <2>3, <4>2 DEF IndInv, AltInv
    <3>2. CASE state[q] # "Palt"
      BY <2>3, <3>2 DEF Dequeued, IndInv, AltInv
    <3> QED
      BY <3>1, <3>2
  <2> QED
    BY <1>1, <2>1, <2>2, <2>3
<1> QED
  BY <1>3, <1>4

(* delrunq, if q is there to be found. *)
LEMMA RunqWithoutList ==
  ASSUME IndInv, NEW k \in Progs, NEW q \in Progs, Current(k), q # k,
         state[q] \in {"Palt", "Psend", "Precv", "Pready", "Pbroken"}
  PROVE  /\ RunqWithout(q) \in Seq(Progs) /\ RunqWithout(q) # <<>>
         /\ Head(RunqWithout(q)) = k /\ Distinct(RunqWithout(q))
         /\ \A x \in Progs : In(x, RunqWithout(q)) <=> In(x, runq) /\ x # q
<1>1. runq \in Seq(Progs) /\ runq # <<>> /\ Distinct(runq) /\ k = Head(runq)
  BY Runner
<1>2. CASE state[q] = "Pready"
  <2>1. RunqWithout(q) = RemoveFirst(runq, q)
    BY <1>2 DEF RunqWithout
  <2>2. RunqWithout(q) \in Seq(Progs)
    BY <1>1, <2>1, RemoveFirstType
  <2> QED
    BY <1>1, <2>1, <2>2, RemoveList
<1>3. CASE state[q] # "Pready"
  <2>1. ~In(q, runq)
    BY <1>3 DEF IndInv, RunqInv, MayRun
  <2>2. RunqWithout(q) = runq
    BY <1>3 DEF RunqWithout
  <2> QED
    BY <1>1, <2>1, <2>2
<1> QED
  BY <1>2, <1>3

(* killprog of a prog in a queue of the machine: it is freed. *)
LEMMA KillQueuedInv ==
  ASSUME IndInv, NEW k \in Progs, NEW q \in Progs, KillQueued(k, q), TypeOK'
  PROVE  IndInv'
<1>t. TypeOK
  BY DEF IndInv
<1>1. /\ Current(k) /\ q # k /\ ~hook[q] /\ Dequeued(q)
      /\ state[q] \in {"Palt", "Psend", "Precv", "Pready", "Pbroken"}
      /\ runq' = Tail(RunqWithout(q)) /\ vm' = "switch" /\ slot' = slot
      /\ state' = [state EXCEPT ![q] = "none", ![k] = "Prelease"]
      /\ host' = [host EXCEPT ![q] = "none", ![k] = "work"]
      /\ kill' = [kill EXCEPT ![q] = FALSE] /\ hook' = [hook EXCEPT ![q] = FALSE]
      /\ builtin' = builtin \ {q}
      /\ Forget(q)
  BY DEF KillQueued, Free, Kills, InCall
<1>2. /\ state'[q] = "none" /\ host'[q] = "none" /\ kill'[q] = FALSE /\ hook'[q] = FALSE
      /\ state'[k] = "Prelease" /\ host'[k] = "work"
      /\ \A x \in Progs \ {q} : /\ kill'[x] = kill[x] /\ hook'[x] = hook[x]
                                /\ at'[x] = at[x] /\ alt'[x] = alt[x]
      /\ \A x \in Progs \ {q, k} : state'[x] = state[x] /\ host'[x] = host[x]
  BY <1>1, <1>t DEF TypeOK, Forget
<1>3. host[q] = "none"
  BY <1>1 DEF IndInv, HostInv
<1>4. /\ MayRun(k) /\ host[k] = "none"
      /\ \A x \in builtin : x # k /\ In(x, runq) => ~kill[x]
  BY <1>1, Runner
<1> DEFINE r == RunqWithout(q)
<1>5. /\ r \in Seq(Progs) /\ r # <<>> /\ Head(r) = k /\ Distinct(r)
      /\ \A x \in Progs : In(x, r) <=> In(x, runq) /\ x # q
  BY <1>1, RunqWithoutList
<1> HIDE DEF r
<1>6. Distinct(runq') /\ \A x \in Progs : In(x, runq') <=> In(x, runq) /\ x # q /\ x # k
  <2>1. runq' = Tail(r)
    BY <1>1 DEF r
  <2>2. Distinct(Tail(r)) /\ \A x : In(x, Tail(r)) <=> In(x, r) /\ x # k
    BY <1>5, TailList
  <2> QED
    BY <1>5, <2>1, <2>2
<1>7. RunqInv'
  <2>1. ASSUME NEW x \in Progs
        PROVE  /\ In(x, runq') => MayRun(x)'
               /\ MayRun(x)' /\ ~kill'[x] => In(x, runq')
    <3>1. CASE x = q \/ x = k
      BY <1>2, <1>6, <3>1 DEF MayRun
    <3>2. CASE x # q /\ x # k
      <4>1. (MayRun(x)' <=> MayRun(x)) /\ kill'[x] = kill[x]
        BY <1>2, <3>2 DEF MayRun
      <4> QED
        BY <1>6, <3>2, <4>1 DEF IndInv, RunqInv
    <3> QED
      BY <3>1, <3>2
  <2> QED
    BY <1>6, <2>1 DEF RunqInv
<1>8. KillInv' /\ VmInv'
  <2>1. ASSUME NEW x \in builtin', kill'[x]
        PROVE  state'[x] \notin {"Palt", "Psend", "Precv"} /\ ~In(x, runq')
    <3>1. x \in Progs /\ x \in builtin /\ x # q /\ kill[x]
      BY <1>1, <1>2, <1>t, <2>1 DEF TypeOK
    <3> QED
      BY <1>2, <1>4, <1>6, <3>1 DEF IndInv, KillInv, KilledNeverRuns
  <2> QED
    BY <1>1, <2>1 DEF KillInv, KilledNeverRuns, VmInv
<1>9. HostInv'
  <2>2. hook[k] => kill[k]
    BY <1>4 DEF IndInv, HostInv
  <2> DEFINE Good(x) ==
        /\ host'[x] # "none" => state'[x] \in {"Prelease", "Pexiting"}
        /\ state'[x] = "Prelease" => host'[x] # "none"
        /\ state'[x] = "none" => ~hook'[x] /\ ~kill'[x]
        /\ hook'[x] => kill'[x] \/ host'[x] \in {"block", "sleep"}
  <2>3. Good(q)
    BY <1>2
  <2>4. Good(k)
    <3>1. k \in Progs \ {q}
      BY <1>1
    <3>2. kill'[k] = kill[k] /\ hook'[k] = hook[k]
      BY <1>2, <3>1
    <3> QED
      BY <1>2, <2>2, <3>2
  <2>5. \A x \in Progs \ {q, k} : Good(x)
    BY <1>2 DEF IndInv, HostInv
  <2>6. \A x \in Progs : Good(x)
    BY <2>3, <2>4, <2>5
  <2> QED
    BY <2>6 DEF HostInv
<1>10. /\ \A c \in Chans, d \in Dirs : Distinct(wait'[c][d])
       /\ \A c \in Chans, d \in Dirs, x \in Progs :
            In(x, wait'[c][d]) <=> In(x, wait[c][d]) /\ x # q
       /\ \A c \in Chans, d \in Dirs :
            altp'[c][d] # NoProg => altp'[c][d] = altp[c][d] /\ altp[c][d] # q
  BY <1>1, <1>3, DequeuedLists
<1>11. state[k] \notin Queued /\ state[k] # "Palt"
  BY <1>4 DEF MayRun, Queued
<1>12. WaitInv' /\ AtInv'
  <2>1. state'[q] \notin Queued /\ ~InCblock(q)'
    BY <1>2 DEF InCblock, Queued
  <2>2. \A x \in Progs \ {q} : state[x] \in Queued \/ state'[x] \in Queued
                                 => /\ state'[x] = state[x] /\ at'[x] = at[x]
                                    /\ kill[x] => kill'[x]
    BY <1>2, <1>11 DEF Queued
  <2>3. \A x \in Progs \ {q} : InCblock(x)' <=> InCblock(x)
    BY <1>2, <1>4 DEF InCblock
  <2>4. slot' = slot
    BY <1>1
  <2> QED
    BY <1>10, <2>1, <2>2, <2>3, <2>4, ListsLose
<1>13. AltInv'
  <2>1. \A x \in Progs \ {q} : state[x] = "Palt" => state'[x] = "Palt" /\ alt'[x] = alt[x]
    BY <1>2, <1>11
  <2> QED
    BY <1>10, <2>1, AltsLose
<1> QED
  BY <1>7, <1>8, <1>9, <1>12, <1>13 DEF IndInv

(* killprog runs a stale hook: q, killed before, is lost to the run queue. *)
LEMMA KillHookedInv ==
  ASSUME IndInv, NEW k \in Progs, NEW q \in Progs, KillHooked(k, q), TypeOK'
  PROVE  IndInv'
<1>t. TypeOK
  BY DEF IndInv
<1>1. /\ InCall(k) /\ Current(k) /\ q # k /\ hook[q] /\ Dequeued(q)
      /\ state[q] \in {"Palt", "Psend", "Precv", "Pready", "Pbroken"}
      /\ runq' = RunqWithout(q)
      /\ kill' = [kill EXCEPT ![q] = TRUE] /\ hook' = [hook EXCEPT ![q] = FALSE]
      /\ UNCHANGED <<vm, state, host, builtin, slot, at, alt>>
  BY DEF KillHooked, Kills, InCall, memvars
<1>2. host[q] = "none" /\ kill[q]
  BY <1>1 DEF IndInv, HostInv
<1>3. kill' = kill
  BY <1>1, <1>2, <1>t DEF TypeOK
<1>4. /\ Distinct(runq') /\ runq' # <<>> /\ Head(runq') = k
      /\ \A x \in Progs : In(x, runq') <=> In(x, runq) /\ x # q
  BY <1>1, RunqWithoutList
<1>5. hook'[q] = FALSE /\ \A x \in Progs : x # q => hook'[x] = hook[x]
  BY <1>1, <1>t DEF TypeOK
<1>6. \A x \in Progs : MayRun(x)' <=> MayRun(x)
  BY <1>1 DEF MayRun
<1>7. RunqInv'
  BY <1>2, <1>3, <1>4, <1>6 DEF IndInv, RunqInv
<1>8. KillInv' /\ VmInv'
  BY <1>1, <1>3, <1>4, <1>t
     DEF IndInv, TypeOK, KillInv, KilledNeverRuns, VmInv, InCall, Current
<1>9. HostInv'
  BY <1>1, <1>3, <1>5 DEF IndInv, HostInv
<1>10. /\ \A c \in Chans, d \in Dirs : Distinct(wait'[c][d])
       /\ \A c \in Chans, d \in Dirs, x \in Progs :
            In(x, wait'[c][d]) <=> In(x, wait[c][d]) /\ x # q
       /\ \A c \in Chans, d \in Dirs :
            altp'[c][d] # NoProg => altp'[c][d] = altp[c][d] /\ altp[c][d] # q
  BY <1>1, <1>2, DequeuedLists
<1>11. WaitInv' /\ AtInv'
  <2>1. \A x \in Progs \ {q} : InCblock(x)' <=> InCblock(x)
    BY <1>1, <1>5 DEF InCblock
  <2>2. ~InCblock(q)'
    BY <1>5 DEF InCblock
  <2>3. \A x \in Progs : state'[x] = state[x] /\ at'[x] = at[x] /\ kill'[x] = kill[x]
    BY <1>1, <1>3
  <2>4. slot' = slot /\ kill'[q]
    BY <1>1, <1>2, <1>3
  <2> QED
    BY <1>10, <2>1, <2>2, <2>3, <2>4, ListsLose
<1>12. AltInv'
  BY <1>1, <1>10, AltsLose
<1> QED
  BY <1>7, <1>8, <1>9, <1>11, <1>12 DEF IndInv

LEMMA KillStepInv ==
  ASSUME IndInv, NEW k \in Progs, NEW q \in Progs, Kill(k, q)
  PROVE  IndInv'
<1>1. TypeOK'
  BY KillType DEF IndInv
<1> QED
  BY <1>1, KillSelfInv, KillReleasedInv, KillQueuedInv, KillHookedInv DEF Kill

-----------------------------------------------------------------------------
(* Communication. *)

(***************************************************************************)
(* What p's communication on c in direction d leaves behind when q was the *)
(* partner: q has stopped waiting and both know of each other.             *)
(***************************************************************************)
Partner(p, q, c, d, mine, marks) ==
  /\ q # p /\ AddRun(q)
  /\ hook[q] \/ state[q] \in {"none", "Palt", "Psend", "Precv"}
  /\ ~hook'[q] /\ (state'[q] \in Blocked => kill[q] /\ state'[q] = state[q])
  /\ \A b \in Chans, e \in Dirs : Distinct(wait'[b][e])
  /\ \A b \in Chans, e \in Dirs, x \in Progs :
       In(x, wait'[b][e]) <=> In(x, wait[b][e]) /\ x # q
  /\ \A b \in Chans, e \in Dirs :
       altp'[b][e] # NoProg => altp'[b][e] = altp[b][e] /\ altp[b][e] # q
  /\ \A b \in Chans, e \in Dirs, x \in Progs \ {p, q} :
       marks[b][e] = x => altp'[b][e] = x
  /\ <<c, Dual(d)>> \in Offers(q)
  /\ last' = [last EXCEPT ![p] = <<q, c, d>>, ![q] = <<p, c, Dual(d)>>]
  /\ \/ /\ state[q] = "Palt"
        /\ sel' = [sel EXCEPT ![p] = mine, ![q] = Selected(alt[q], c, Dual(d))]
     \/ /\ state[q] # "Palt"
        /\ sel' = [sel EXCEPT ![p] = mine]

(***************************************************************************)
(* A communication takes exactly one partner out of the lists and the alt  *)
(* pointers, and makes it ready.                                           *)
(***************************************************************************)
LEMMA TransferPartner ==
  ASSUME IndInv, NEW p \in Progs, Current(p), NEW c \in Chans, NEW d \in Dirs,
         NEW a, NEW mine, NEW marks \in AltPtrs,
         \A b \in Chans, e \in Dirs :
           marks[b][e] = altp[b][e] \/ (marks[b][e] = p /\ b \in ChansOf(a, e)),
         marks[c][Dual(d)] # p,
         Waiting(c, Dual(d)),
         Transfer(p, c, d, a, mine, marks)
  PROVE  \E q \in Progs : Partner(p, q, c, d, mine, marks)
<1> USE DEF Partner
<1> DEFINE f == Dual(d)
<1>1. f \in Dirs
  BY DualType
<1>2. wait \in Lists /\ hook \in [Progs -> BOOLEAN] /\ state \in [Progs -> States]
  BY DEF IndInv, TypeOK, Lists, States
<1>3. \A b \in Chans, e \in Dirs : Distinct(wait[b][e])
  BY DEF IndInv, WaitInv
<1>4. marks[c][f] = altp[c][f]
  BY <1>1
<1>5. \A b \in Chans, e \in Dirs : ~In(p, wait[b][e]) /\ altp[b][e] # p
  BY Runner
<1>6. CASE marks[c][f] # NoProg
  <2> DEFINE q == marks[c][f]
             m == [marks EXCEPT ![c][f] = NoProg]
  <2>1. q \in Progs /\ q # p
    BY <1>1, <1>6 DEF AltPtrs
  <2>2. /\ altp' = Unmark(Unmark(m, alt[q], q), a, p)
        /\ wait' = wait /\ AddRun(q)
    BY <1>6 DEF Transfer
  <2>3. state[q] = "Palt"
    BY <1>1, <1>4, <1>6 DEF IndInv, AltInv
  <2>4. host[q] = "none" /\ (hook[q] => kill[q])
    BY <2>1, <2>3 DEF IndInv, HostInv
  <2>5. ~hook'[q] /\ (state'[q] \in Blocked => kill[q] /\ state'[q] = state[q])
    BY <1>2, <2>1, <2>2, <2>4 DEF AddRun, Blocked
  <2>6. \A b \in Chans, e \in Dirs : ~In(q, wait[b][e])
    BY <2>1, <2>3, <2>4 DEF IndInv, WaitInv, InCblock, Queued
  <2>7. ASSUME NEW b \in Chans, NEW e \in Dirs, altp'[b][e] # NoProg
        PROVE  altp'[b][e] = altp[b][e] /\ altp[b][e] # q
    <3>3. m[b][e] = NoProg \/ m[b][e] = marks[b][e]
      BY <1>1 DEF AltPtrs
    <3> HIDE DEF m, q
    <3> DEFINE u == Unmark(m, alt[q], q)
    <3>1. u[b][e] = IF b \in ChansOf(alt[q], e) /\ m[b][e] = q THEN NoProg ELSE m[b][e]
      BY UnmarkValue
    <3>2. altp'[b][e] = IF b \in ChansOf(a, e) /\ u[b][e] = p THEN NoProg ELSE u[b][e]
      BY <2>2, UnmarkValue
    <3> HIDE DEF u
    <3>4. /\ altp'[b][e] = marks[b][e]
          /\ ~(b \in ChansOf(a, e) /\ marks[b][e] = p)
          /\ ~(b \in ChansOf(alt[q], e) /\ marks[b][e] = q)
      BY <2>7, <3>1, <3>2, <3>3
    <3>5. marks[b][e] = altp[b][e]
      BY <3>4
    <3>6. altp[b][e] # NoProg => b \in ChansOf(alt[altp[b][e]], e)
      BY DEF IndInv, AltInv
    <3> QED
      BY <2>7, <3>4, <3>5, <3>6
  <2>11. ASSUME NEW b \in Chans, NEW e \in Dirs, NEW x \in Progs \ {p, q}, marks[b][e] = x
         PROVE  altp'[b][e] = x
    <3>1. m[b][e] = x
      BY <1>1, <2>11 DEF AltPtrs
    <3> HIDE DEF m, q
    <3> DEFINE u == Unmark(m, alt[q], q)
    <3>2. u[b][e] = IF b \in ChansOf(alt[q], e) /\ m[b][e] = q THEN NoProg ELSE m[b][e]
      BY UnmarkValue
    <3>3. altp'[b][e] = IF b \in ChansOf(a, e) /\ u[b][e] = p THEN NoProg ELSE u[b][e]
      BY <2>2, UnmarkValue
    <3> HIDE DEF u
    <3> QED
      BY <3>1, <3>2, <3>3
  <2>12. /\ last' = [last EXCEPT ![p] = <<q, c, d>>, ![q] = <<p, c, f>>]
         /\ sel' = [sel EXCEPT ![p] = mine, ![q] = Selected(alt[q], c, f)]
    BY <1>6 DEF Transfer
  <2>13. <<c, f>> \in Offers(q)
    BY <1>1, <1>4 DEF Offers
  <2> HIDE DEF q
  <2>8. state[q] \in {"none", "Palt", "Psend", "Precv"}
    BY <2>3
  <2>9. /\ \A b \in Chans, e \in Dirs : Distinct(wait'[b][e])
        /\ \A b \in Chans, e \in Dirs, x \in Progs :
             In(x, wait'[b][e]) <=> In(x, wait[b][e]) /\ x # q
    BY <1>3, <2>2, <2>6
  <2>10. AddRun(q)
    BY <2>2
  <2> QED
    BY <2>1, <2>3, <2>5, <2>7, <2>8, <2>9, <2>10, <2>11, <2>12, <2>13
<1>7. CASE marks[c][f] = NoProg
  <2> DEFINE q == Head(wait[c][f])
  <2>1. wait[c][f] \in Seq(Progs) /\ wait[c][f] # <<>> /\ Distinct(wait[c][f])
    BY <1>1, <1>2, <1>3, <1>4, <1>7 DEF Lists, Waiting
  <2>2. /\ q \in Progs /\ In(q, wait[c][f]) /\ Distinct(Tail(wait[c][f]))
        /\ \A x : In(x, Tail(wait[c][f])) <=> In(x, wait[c][f]) /\ x # q
    BY <2>1, TailList
  <2>3. /\ altp' = Unmark(marks, a, p)
        /\ wait' = [wait EXCEPT ![c][f] = Tail(wait[c][f])]
        /\ AddRun(q)
        /\ last' = [last EXCEPT ![p] = <<q, c, d>>, ![q] = <<p, c, f>>]
        /\ sel' = [sel EXCEPT ![p] = mine]
    BY <1>7 DEF Transfer
  <2> HIDE DEF q
  <2>4. q # p
    BY <1>1, <1>5, <2>2
  <2>5. state[q] \in Queued \/ InCblock(q)
    BY <1>1, <2>2 DEF IndInv, WaitInv, Queued
  <2>6. hook[q] \/ state[q] \in {"none", "Palt", "Psend", "Precv"}
    BY <2>5 DEF InCblock, Queued
  <2>7. hook[q] => kill[q] \/ host[q] \in {"block", "sleep"}
    BY <2>2 DEF IndInv, HostInv
  <2>16. host[q] # "none" => state[q] \notin Blocked
    BY <2>2 DEF IndInv, HostInv, Blocked
  <2>8. ~hook'[q] /\ (state'[q] \in Blocked => kill[q] /\ state'[q] = state[q])
    BY <1>2, <2>2, <2>3, <2>7, <2>16 DEF AddRun, Blocked
  <2>9. \A b \in Chans, e \in Dirs : In(q, wait[b][e]) => b = c /\ e = f
    BY <1>1, <2>2 DEF IndInv, WaitInv
  <2>10. /\ wait'[c][f] = Tail(wait[c][f])
         /\ \A b \in Chans, e \in Dirs : b # c \/ e # f => wait'[b][e] = wait[b][e]
    BY <1>1, <1>2, <2>3 DEF Lists
  <2>11. \A b \in Chans, e \in Dirs : Distinct(wait'[b][e])
    BY <1>3, <2>2, <2>10
  <2>12. \A b \in Chans, e \in Dirs, x \in Progs :
           In(x, wait'[b][e]) <=> In(x, wait[b][e]) /\ x # q
    BY <2>2, <2>9, <2>10
  <2>13. ASSUME NEW b \in Chans, NEW e \in Dirs, altp'[b][e] # NoProg
         PROVE  altp'[b][e] = altp[b][e] /\ altp[b][e] # q
    <3>1. altp'[b][e] = IF b \in ChansOf(a, e) /\ marks[b][e] = p THEN NoProg ELSE marks[b][e]
      BY <2>3, UnmarkValue
    <3>2. altp'[b][e] = altp[b][e]
      BY <2>13, <3>1
    <3>3. state[altp[b][e]] = "Palt"
      BY <2>13, <3>2 DEF IndInv, AltInv
    <3>4. state[q] # "Palt"
      BY <2>2, <2>5 DEF IndInv, HostInv, InCblock, Queued
    <3> QED
      BY <3>2, <3>3, <3>4
  <2>14. ASSUME NEW b \in Chans, NEW e \in Dirs, NEW x \in Progs \ {p, q}, marks[b][e] = x
         PROVE  altp'[b][e] = x
    BY <2>3, <2>14, UnmarkValue
  <2>15. state[q] # "Palt" /\ <<c, f>> \in Offers(q)
    <3>1. state[q] # "Palt"
      BY <2>2, <2>5 DEF IndInv, HostInv, InCblock, Queued
    <3>2. <<c, f>> \in Offers(q)
      BY <1>1, <2>2 DEF Offers
    <3> QED
      BY <3>1, <3>2
  <2> QED
    BY <2>2, <2>3, <2>4, <2>6, <2>8, <2>11, <2>12, <2>13, <2>14, <2>15
<1> QED
  BY <1>6, <1>7

(* A step of p that communicates, whatever it does to p's own registers. *)
LEMMA TransferInv ==
  ASSUME IndInv, TypeOK', NEW p \in Progs, Current(p), NEW c \in Chans, NEW d \in Dirs,
         NEW a, NEW mine, NEW marks \in AltPtrs,
         \A b \in Chans, e \in Dirs :
           marks[b][e] = altp[b][e] \/ (marks[b][e] = p /\ b \in ChansOf(a, e)),
         marks[c][Dual(d)] # p,
         Waiting(c, Dual(d)),
         Transfer(p, c, d, a, mine, marks),
         UNCHANGED <<kill, host, slot>>, vm \in {"run", "call"}, vm' \in {vm, "call"},
         builtin' \subseteq builtin \cup {p}, p \in builtin' /\ kill[p] => vm' = "call",
         \A x \in Progs \ {p} : at'[x] = at[x] /\ alt'[x] = alt[x]
  PROVE  IndInv'
<1>1. PICK q \in Progs : Partner(p, q, c, d, mine, marks)
  BY TransferPartner
<1> USE DEF Partner
<1>2. RunqInv' /\ KillInv' /\ VmInv' /\ HostInv'
  BY <1>1, Joins
<1>3. \A x \in Progs \ {q} : state'[x] = state[x] /\ hook'[x] = hook[x]
  BY <1>1 DEF AddRun, IndInv, TypeOK
<1>4. state[p] \notin Queued /\ state[p] # "Palt"
  BY Runner DEF MayRun, Queued
<1>5. WaitInv' /\ AtInv'
  <2>1. \A x \in Progs \ {q} : state[x] \in Queued \/ state'[x] \in Queued
                                 => /\ state'[x] = state[x] /\ at'[x] = at[x]
                                    /\ kill[x] => kill'[x]
    BY <1>3, <1>4
  <2>2. \A x \in Progs \ {q} : InCblock(x)' <=> InCblock(x)
    BY <1>3 DEF InCblock
  <2>3. ~InCblock(q)'
    BY <1>1 DEF InCblock
  <2>4. state'[q] \in Queued => kill'[q] /\ state'[q] = state[q] /\ at'[q] = at[q]
    BY <1>1 DEF Queued, Blocked
  <2>5. slot' = slot
    OBVIOUS
  <2> QED
    BY <1>1, <2>1, <2>2, <2>3, <2>4, <2>5, ListsLose
<1>6. AltInv'
  <2>1. \A x \in Progs \ {q} : state[x] = "Palt" => state'[x] = "Palt" /\ alt'[x] = alt[x]
    BY <1>3, <1>4
  <2> QED
    BY <1>1, <2>1, AltsLose
<1> QED
  BY <1>2, <1>5, <1>6 DEF IndInv

(* The running prog queues on a channel, in isend, irecv, csend or crecv. *)
LEMMA ListsGain ==
  ASSUME IndInv, NEW p \in Progs, Current(p), NEW c \in Chans, NEW d \in Dirs,
         wait' = [wait EXCEPT ![c][d] = Append(wait[c][d], p)], slot' = slot,
         kill' = kill,
         \A x \in Progs \ {p} : state'[x] = state[x] /\ at'[x] = at[x],
         \A x \in Progs \ {p} : InCblock(x)' <=> InCblock(x),
         state'[p] \in Queued \/ InCblock(p)',
         state'[p] \in Queued =>
           /\ at'[p] \in Globals /\ slot[at'[p]] = c
           /\ d = IF state'[p] = "Psend" THEN "send" ELSE "recv"
  PROVE  WaitInv' /\ AtInv'
<1>1. wait \in Lists
  BY DEF IndInv, TypeOK, Lists
<1>2. \A b \in Chans, e \in Dirs : ~In(p, wait[b][e])
  BY Runner
<1>3. /\ wait'[c][d] = Append(wait[c][d], p)
      /\ \A b \in Chans, e \in Dirs : b # c \/ e # d => wait'[b][e] = wait[b][e]
  BY <1>1 DEF Lists
<1>4. wait[c][d] \in Seq(Progs) /\ Distinct(wait[c][d])
  BY <1>1 DEF Lists, IndInv, WaitInv
<1>5. /\ Distinct(wait'[c][d])
      /\ \A x : In(x, wait'[c][d]) <=> In(x, wait[c][d]) \/ x = p
  BY <1>2, <1>3, <1>4, AppendList
<1>6. \A b \in Chans, e \in Dirs : Distinct(wait'[b][e])
  BY <1>3, <1>5 DEF IndInv, WaitInv
<1>7. \A b \in Chans, e \in Dirs, x \in Progs \ {p} :
        In(x, wait'[b][e]) <=> In(x, wait[b][e])
  BY <1>3, <1>5
<1>8. \A b \in Chans, e \in Dirs : In(p, wait'[b][e]) <=> b = c /\ e = d
  BY <1>2, <1>3, <1>5
<1>9. \A x \in Progs, b1, b2 \in Chans, d1, d2 \in Dirs :
        In(x, wait'[b1][d1]) /\ In(x, wait'[b2][d2]) => b1 = b2 /\ d1 = d2
  BY <1>7, <1>8 DEF IndInv, WaitInv
<1>10. ASSUME NEW x \in Progs
       PROVE  /\ (state'[x] \in Queued /\ ~kill'[x]) \/ InCblock(x)'
                   => \E b \in Chans, e \in Dirs : In(x, wait'[b][e])
              /\ \A b \in Chans, e \in Dirs :
                   In(x, wait'[b][e]) => state'[x] \in Queued \/ InCblock(x)'
  <2>1. CASE x = p
    BY <1>8, <2>1
  <2>2. CASE x # p
    BY <1>7, <2>2 DEF IndInv, WaitInv, Queued
  <2> QED
    BY <2>1, <2>2
<1>11. ASSUME NEW x \in Progs, NEW b \in Chans
       PROVE  /\ state'[x] = "Psend" => ~In(x, wait'[b]["recv"])
              /\ state'[x] = "Precv" => ~In(x, wait'[b]["send"])
  <2>1. CASE x = p
    BY <1>8, <2>1 DEF Dirs, Queued
  <2>2. CASE x # p
    BY <1>7, <2>2 DEF IndInv, WaitInv, Dirs
  <2> QED
    BY <2>1, <2>2
<1>12. WaitInv'
  BY <1>6, <1>9, <1>10, <1>11 DEF WaitInv, Queued
<1>13. ASSUME NEW x \in Progs, state'[x] \in Queued
       PROVE  /\ at'[x] \in Globals
              /\ \A b \in Chans, e \in Dirs : In(x, wait'[b][e]) => b = slot'[at'[x]]
  <2>1. CASE x = p
    BY <1>8, <1>13, <2>1
  <2>2. CASE x # p
    BY <1>7, <1>13, <2>2 DEF IndInv, AtInv, Queued
  <2> QED
    BY <2>1, <2>2
<1>14. AtInv'
  BY <1>13 DEF AtInv, Queued
<1> QED
  BY <1>12, <1>14

(* isend and irecv. *)
LEMMA ISendRecvInv ==
  ASSUME IndInv, NEW p \in Progs, NEW g \in Globals, NEW d \in Dirs, ISendRecv(p, g, d)
  PROVE  IndInv'
<1>0. TypeOK'
  BY ISendRecvType DEF IndInv
<1>t. TypeOK
  BY DEF IndInv
<1> DEFINE c == slot[g]
<1>1. c \in Chans /\ Current(p)
  BY <1>t DEF TypeOK, ISendRecv, InXec
<1>2. /\ alt' = [alt EXCEPT ![p] = NoAlt] /\ UNCHANGED <<kill, host, builtin, slot>>
      /\ \A x \in Progs \ {p} : alt'[x] = alt[x]
  BY <1>t DEF ISendRecv, TypeOK
<1>3. MayRun(p) /\ host[p] = "none" /\ (hook[p] => kill[p])
  BY <1>1, Runner DEF IndInv, HostInv
<1>4. vm = "run" /\ (p \in builtin => ~kill[p])
  BY NotKilled DEF ISendRecv, InXec
<1>5. CASE ~Waiting(c, Dual(d))
  <2> DEFINE s == IF d = "send" THEN "Psend" ELSE "Precv"
  <2>1. /\ state' = [state EXCEPT ![p] = s]
        /\ runq' = Rotate(Tail(runq)) /\ vm' = "switch"
        /\ wait' = [wait EXCEPT ![c][d] = Append(wait[c][d], p)]
        /\ at' = [at EXCEPT ![p] = g]
        /\ UNCHANGED <<hook, altp>>
    BY <1>5 DEF ISendRecv, Block
  <2>2. /\ state'[p] = s /\ at'[p] = g /\ s \in Queued
        /\ \A x \in Progs \ {p} : state'[x] = state[x] /\ at'[x] = at[x]
    BY <1>t, <2>1 DEF TypeOK, Queued
  <2>3. d = IF s = "Psend" THEN "send" ELSE "recv"
    BY DEF Dirs
  <2> HIDE DEF s
  <2>4. RunqInv' /\ KillInv' /\ VmInv'
    BY <1>1, <1>2, <1>4, <2>1, <2>2, Departs DEF MayRun, Queued
  <2>5. HostInv'
    BY <1>2, <1>3, <2>1, <2>2 DEF IndInv, HostInv, Queued
  <2>6. WaitInv' /\ AtInv'
    <3>1. \A x \in Progs \ {p} : InCblock(x)' <=> InCblock(x)
      BY <1>2, <2>1 DEF InCblock
    <3> QED
      <4>1. /\ state'[p] \in Queued /\ at'[p] = g /\ slot[g] = c
            /\ slot' = slot /\ kill' = kill
            /\ wait' = [wait EXCEPT ![c][d] = Append(wait[c][d], p)]
            /\ d = IF state'[p] = "Psend" THEN "send" ELSE "recv"
        BY <1>2, <2>1, <2>2, <2>3
      <4> QED
        BY <1>1, <2>2, <3>1, <4>1, ListsGain
  <2>7. AltInv'
    BY <1>2, <1>3, <2>1, <2>2, AltsKept DEF MayRun
  <2> QED
    BY <1>0, <2>4, <2>5, <2>6, <2>7 DEF IndInv
<1>6. CASE Waiting(c, Dual(d))
  <2>1. /\ Transfer(p, c, d, NoAlt, NoSel, altp) /\ vm' = vm
        /\ at' = [at EXCEPT ![p] = H]
    BY <1>6 DEF ISendRecv
  <2>2. altp \in AltPtrs
    BY <1>t DEF TypeOK, AltPtrs
  <2>3. altp[c][Dual(d)] # p
    BY <1>1, Runner, DualType
  <2>4. \A x \in Progs \ {p} : at'[x] = at[x] /\ alt'[x] = alt[x]
    BY <1>t, <1>2, <2>1 DEF TypeOK
  <2> QED
    BY <1>0, <1>1, <1>2, <1>4, <1>6, <2>1, <2>2, <2>3, <2>4, TransferInv
<1> QED
  BY <1>5, <1>6

(* csend and crecv. *)
LEMMA CSendRecvInv ==
  ASSUME IndInv, NEW p \in Progs, NEW c \in Chans, NEW d \in Dirs, CSendRecv(p, c, d)
  PROVE  IndInv'
<1>0. TypeOK'
  BY CSendRecvType DEF IndInv
<1>t. TypeOK
  BY DEF IndInv
<1>1. Current(p) /\ vm \in {"run", "call"} /\ (vm = "run" /\ p \in builtin => ~kill[p])
  BY NotKilled DEF CSendRecv, InXec, InCall
<1>2. kill' = kill /\ slot' = slot /\ builtin' \subseteq builtin \cup {p}
  BY DEF CSendRecv
<1>3. MayRun(p) /\ host[p] = "none"
  BY <1>1, Runner
<1>4. CASE ~Waiting(c, Dual(d))
  <2>1. /\ wait' = [wait EXCEPT ![c][d] = Append(wait[c][d], p)]
        /\ hook' = [hook EXCEPT ![p] = TRUE]
        /\ runq' = Tail(runq) /\ vm' = "switch"
        /\ state' = [state EXCEPT ![p] = "Prelease"]
        /\ host' = [host EXCEPT ![p] = "block"]
        /\ Forget(p) /\ altp' = altp
    BY <1>4 DEF CSendRecv, Leave
  <2>2. /\ state'[p] = "Prelease" /\ host'[p] = "block" /\ hook'[p] = TRUE
        /\ \A x \in Progs \ {p} :
             /\ state'[x] = state[x] /\ host'[x] = host[x] /\ hook'[x] = hook[x]
             /\ at'[x] = at[x] /\ alt'[x] = alt[x]
    BY <1>t, <2>1 DEF TypeOK, Forget
  <2>3. RunqInv' /\ KillInv' /\ VmInv'
    BY <1>1, <1>2, <2>1, <2>2, Departs DEF MayRun, Blocked
  <2>4. HostInv'
    BY <1>2, <2>2 DEF IndInv, HostInv
  <2>5. WaitInv' /\ AtInv'
    <3>1. \A x \in Progs \ {p} : InCblock(x)' <=> InCblock(x)
      BY <2>2 DEF InCblock
    <3>2. InCblock(p)' /\ state'[p] \notin Queued
      BY <2>2 DEF InCblock, Queued
    <3> QED
      <4>1. /\ wait' = [wait EXCEPT ![c][d] = Append(wait[c][d], p)]
            /\ slot' = slot /\ kill' = kill
            /\ \A x \in Progs \ {p} : state'[x] = state[x] /\ at'[x] = at[x]
        BY <1>2, <2>1, <2>2
      <4> QED
        BY <1>1, <3>1, <3>2, <4>1, ListsGain
  <2>6. AltInv'
    BY <1>3, <2>1, <2>2, AltsKept DEF MayRun
  <2> QED
    BY <1>0, <2>3, <2>4, <2>5, <2>6 DEF IndInv
<1>5. CASE Waiting(c, Dual(d))
  <2>1. /\ Transfer(p, c, d, NoAlt, NoSel, altp) /\ UNCHANGED <<host, at, alt>>
        /\ vm' = IF kill[p] THEN "call" ELSE vm
    BY <1>5 DEF CSendRecv
  <2>2. altp \in AltPtrs
    BY <1>t DEF TypeOK, AltPtrs
  <2>3. altp[c][Dual(d)] # p
    BY <1>1, Runner, DualType
  <2> QED
    BY <1>0, <1>1, <1>2, <1>5, <2>1, <2>2, <2>3, TransferInv
<1> QED
  BY <1>4, <1>5

-----------------------------------------------------------------------------
(* Alt. *)

(* altrdy writes p only into channels of p's own alt. *)
LEMMA MarkValue ==
  ASSUME NEW a \in AltStructs, NEW p, NEW sends, sends \subseteq DOMAIN a.snd,
         NEW c \in Chans, NEW d \in Dirs
  PROVE  \/ Mark(a, p, sends)[c][d] = altp[c][d]
         \/ Mark(a, p, sends)[c][d] = p /\ c \in ChansOf(a, d)
<1>1. c # H
  BY ChanAssumption
<1>2. CASE d = "recv" /\ c \in ChansOf(a, "recv")
  BY <1>2 DEF Mark
<1>3. ASSUME d = "send", NEW n \in sends, a.snd[n] = c
      PROVE  Mark(a, p, sends)[c][d] = p /\ c \in ChansOf(a, d)
  <2>1. Mark(a, p, sends)[c][d] = p
    BY <1>3 DEF Mark
  <2>2. <<c, n, 1>> \in Items(a, d)
    BY <1>3 DEF Items
  <2>3. <<c, n, 1>>[1] = c
    OBVIOUS
  <2> QED
    BY <1>1, <2>1, <2>2, <2>3 DEF ChansOf
<1>4. CASE ~(d = "recv" /\ c \in ChansOf(a, "recv")) /\ ~(d = "send" /\ \E n \in sends : a.snd[n] = c)
  BY <1>4 DEF Mark
<1> QED
  BY <1>2, <1>3, <1>4

(* An alt without a clash never finds its own mark where it looks for a partner. *)
LEMMA NoSelfMeeting ==
  ASSUME NEW a \in AltStructs, Clash(a) = {}, NEW c \in Chans, NEW d \in Dirs,
         c \in ChansOf(a, d)
  PROVE  c \notin ChansOf(a, Dual(d))
<1>1. ASSUME c \in ChansOf(a, "send"), c \in ChansOf(a, "recv") PROVE FALSE
  <2>1. PICK n \in DOMAIN a.snd : a.snd[n] = c
    BY <1>1 DEF ChansOf, Items
  <2>2. n \in Clash(a)
    BY <1>1, <2>1 DEF Clash
  <2> QED
    BY <2>2
<1> QED
  BY <1>1 DEF Dirs, Dual

(* altdone after altrdy: what is left of the alt pointers was there before. *)
LEMMA MarkUnmark ==
  ASSUME IndInv, NEW p \in Progs, Current(p), NEW a \in AltStructs,
         NEW sends, sends \subseteq DOMAIN a.snd,
         altp' = Unmark(Mark(a, p, sends), a, p),
         NEW c \in Chans, NEW d \in Dirs, altp'[c][d] # NoProg
  PROVE  altp'[c][d] = altp[c][d] /\ altp[c][d] # p
<1> DEFINE m == Mark(a, p, sends)
<1>1. m[c][d] = altp[c][d] \/ (m[c][d] = p /\ c \in ChansOf(a, d))
  BY MarkValue
<1> HIDE DEF m
<1>2. altp' = Unmark(m, a, p)
  BY DEF m
<1>3. altp'[c][d] = IF c \in ChansOf(a, d) /\ m[c][d] = p THEN NoProg ELSE m[c][d]
  BY <1>2, UnmarkValue
<1>4. altp[c][d] # p
  BY Runner
<1> QED
  BY <1>1, <1>3, <1>4

(* The instructions alt and nbalt. *)
LEMMA XecAltInv ==
  ASSUME IndInv, NEW p \in Progs, NEW a \in AltsOf[p], NEW block \in BOOLEAN,
         XecAlt(p, a, block)
  PROVE  IndInv'
<1>0. TypeOK'
  BY XecAltType DEF IndInv
<1>t. TypeOK
  BY DEF IndInv
<1>1. a \in AltStructs /\ Current(p)
  BY AltAssumption DEF XecAlt, InXec
<1>2. /\ UNCHANGED <<kill, host, builtin, slot>> /\ alt'[p] = a
      /\ \A x \in Progs \ {p} : at'[x] = at[x] /\ alt'[x] = alt[x]
  BY <1>t DEF XecAlt, TypeOK
<1>3. MayRun(p) /\ host[p] = "none" /\ (hook[p] => kill[p])
  BY <1>1, Runner DEF IndInv, HostInv
<1>4. vm = "run" /\ (p \in builtin => ~kill[p])
  BY NotKilled DEF XecAlt, InXec
<1>5. CASE AltClash(p, a)
  <2>0. Before(a) \subseteq DOMAIN a.snd /\ altp' = Unmark(Mark(a, p, Before(a)), a, p)
    BY <1>5 DEF AltClash, Before
  <2>1. PICK sends : sends \subseteq DOMAIN a.snd /\ altp' = Unmark(Mark(a, p, sends), a, p)
    BY <2>0
  <2>2. /\ runq' = Tail(runq) /\ state' = [state EXCEPT ![p] = "Pbroken"] /\ vm' = "switch"
        /\ UNCHANGED <<hook, wait>>
    BY <1>5 DEF AltClash, Broken
  <2>3. state'[p] = "Pbroken" /\ \A x \in Progs \ {p} : state'[x] = state[x]
    BY <1>t, <2>2 DEF TypeOK
  <2>4. RunqInv' /\ KillInv' /\ VmInv'
    BY <1>1, <1>2, <1>4, <2>2, <2>3, Departs DEF MayRun
  <2>5. HostInv'
    BY <1>2, <1>3, <2>2, <2>3 DEF IndInv, HostInv
  <2>6. WaitInv' /\ AtInv'
    BY <1>2, <1>3, <2>2, <2>3, ListsKept DEF InCblock, Queued, MayRun
  <2>7. AltInv'
    <3>1. \A c \in Chans, d \in Dirs :
            altp'[c][d] # NoProg => altp'[c][d] = altp[c][d] /\ altp[c][d] # p
      BY <1>1, <2>1, MarkUnmark
    <3>2. \A x \in Progs \ {p} : state[x] = "Palt" => state'[x] = "Palt" /\ alt'[x] = alt[x]
      BY <1>2, <2>3
    <3> QED
      BY <3>1, <3>2, AltsLose
  <2> QED
    BY <1>0, <2>4, <2>5, <2>6, <2>7 DEF IndInv
<1>6. CASE AltNone(p, a, block) /\ block
  <2> DEFINE m == Mark(a, p, DOMAIN a.snd)
  <2>1. /\ altp' = m /\ state' = [state EXCEPT ![p] = "Palt"]
        /\ runq' = Rotate(Tail(runq)) /\ vm' = "switch" /\ UNCHANGED <<hook, wait>>
    BY <1>6 DEF AltNone, Block
  <2>2. state'[p] = "Palt" /\ \A x \in Progs \ {p} : state'[x] = state[x]
    BY <1>t, <2>1 DEF TypeOK
  <2>3. RunqInv' /\ KillInv' /\ VmInv'
    BY <1>1, <1>2, <1>4, <2>1, <2>2, Departs DEF MayRun
  <2>4. HostInv'
    BY <1>2, <1>3, <2>1, <2>2 DEF IndInv, HostInv
  <2>5. WaitInv' /\ AtInv'
    BY <1>2, <1>3, <2>1, <2>2, ListsKept DEF InCblock, Queued, MayRun
  <2>6. AltInv'
    <3> SUFFICES ASSUME NEW c \in Chans, NEW d \in Dirs, altp'[c][d] # NoProg
                 PROVE  /\ state'[altp'[c][d]] = "Palt"
                        /\ c \in ChansOf(alt'[altp'[c][d]], d)
      BY DEF AltInv, ChansOf, Items
    <3>1. m[c][d] = altp[c][d] \/ (m[c][d] = p /\ c \in ChansOf(a, d))
      BY <1>1, MarkValue
    <3>2. altp'[c][d] = m[c][d]
      BY <2>1
    <3> HIDE DEF m
    <3>3. CASE m[c][d] = p /\ c \in ChansOf(a, d)
      BY <1>2, <2>2, <3>2, <3>3
    <3>4. CASE m[c][d] = altp[c][d]
      <4>1. altp[c][d] \in Progs /\ altp[c][d] # p
        BY <1>1, <1>t, <3>2, <3>4, Runner DEF TypeOK
      <4>2. state[altp[c][d]] = "Palt" /\ c \in ChansOf(alt[altp[c][d]], d)
        BY <3>2, <3>4 DEF IndInv, AltInv
      <4> QED
        BY <1>2, <2>2, <3>2, <3>4, <4>1, <4>2
    <3> QED
      BY <3>1, <3>3, <3>4
  <2> QED
    BY <1>0, <2>3, <2>4, <2>5, <2>6 DEF IndInv
<1>7. CASE AltNone(p, a, block) /\ ~block
  <2>1. /\ altp' = Unmark(Mark(a, p, DOMAIN a.snd), a, p)
        /\ UNCHANGED <<runq, state, vm, hook, wait>>
    BY <1>7 DEF AltNone
  <2>2. \A x \in Progs : MayRun(x)' <=> MayRun(x)
    BY <1>2, <2>1 DEF MayRun
  <2>3. RunqInv' /\ KillInv' /\ VmInv'
    BY <1>2, <2>1, <2>2, QueueKept
  <2>4. HostInv'
    BY <1>2, <2>1 DEF IndInv, HostInv
  <2>5. WaitInv' /\ AtInv'
    BY <1>2, <1>3, <2>1, ListsKept DEF InCblock, Queued, MayRun
  <2>6. AltInv'
    <3>1. \A c \in Chans, d \in Dirs :
            altp'[c][d] # NoProg => altp'[c][d] = altp[c][d] /\ altp[c][d] # p
      BY <1>1, <2>1, MarkUnmark
    <3>2. \A x \in Progs \ {p} : state[x] = "Palt" => state'[x] = "Palt" /\ alt'[x] = alt[x]
      BY <1>2, <2>1
    <3> QED
      BY <3>1, <3>2, AltsLose
  <2> QED
    BY <1>0, <2>3, <2>4, <2>5, <2>6 DEF IndInv
<1>8. CASE AltSome(p, a)
  <2> DEFINE m == Mark(a, p, DOMAIN a.snd)
  <2>1. /\ Clash(a) = {} /\ vm' = vm
        /\ \E r \in Ready(a) : Transfer(p, r[1][1], r[2], a, <<r[1][2], r[1][3]>>, m)
    BY <1>8 DEF AltSome
  <2>2. PICK r \in Ready(a) : Transfer(p, r[1][1], r[2], a, <<r[1][2], r[1][3]>>, m)
    BY <2>1
  <2> DEFINE c == r[1][1]
             d == r[2]
  <2>3. r[1] \in Items(a, d) /\ d \in Dirs /\ c # H /\ Waiting(c, Dual(d))
    BY DEF Ready, Dirs
  <2>4. c \in Chans
    BY <1>1, <2>3 DEF Items, AltStructs, Dirs
  <2>5. c \in ChansOf(a, d)
    BY <2>3 DEF ChansOf
  <2> HIDE DEF c, d
  <2>6. Dual(d) \in Dirs /\ c \notin ChansOf(a, Dual(d))
    BY <1>1, <2>1, <2>3, <2>4, <2>5, NoSelfMeeting, DualType
  <2>7. altp \in AltPtrs /\ m \in AltPtrs
    BY <1>t, MarkType DEF TypeOK, AltPtrs
  <2>8. \A b \in Chans, e \in Dirs :
          m[b][e] = altp[b][e] \/ (m[b][e] = p /\ b \in ChansOf(a, e))
    BY <1>1, MarkValue
  <2>9. Transfer(p, c, d, a, <<r[1][2], r[1][3]>>, m)
    BY <2>2 DEF c, d
  <2> HIDE DEF m
  <2>10. m[c][Dual(d)] # p
    BY <1>1, <2>4, <2>6, <2>8, Runner
  <2> QED
    BY <1>0, <1>1, <1>2, <1>4, <2>1, <2>3, <2>4, <2>7, <2>8, <2>9, <2>10, TransferInv
<1> QED
  BY <1>5, <1>6, <1>7, <1>8 DEF XecAlt

-----------------------------------------------------------------------------
(* The theorems. *)

LEMMA InitInv == Init => IndInv
<1> SUFFICES ASSUME Init PROVE IndInv
  OBVIOUS
<1>1. TypeOK
  <2>1. runq \in Seq(Progs)
    BY ProgAssumption DEF Init
  <2>2. slot \in [Globals -> Chans]
    BY ChanAssumption DEF Init
  <2> QED
    BY <2>1, <2>2, NoAltType DEF Init, TypeOK
<1>2. /\ runq # <<>> /\ Distinct(runq) /\ \A x : In(x, runq) <=> x = Root
  BY DEF Init, Distinct, In
<1>3. RunqInv
  BY <1>2, ProgAssumption DEF Init, RunqInv, MayRun
<1>4. \A c \in Chans, d \in Dirs : Distinct(wait[c][d]) /\ \A x : ~In(x, wait[c][d])
  BY DEF Init, Distinct, In
<1>5. \A p \in Progs : state[p] \notin Queued /\ ~hook[p] /\ ~kill[p]
  BY DEF Init, Queued
<1>6. WaitInv /\ AtInv
  BY <1>4, <1>5 DEF WaitInv, AtInv, InCblock, Queued, Dirs
<1>7. AltInv
  BY DEF Init, AltInv
<1>8. HostInv
  BY ProgAssumption DEF Init, HostInv
<1>9. KillInv /\ VmInv
  BY <1>2 DEF Init, KillInv, KilledNeverRuns, VmInv
<1> QED
  BY <1>1, <1>3, <1>6, <1>7, <1>8, <1>9 DEF IndInv

LEMMA NextInv == IndInv /\ [Next]_vars => IndInv'
<1> SUFFICES ASSUME IndInv, [Next]_vars PROVE IndInv'
  OBVIOUS
<1>1. CASE Dispatch
  <2>1. TypeOK'
    BY <1>1 DEF Dispatch, IndInv, TypeOK, chanvars, memvars
  <2> QED
    BY <1>1, <2>1, DispatchInv
<1>2. ASSUME NEW p \in Progs, Step(p) PROVE IndInv'
  <2>1. ASSUME NEW g \in Globals, ISend(p, g) \/ IRecv(p, g) PROVE IndInv'
    BY <2>1, ISendRecvInv DEF ISend, IRecv, Dirs
  <2>2. ASSUME NEW a \in AltsOf[p], NEW block \in BOOLEAN, XecAlt(p, a, block)
        PROVE  IndInv'
    BY <2>2, XecAltInv
  <2>3. ASSUME NEW c \in KChans, CSend(p, c) \/ CRecv(p, c) PROVE IndInv'
    BY <2>3, CSendRecvInv, ChanAssumption DEF CSend, CRecv, Dirs
  <2>4. ASSUME NEW q \in Progs, Kill(p, q) \/ Spawn(p, q) PROVE IndInv'
    BY <2>4, KillStepInv, SpawnInv
  <2>5. CASE EndQuantum(p) \/ Return(p)
    BY <2>5, QuantumInv
  <2>6. CASE Fault(p) \/ Exit(p) \/ Release(p)
    BY <2>6, DepartInv
  <2>7. CASE ExitDone(p) \/ Acquire(p) \/ CSleep(p) \/ Unqueue(p)
    BY <2>7, ExitDoneInv, AcquireInv, CSleepInv, UnqueueInv
  <2> QED
    BY <1>2, <2>1, <2>2, <2>3, <2>4, <2>5, <2>6, <2>7 DEF Step
<1>3. CASE UNCHANGED vars
  <2>1. UNCHANGED <<runq, vm, state, kill, hook, host, builtin, wait, altp, slot, at, alt>>
    BY <1>3 DEF vars
  <2>2. TypeOK'
    BY <2>1 DEF IndInv, TypeOK
  <2>3. RunqInv' /\ KillInv' /\ VmInv'
    BY <2>1, QueueKept DEF MayRun
  <2>4. HostInv'
    BY <2>1 DEF IndInv, HostInv
  <2>5. WaitInv' /\ AtInv'
    BY <2>1, ListsKept DEF InCblock
  <2>6. AltInv'
    BY <2>1, AltsKept
  <2> QED
    BY <2>2, <2>3, <2>4, <2>5, <2>6 DEF IndInv
<1> QED
  BY <1>1, <1>2, <1>3 DEF Next

(* The invariant the others follow from. *)
THEOREM Inductive == Spec => []IndInv
  BY InitInv, NextInv, PTL DEF Spec

(***************************************************************************)
(* addrun, delrun, delrunq, acquire and release keep the run queue a list  *)
(* of progs that may run, each once, and of all of them but those that     *)
(* went on after they were killed, in an iload or a finaliser.             *)
(***************************************************************************)
THEOREM RunqCorrect == Spec => []RunqInv
<1>1. IndInv => RunqInv
  BY DEF IndInv
<1> QED
  BY <1>1, Inductive, PTL

(***************************************************************************)
(* The lists of the channels hold progs that wait in a send or a receive   *)
(* and no other: killprog and ccom leave none behind.  They hold every     *)
(* such prog that was not killed before it began to wait.                  *)
(***************************************************************************)
THEOREM ListsCorrect == Spec => []WaitInv
<1>1. IndInv => WaitInv
  BY DEF IndInv
<1> QED
  BY <1>1, Inductive, PTL

(* altdone leaves no alt pointer to a prog that is not blocked in that alt. *)
THEOREM AltsCorrect == Spec => []AltInv
<1>1. IndInv => AltInv
  BY DEF IndInv
<1> QED
  BY <1>1, Inductive, PTL

(***************************************************************************)
(* A prog killed while it is in a built-in, which mcall looks at when it   *)
(* returns, executes no further Dis instruction: no wake-up, stale hook or *)
(* second kill brings it past mcall.                                       *)
(***************************************************************************)
THEOREM KilledInBuiltin == Spec => []KilledNeverRuns
<1>1. IndInv => KilledNeverRuns
  BY DEF IndInv, KillInv
<1> QED
  BY <1>1, Inductive, PTL

-----------------------------------------------------------------------------
(* The channels seen from outside: DisSched implements SyncChan, if no two  *)
(* progs wait in alts for the same end of a channel (UnsharedAlts).  What   *)
(* the steps keep besides IndInv is that an alt that is blocked is recorded *)
(* in all of its channels and that a prog that waits has stored no result.  *)

(* The offers of the progs, as SyncChan sees them. *)
Offered == [x \in Progs |-> Offers(x)]

LEMMA OfferedValue ==
  /\ Offered = [x \in Progs |-> Offered[x]] /\ Offered' = [x \in Progs |-> Offered'[x]]
  /\ \A x \in Progs : Offered[x] = Offers(x) /\ Offered'[x] = Offers(x)'
  BY DEF Offered

LEMMA DualDual ==
  ASSUME NEW d \in Dirs
  PROVE  Dual(d) \in Dirs /\ Dual(Dual(d)) = d /\ Dual(d) # d
  BY DEF Dirs, Dual

(* An offer is in an alt pointer, or it is on a list. *)
LEMMA OfferRecorded ==
  ASSUME IndInv, NEW x \in Progs, NEW c \in Chans, NEW d \in Dirs,
         <<c, d>> \in Offers(x)
  PROVE  /\ Waiting(c, d)
         /\ \/ state[x] = "Palt" /\ c \in ChansOf(alt[x], d)
            \/ state[x] # "Palt" /\ In(x, wait[c][d])
<1>1. CASE altp[c][d] = x
  <2>1. state[x] = "Palt" /\ c \in ChansOf(alt[x], d)
    BY <1>1, ProgAssumption DEF IndInv, AltInv
  <2> QED
    BY <1>1, <2>1, ProgAssumption DEF Waiting
<1>2. CASE In(x, wait[c][d])
  <2>1. wait[c][d] # <<>>
    BY <1>2 DEF In
  <2>2. state[x] \in {"Psend", "Precv"} \/ InCblock(x)
    BY <1>2 DEF IndInv, WaitInv
  <2>3. state[x] # "Palt"
    BY <2>2 DEF InCblock, IndInv, HostInv
  <2> QED
    BY <1>2, <2>1, <2>3 DEF Waiting
<1> QED
  BY <1>1, <1>2 DEF Offers

(* An alt names channels of the program. *)
LEMMA AltChans ==
  ASSUME NEW a \in AltStructs, NEW d \in Dirs
  PROVE  ChansOf(a, d) \subseteq Chans
<1>1. CASE d = "send"
  BY <1>1 DEF AltStructs, ChansOf, Items
<1>2. CASE d = "recv"
  BY <1>2 DEF AltStructs, ChansOf, Items
<1> QED
  BY <1>1, <1>2 DEF Dirs

(* The running prog offers nothing. *)
LEMMA RunnerOffers ==
  ASSUME MeetInv, NEW p \in Progs, Current(p)
  PROVE  Offers(p) = {} /\ state[p] # "Palt"
<1>1. state[p] # "Palt"
  BY Runner DEF MeetInv, MayRun
<1>2. \A c \in Chans, d \in Dirs : ~In(p, wait[c][d]) /\ altp[c][d] # p
  BY Runner DEF MeetInv
<1> QED
  BY <1>1, <1>2 DEF Offers

-----------------------------------------------------------------------------
(* x waits for a partner who can find it. *)
Waits(x) == \E c \in Chans, d \in Dirs : altp[c][d] = x \/ In(x, wait[c][d])

(* A step that touches the waiting of no prog but those of T, each of which *)
(* waits in order afterwards or does not wait.                              *)
TouchesOnly(T) ==
  /\ \A x \in Progs \ T :
       /\ state'[x] = "Palt" <=> state[x] = "Palt"
       /\ state'[x] = "Palt" /\ ~kill'[x] => ~kill[x]
       /\ alt'[x] = alt[x] /\ sel'[x] = sel[x] /\ last'[x] = last[x]
  /\ \A x \in Progs \ T, c \in Chans, d \in Dirs :
       /\ altp'[c][d] = x <=> altp[c][d] = x
       /\ In(x, wait'[c][d]) <=> In(x, wait[c][d])
  /\ sel' \in [Progs -> Nat \X Nat]
  /\ last' \in [Progs -> (Progs \union {NoProg}) \X (Chans \union {H}) \X Dirs]
  /\ \A x \in T : state'[x] = "Palt" =>
       /\ alt'[x] \in AltsOf[x] /\ Clash(alt'[x]) = {}
       /\ ~kill'[x] => \A d \in Dirs : \A c \in ChansOf(alt'[x], d) : altp'[c][d] = x
  /\ \A x \in T : Waits(x)' => sel'[x] = NoSel /\ last'[x] = NoLast
  /\ \A x \in T : sel'[x] # NoSel /\ last'[x] # NoLast =>
       <<last'[x][2], sel'[x][1], sel'[x][2]>> \in Items(alt'[x], last'[x][3])

LEMMA Bystanders ==
  ASSUME MeetInv, NEW T \in SUBSET Progs, TouchesOnly(T)
  PROVE  /\ MemInv' /\ AltRecorded' /\ AltResult'
         /\ \A x \in Progs \ T : Offered'[x] = Offered[x]
         /\ \A x \in T : ~Waits(x)' => Offered'[x] = {}
<1> USE DEF TouchesOnly
<1>1. MemInv'
  <2>1. \A x \in Progs : state'[x] = "Palt" => alt'[x] \in AltsOf[x] /\ Clash(alt'[x]) = {}
    BY DEF MeetInv, MemInv
  <2>2. \A x \in Progs \ T : Waits(x)' <=> Waits(x)
    BY DEF Waits
  <2>3. \A x \in Progs : Waits(x)' => sel'[x] = NoSel /\ last'[x] = NoLast
    BY <2>2 DEF MeetInv, MemInv, Waits
  <2> QED
    BY <2>1, <2>3 DEF MemInv, Waits, Clash, ChansOf, Items
<1>2. AltRecorded'
  <2> SUFFICES ASSUME NEW x \in Progs, state'[x] = "Palt", ~kill'[x], NEW d \in Dirs,
                      NEW c \in ChansOf(alt'[x], d)
               PROVE  altp'[c][d] = x
    BY DEF AltRecorded, ChansOf, Items
  <2>1. CASE x \in T
    BY <2>1
  <2>2. CASE x \notin T
    <3>1. alt'[x] = alt[x] /\ state[x] = "Palt" /\ ~kill[x]
      BY <2>2
    <3>2. c \in Chans
      BY <3>1, AltChans DEF MeetInv, IndInv, TypeOK
    <3>3. altp[c][d] = x
      BY <3>1 DEF MeetInv, AltRecorded
    <3> QED
      BY <2>2, <3>1, <3>2, <3>3
  <2> QED
    BY <2>1, <2>2
<1>3. AltResult'
  <2> SUFFICES ASSUME NEW x \in Progs, sel'[x] # NoSel, last'[x] # NoLast
               PROVE  <<last'[x][2], sel'[x][1], sel'[x][2]>> \in Items(alt'[x], last'[x][3])
    BY DEF AltResult, Items
  <2> QED
    BY DEF MeetInv, AltResult
<1>4. \A x \in Progs \ T : Offered'[x] = Offered[x]
  <2>1. \A x \in Progs \ T, cd \in Chans \X Dirs :
          /\ In(x, wait'[cd[1]][cd[2]]) <=> In(x, wait[cd[1]][cd[2]])
          /\ altp'[cd[1]][cd[2]] = x <=> altp[cd[1]][cd[2]] = x
    OBVIOUS
  <2>2. \A x \in Progs \ T : Offers(x)' = Offers(x)
    BY <2>1 DEF Offers
  <2> QED
    BY <2>2, OfferedValue
<1>5. \A x \in T : ~Waits(x)' => Offers(x)' = {}
  BY DEF Offers, Waits
<1> QED
  BY <1>1, <1>2, <1>3, <1>4, <1>5, OfferedValue

(* A step that does not touch who waits for what. *)
LEMMA Stutters ==
  ASSUME MeetInv, UNCHANGED <<alt, sel, last>>,
         \A x \in Progs : /\ state'[x] = "Palt" <=> state[x] = "Palt"
                          /\ state'[x] = "Palt" /\ ~kill'[x] => ~kill[x],
         \A x \in Progs, c \in Chans, d \in Dirs :
           /\ altp'[c][d] = x <=> altp[c][d] = x
           /\ In(x, wait'[c][d]) <=> In(x, wait[c][d])
  PROVE  MemInv' /\ AltRecorded' /\ AltResult' /\ UNCHANGED Sync!vars
<1>1. TouchesOnly({})
  BY DEF TouchesOnly, MeetInv, MemInv
<1>2. MemInv' /\ AltRecorded' /\ AltResult' /\ \A x \in Progs : Offered'[x] = Offered[x]
  BY <1>1, Bystanders
<1>3. Offered' = Offered
  BY <1>2, OfferedValue
<1> QED
  BY <1>2, <1>3 DEF Offered, Sync!vars

(* A step after which r does not wait, and nobody else is touched. *)
LEMMA Cancels ==
  ASSUME MeetInv, NEW r \in Progs,
         \A x \in Progs \ {r} : /\ state'[x] = "Palt" <=> state[x] = "Palt"
                                /\ state'[x] = "Palt" /\ ~kill'[x] => ~kill[x]
                                /\ alt'[x] = alt[x],
         state'[r] = "Palt" => kill'[r] /\ state[r] = "Palt" /\ alt'[r] = alt[r],
         \A x \in Progs \ {r}, c \in Chans, d \in Dirs :
           /\ altp'[c][d] = x <=> altp[c][d] = x
           /\ In(x, wait'[c][d]) <=> In(x, wait[c][d]),
         ~Waits(r)',
         sel' \in [Progs -> Nat \X Nat],
         \A x \in Progs \ {r} : sel'[x] = sel[x],
         last' = [last EXCEPT ![r] = NoLast]
  PROVE  MemInv' /\ AltRecorded' /\ AltResult' /\ Sync!Cancel(r)
<1>1. /\ last' \in [Progs -> (Progs \union {NoProg}) \X (Chans \union {H}) \X Dirs]
      /\ last'[r] = NoLast /\ \A x \in Progs \ {r} : last'[x] = last[x]
  BY DEF MeetInv, MemInv, NoLast, Dirs
<1>2. /\ MemInv' /\ AltRecorded' /\ AltResult'
      /\ \A x \in Progs \ {r} : Offered'[x] = Offered[x]
      /\ Offered'[r] = {}
  <2>1. state'[r] = "Palt" => alt'[r] \in AltsOf[r] /\ Clash(alt'[r]) = {}
    BY DEF MeetInv, MemInv
  <2>2. TouchesOnly({r})
    BY <1>1, <2>1 DEF TouchesOnly
  <2> QED
    BY <2>2, Bystanders
<1>3. Offered' = [Offered EXCEPT ![r] = {}]
  BY <1>2, OfferedValue
<1>4. Sync!Cancel(r)
  BY <1>3 DEF Offered, Sync!Cancel, Sync!NoLast, NoLast
<1> QED
  BY <1>2, <1>4

(* p blocks in isend, irecv, csend or crecv. *)
LEMMA Blocks ==
  ASSUME MeetInv, NEW p \in Progs, Current(p), NEW c \in Chans, NEW d \in Dirs,
         ~Waiting(c, Dual(d)),
         wait' = [wait EXCEPT ![c][d] = Append(wait[c][d], p)], altp' = altp,
         \A x \in Progs \ {p} : (state'[x] = "Palt" <=> state[x] = "Palt") /\ alt'[x] = alt[x],
         state'[p] # "Palt", kill' = kill,
         sel' = [sel EXCEPT ![p] = NoSel],
         last' = [last EXCEPT ![p] = NoLast]
  PROVE  MemInv' /\ AltRecorded' /\ AltResult' /\ Sync!Offer(p)
<1>1. /\ last' \in [Progs -> (Progs \union {NoProg}) \X (Chans \union {H}) \X Dirs]
      /\ last'[p] = NoLast /\ \A x \in Progs \ {p} : last'[x] = last[x]
  BY DEF MeetInv, MemInv, NoLast, Dirs
<1>2. /\ sel' \in [Progs -> Nat \X Nat]
      /\ sel'[p] = NoSel /\ \A x \in Progs \ {p} : sel'[x] = sel[x]
  BY DEF MeetInv, MemInv, NoSel
<1>3. wait \in Lists /\ wait[c][d] \in Seq(Progs)
  BY DEF MeetInv, IndInv, TypeOK, Lists
<1>4. \A x : \A b \in Chans, e \in Dirs :
        In(x, wait'[b][e]) <=> In(x, wait[b][e]) \/ (x = p /\ b = c /\ e = d)
  <2>1. \A x : In(x, Append(wait[c][d], p)) <=> In(x, wait[c][d]) \/ x = p
    BY <1>3, AppendList
  <2>2. /\ wait'[c][d] = Append(wait[c][d], p)
        /\ \A b \in Chans, e \in Dirs : b # c \/ e # d => wait'[b][e] = wait[b][e]
    BY <1>3 DEF Lists
  <2> QED
    BY <2>1, <2>2
<1>5. /\ MemInv' /\ AltRecorded' /\ AltResult'
      /\ \A x \in Progs \ {p} : Offered'[x] = Offered[x]
  <2>1. TouchesOnly({p})
    BY <1>1, <1>2, <1>4 DEF TouchesOnly
  <2> QED
    BY <2>1, Bystanders
<1>6. Offers(p) = {} /\ \A b \in Chans, e \in Dirs : ~In(p, wait[b][e]) /\ altp[b][e] # p
  BY RunnerOffers, Runner DEF MeetInv
<1>7. Offers(p)' = {<<c, d>>}
  <2>1. \A cd \in Chans \X Dirs :
          altp'[cd[1]][cd[2]] = p \/ In(p, wait'[cd[1]][cd[2]]) <=> cd = <<c, d>>
    <3>1. ASSUME NEW b \in Chans, NEW e \in Dirs
          PROVE  altp'[b][e] = p \/ In(p, wait'[b][e]) <=> <<b, e>> = <<c, d>>
      BY <1>4, <1>6
    <3> QED
      BY <3>1
  <2> QED
    BY <2>1 DEF Offers
<1>8. Offered' = [Offered EXCEPT ![p] = {<<c, d>>}]
  BY <1>5, <1>7, OfferedValue
<1>9. ASSUME NEW q \in Progs, NEW b \in Chans, NEW e \in Dirs, <<b, e>> \in {<<c, d>>}
      PROVE  <<b, Dual(e)>> \notin Offered[q] \union {<<c, d>>}
  <2>1. b = c /\ e = d /\ Dual(d) \in Dirs /\ Dual(d) # d
    BY <1>9, DualDual
  <2>2. <<c, Dual(d)>> \notin Offers(q)
    BY <2>1, OfferRecorded DEF MeetInv
  <2> QED
    BY <2>1, <2>2, OfferedValue
<1>10. Sync!Unmatched({<<c, d>>})
  BY <1>9 DEF Sync!Unmatched, Sync!Dirs, Dirs, Sync!Dual, Dual, Offered
<1>11. Sync!Offer(p)
  <2>1. {<<c, d>>} \in SUBSET (Chans \X Sync!Dirs)
    BY DEF Sync!Dirs, Dirs
  <2>2. Offered[p] = {} /\ Offered'[p] # {}
    BY <1>6, <1>7, OfferedValue
  <2> QED
    BY <1>8, <1>10, <2>1, <2>2 DEF Offered, Sync!Offer, Sync!NoLast, NoLast
<1> QED
  BY <1>5, <1>11

(* The entries of an alt in one direction. *)
LEMMA ItemForm ==
  ASSUME NEW a \in AltStructs, NEW d \in Dirs, NEW i \in Items(a, d)
  PROVE  i[2] \in Nat /\ i[3] \in Nat /\ i = <<i[1], i[2], i[3]>>
<1>1. CASE d = "send"
  <2>1. PICK n \in DOMAIN a.snd : i = <<a.snd[n], n, 1>>
    BY <1>1 DEF Items
  <2> QED
    BY <2>1 DEF AltStructs
<1>2. CASE d = "recv"
  <2>1. PICK n \in DOMAIN a.rcv : \E k \in DOMAIN a.rcv[n] : i = <<a.rcv[n][k], Len(a.snd) + n, k>>
    BY <1>2 DEF Items, Dirs
  <2>3. PICK k \in DOMAIN a.rcv[n] : i = <<a.rcv[n][k], Len(a.snd) + n, k>>
    BY <2>1
  <2>2. a.rcv[n] \in Seq(Chans \union {H}) /\ n \in Nat /\ Len(a.snd) \in Nat
    BY DEF AltStructs
  <2> QED
    BY <2>2, <2>3
<1> QED
  BY <1>1, <1>2 DEF Dirs

(* altdone finds an entry for a channel of the alt. *)
LEMMA SelectedItem ==
  ASSUME NEW a \in AltStructs, NEW d \in Dirs, NEW c \in ChansOf(a, d)
  PROVE  LET s == Selected(a, c, d) IN
           s \in Nat \X Nat /\ <<c, s[1], s[2]>> \in Items(a, d)
<1> DEFINE match == {i \in Items(a, d) : i[1] = c}
           First(i) == \A j \in match : i[2] < j[2] \/ (i[2] = j[2] /\ i[3] <= j[3])
           x == CHOOSE i \in match : First(i)
<1>1. match # {} /\ \A i \in match : i[2] \in Nat /\ i[3] \in Nat /\ i = <<c, i[2], i[3]>>
  BY ItemForm DEF ChansOf
<1>2. \E i \in match : First(i)
  <2> DEFINE M2 == {i[2] : i \in match}
  <2>1. M2 \subseteq Nat /\ M2 # {}
    BY <1>1
  <2>2. PICK m \in M2 : \A n \in M2 : m <= n
    BY <2>1, LeastNat
  <2> DEFINE M3 == {i[3] : i \in {j \in match : j[2] = m}}
  <2>3. M3 \subseteq Nat /\ M3 # {}
    BY <1>1
  <2>4. PICK k \in M3 : \A n \in M3 : k <= n
    BY <2>3, LeastNat
  <2>5. PICK i \in match : i[2] = m /\ i[3] = k
    OBVIOUS
  <2>6. ASSUME NEW j \in match PROVE i[2] < j[2] \/ (i[2] = j[2] /\ i[3] <= j[3])
    <3>1. m <= j[2] /\ (j[2] = m => k <= j[3])
      BY <2>2, <2>4
    <3> QED
      BY <1>1, <2>5, <3>1
  <2> QED
    BY <2>5, <2>6
<1>3. x \in match
  BY <1>2
<1>4. Selected(a, c, d) = <<x[2], x[3]>>
  BY Zenon DEF Selected
<1> HIDE DEF x
<1> QED
  BY <1>1, <1>3, <1>4

(* altrdy for p leaves the alts of others alone, if they share no channel. *)
LEMMA OwnPointer ==
  ASSUME MeetInv, UnsharedAlts, NEW p \in Progs, NEW a \in AltsOf[p],
         NEW x \in Progs \ {p}, NEW b \in Chans, NEW e \in Dirs, altp[b][e] = x
  PROVE  <<b, e>> \notin Marks(a)
<1>1. state[x] = "Palt" /\ b \in ChansOf(alt[x], e)
  BY ProgAssumption DEF MeetInv, IndInv, AltInv
<1>2. alt[x] \in AltsOf[x] /\ Clash(alt[x]) = {}
  BY <1>1 DEF MeetInv, MemInv
<1>3. <<b, e>> \in Marks(alt[x])
  <2>1. CASE e = "recv"
    BY <1>1, <2>1 DEF Marks
  <2>2. CASE e = "send"
    <3>1. \E n \in DOMAIN alt[x].snd : alt[x].snd[n] = b
      BY <1>1, <2>2 DEF ChansOf, Items
    <3>2. Before(alt[x]) = DOMAIN alt[x].snd
      BY <1>2 DEF Before
    <3> QED
      BY <2>2, <3>1, <3>2 DEF Marks
  <2> QED
    BY <2>1, <2>2 DEF Dirs
<1> QED
  BY <1>2, <1>3 DEF UnsharedAlts

(* p communicates with a prog that waits. *)
LEMMA Meets ==
  ASSUME MeetInv, NEW p \in Progs, Current(p), NEW c \in Chans, NEW d \in Dirs,
         NEW a, NEW mine \in Nat \X Nat, NEW marks \in AltPtrs,
         \A b \in Chans, e \in Dirs :
           marks[b][e] = altp[b][e] \/ (marks[b][e] = p /\ b \in ChansOf(a, e)),
         marks[c][Dual(d)] # p,
         Waiting(c, Dual(d)),
         Transfer(p, c, d, a, mine, marks),
         \A x \in Progs \ {p}, b \in Chans, e \in Dirs : altp[b][e] = x => marks[b][e] = x,
         \A x \in Progs \ {p} : alt'[x] = alt[x], kill' = kill,
         mine # NoSel => <<c, mine[1], mine[2]>> \in Items(alt'[p], d)
  PROVE  /\ MemInv' /\ AltRecorded' /\ AltResult'
         /\ \E q \in Progs : Sync!Meet(p, q, c, d)
<1>1. PICK q \in Progs : Partner(p, q, c, d, mine, marks)
  BY TransferPartner DEF MeetInv
<1> DEFINE f == Dual(d)
<1>2. f \in Dirs /\ p # q
  BY <1>1, DualType DEF Partner
<1>3. /\ last' \in [Progs -> (Progs \union {NoProg}) \X (Chans \union {H}) \X Dirs]
      /\ last'[p] = <<q, c, d>> /\ last'[q] = <<p, c, f>>
      /\ \A x \in Progs \ {p, q} : last'[x] = last[x]
  <2> DEFINE L == (Progs \union {NoProg}) \X (Chans \union {H}) \X Dirs
  <2>1. last \in [Progs -> L] /\ <<q, c, d>> \in L /\ <<p, c, f>> \in L
    BY <1>2 DEF MeetInv, MemInv
  <2> HIDE DEF L, f
  <2>2. last' = [last EXCEPT ![p] = <<q, c, d>>, ![q] = <<p, c, f>>]
    BY <1>1 DEF Partner, f
  <2>3. /\ last' \in [Progs -> L]
        /\ last'[p] = <<q, c, d>> /\ last'[q] = <<p, c, f>>
        /\ \A x \in Progs \ {p, q} : last'[x] = last[x]
    BY <1>2, <2>1, <2>2
  <2> QED
    BY <2>3 DEF L
<1>4. /\ sel' \in [Progs -> Nat \X Nat] /\ sel'[p] = mine
      /\ \A x \in Progs \ {p, q} : sel'[x] = sel[x]
      /\ sel'[q] # NoSel => <<c, sel'[q][1], sel'[q][2]>> \in Items(alt[q], f)
  <2>0. sel \in [Progs -> Nat \X Nat] /\ alt[q] \in AltStructs
    BY DEF MeetInv, MemInv, IndInv, TypeOK
  <2>1. CASE state[q] = "Palt"
    <3>1. sel' = [sel EXCEPT ![p] = mine, ![q] = Selected(alt[q], c, f)]
      BY <1>1, <2>1 DEF Partner
    <3>2. c \in ChansOf(alt[q], f)
      BY <1>1, <1>2, <2>1, OfferRecorded DEF Partner, MeetInv
    <3>3. /\ Selected(alt[q], c, f) \in Nat \X Nat
          /\ <<c, Selected(alt[q], c, f)[1], Selected(alt[q], c, f)[2]>> \in Items(alt[q], f)
      BY <1>2, <2>0, <3>2, SelectedItem
    <3> QED
      BY <1>2, <2>0, <3>1, <3>3
  <2>2. CASE state[q] # "Palt"
    <3>1. sel' = [sel EXCEPT ![p] = mine]
      BY <1>1, <2>2 DEF Partner
    <3>2. In(q, wait[c][f])
      BY <1>1, <1>2, <2>2, OfferRecorded DEF Partner, MeetInv
    <3>3. sel[q] = NoSel
      BY <1>2, <3>2 DEF MeetInv, MemInv
    <3> QED
      BY <1>2, <2>0, <3>1, <3>3
  <2> QED
    BY <2>1, <2>2
<1>5. \A x \in Progs \ {q} : state'[x] = state[x]
  BY <1>1 DEF Partner, AddRun, MeetInv, IndInv, TypeOK
<1>6. /\ Offers(p) = {} /\ state[p] # "Palt"
      /\ \A b \in Chans, e \in Dirs : ~In(p, wait[b][e]) /\ altp[b][e] # p
  BY RunnerOffers, Runner DEF MeetInv
<1>7. /\ state'[p] # "Palt" /\ (state'[q] = "Palt" => kill[q] /\ state[q] = "Palt")
      /\ ~Waits(p)' /\ ~Waits(q)'
      /\ \A x \in Progs \ {p, q}, b \in Chans, e \in Dirs :
           /\ altp'[b][e] = x <=> altp[b][e] = x
           /\ In(x, wait'[b][e]) <=> In(x, wait[b][e])
  <2>1. state'[p] # "Palt" /\ (state'[q] = "Palt" => kill[q] /\ state[q] = "Palt")
    BY <1>1, <1>2, <1>5, <1>6 DEF Partner, Blocked
  <2>2. \A b \in Chans, e \in Dirs :
          /\ ~In(p, wait'[b][e]) /\ ~In(q, wait'[b][e])
          /\ altp'[b][e] # NoProg => altp'[b][e] = altp[b][e] /\ altp[b][e] # q
    BY <1>1, <1>6 DEF Partner
  <2>3. ~Waits(p)' /\ ~Waits(q)'
    BY <1>2, <1>6, <2>2, ProgAssumption DEF Waits
  <2>4. ASSUME NEW x \in Progs \ {p, q}, NEW b \in Chans, NEW e \in Dirs
        PROVE  /\ altp'[b][e] = x <=> altp[b][e] = x
               /\ In(x, wait'[b][e]) <=> In(x, wait[b][e])
    BY <1>1, <2>2, <2>4, ProgAssumption DEF Partner
  <2> QED
    BY <2>1, <2>3, <2>4
<1>8. /\ sel'[p] # NoSel => <<last'[p][2], sel'[p][1], sel'[p][2]>> \in Items(alt'[p], last'[p][3])
      /\ sel'[q] # NoSel => <<last'[q][2], sel'[q][1], sel'[q][2]>> \in Items(alt'[q], last'[q][3])
  BY <1>2, <1>3, <1>4
<1>9. TouchesOnly({p, q})
  <2>1. \A x \in {p, q} : sel'[x] # NoSel /\ last'[x] # NoLast =>
          <<last'[x][2], sel'[x][1], sel'[x][2]>> \in Items(alt'[x], last'[x][3])
    BY <1>8
  <2>2. \A x \in Progs \ {p, q} : state'[x] = state[x] /\ alt'[x] = alt[x]
    BY <1>5
  <2>3. state'[q] = "Palt" => /\ kill'[q]
                              /\ alt'[q] \in AltsOf[q] /\ Clash(alt'[q]) = {}
    BY <1>2, <1>7 DEF MeetInv, MemInv
  <2> QED
    BY <1>3, <1>4, <1>7, <2>1, <2>2, <2>3 DEF TouchesOnly
<1>10. /\ MemInv' /\ AltRecorded' /\ AltResult'
       /\ \A x \in Progs \ {p, q} : Offered'[x] = Offered[x]
       /\ Offered'[p] = {} /\ Offered'[q] = {}
  BY <1>7, <1>9, Bystanders
<1>11. Offered' = [Offered EXCEPT ![q] = {}] /\ Offered[p] = {} /\ <<c, f>> \in Offered[q]
  <2>1. Offered[p] = {} /\ <<c, f>> \in Offered[q]
    BY <1>1, <1>6, OfferedValue DEF Partner
  <2>2. \A x \in Progs : Offered'[x] = IF x = q THEN {} ELSE Offered[x]
    BY <1>10, <2>1
  <2> QED
    BY <2>1, <2>2, OfferedValue
<1>12. Sync!Meet(p, q, c, d)
  BY <1>1, <1>2, <1>11 DEF Partner, Sync!Meet, Offered, Sync!Dual, Dual
<1> QED
  BY <1>10, <1>12

LEMMA MarkMarks ==
  ASSUME NEW a, NEW p, NEW b \in Chans, NEW e \in Dirs
  PROVE  Mark(a, p, Before(a))[b][e] = IF <<b, e>> \in Marks(a) THEN p ELSE altp[b][e]
  BY DEF Mark, Marks, Dirs

(* An alt without a clash marks all of its channels. *)
LEMMA NoClash ==
  ASSUME NEW a, Clash(a) = {}
  PROVE  /\ Before(a) = DOMAIN a.snd
         /\ \A e \in Dirs : \A b \in ChansOf(a, e) : <<b, e>> \in Marks(a)
<1>1. Before(a) = DOMAIN a.snd
  BY DEF Before
<1>2. \A b \in ChansOf(a, "send") : <<b, "send">> \in Marks(a)
  BY <1>1 DEF ChansOf, Items, Marks
<1>3. \A b \in ChansOf(a, "recv") : <<b, "recv">> \in Marks(a)
  BY DEF Marks
<1> QED
  BY <1>1, <1>2, <1>3 DEF Dirs

(* p blocks in an alt. *)
LEMMA AltBlocks ==
  ASSUME MeetInv, UnsharedAlts, NEW p \in Progs, Current(p), NEW a \in AltsOf[p],
         a \in AltStructs, Clash(a) = {}, Ready(a) = {},
         altp' = Mark(a, p, DOMAIN a.snd), wait' = wait,
         \A x \in Progs \ {p} : state'[x] = state[x] /\ alt'[x] = alt[x],
         state'[p] = "Palt", alt'[p] = a, kill' = kill,
         sel' = [sel EXCEPT ![p] = NoSel],
         last' = [last EXCEPT ![p] = NoLast]
  PROVE  /\ MemInv' /\ AltRecorded' /\ AltResult'
         /\ Sync!Offer(p) \/ Sync!Cancel(p)
<1> DEFINE O == {cd \in Chans \X Dirs : cd[1] \in ChansOf(a, cd[2])}
<1>1. /\ last' \in [Progs -> (Progs \union {NoProg}) \X (Chans \union {H}) \X Dirs]
      /\ last'[p] = NoLast /\ \A x \in Progs \ {p} : last'[x] = last[x]
  BY DEF MeetInv, MemInv, NoLast, Dirs
<1>2. /\ sel' \in [Progs -> Nat \X Nat]
      /\ sel'[p] = NoSel /\ \A x \in Progs \ {p} : sel'[x] = sel[x]
  BY DEF MeetInv, MemInv, NoSel
<1>3. \A b \in Chans, e \in Dirs : altp'[b][e] = IF <<b, e>> \in Marks(a) THEN p ELSE altp[b][e]
  <2>1. altp' = Mark(a, p, Before(a))
    BY NoClash
  <2>2. ASSUME NEW b \in Chans, NEW e \in Dirs
        PROVE  altp'[b][e] = IF <<b, e>> \in Marks(a) THEN p ELSE altp[b][e]
    <3>1. Mark(a, p, Before(a))[b][e] = IF <<b, e>> \in Marks(a) THEN p ELSE altp[b][e]
      BY MarkMarks
    <3> QED
      BY <2>1, <3>1
  <2> QED
    BY <2>2
<1>4. \A x \in Progs \ {p}, b \in Chans, e \in Dirs : altp'[b][e] = x <=> altp[b][e] = x
  BY <1>3, OwnPointer
<1>5. \A e \in Dirs : \A b \in ChansOf(a, e) : altp'[b][e] = p
  BY <1>3, NoClash, AltChans
<1>6. TouchesOnly({p})
  BY <1>1, <1>2, <1>4, <1>5 DEF TouchesOnly
<1>7. /\ MemInv' /\ AltRecorded' /\ AltResult'
      /\ \A x \in Progs \ {p} : Offered'[x] = Offered[x]
  BY <1>6, Bystanders
<1>8. Offers(p)' = O
  <2>1. \A b \in Chans, e \in Dirs : ~In(p, wait[b][e]) /\ altp[b][e] # p
    BY Runner DEF MeetInv
  <2>2. ASSUME NEW b \in Chans, NEW e \in Dirs
        PROVE  altp'[b][e] = p \/ In(p, wait'[b][e]) <=> b \in ChansOf(a, e)
    BY <1>5, <2>1, MarkValue
  <2>3. \A cd \in Chans \X Dirs :
          altp'[cd[1]][cd[2]] = p \/ In(p, wait'[cd[1]][cd[2]]) <=> cd[1] \in ChansOf(a, cd[2])
    BY <2>2
  <2> QED
    BY <2>3 DEF Offers
<1> HIDE DEF O
<1>9. Offered' = [Offered EXCEPT ![p] = O]
  BY <1>7, <1>8, OfferedValue
<1>10. ASSUME NEW c \in Chans, NEW d \in Dirs, <<c, d>> \in O
       PROVE  ~Waiting(c, Dual(d)) /\ <<c, Dual(d)>> \notin O
  <2>1. c \in ChansOf(a, d)
    BY <1>10 DEF O
  <2>2. PICK i \in Items(a, d) : i[1] = c /\ c # H
    BY <2>1 DEF ChansOf
  <2>3. <<i, d>> \in (Items(a, "send") \X {"send"}) \union (Items(a, "recv") \X {"recv"})
    BY DEF Dirs
  <2>4. ~Waiting(c, Dual(d))
    BY <2>2, <2>3 DEF Ready
  <2>5. c \notin ChansOf(a, Dual(d))
    BY <2>1, NoSelfMeeting
  <2> QED
    BY <2>4, <2>5 DEF O
<1>11. ASSUME NEW q \in Progs, NEW c \in Chans, NEW d \in Dirs, <<c, d>> \in O
       PROVE  <<c, Dual(d)>> \notin Offered[q] \union O
  <2>1. <<c, Dual(d)>> \notin Offers(q)
    BY <1>10, <1>11, DualDual, OfferRecorded DEF MeetInv
  <2> QED
    BY <1>10, <1>11, <2>1, OfferedValue
<1>12. Sync!Unmatched(O)
  BY <1>11 DEF Sync!Unmatched, Sync!Dirs, Dirs, Sync!Dual, Dual, Offered
<1>13. Offered[p] = {}
  BY RunnerOffers, OfferedValue
<1>14. CASE O # {}
  <2>1. O \in SUBSET (Chans \X Sync!Dirs)
    BY DEF O, Sync!Dirs, Dirs
  <2>2. Offered'[p] # {}
    BY <1>8, <1>14, OfferedValue
  <2> QED
    BY <1>7, <1>9, <1>12, <1>13, <2>1, <2>2 DEF Offered, Sync!Offer, Sync!NoLast, NoLast
<1>15. CASE O = {}
  BY <1>7, <1>9, <1>15 DEF Offered, Sync!Cancel, Sync!NoLast, NoLast
<1> QED
  BY <1>14, <1>15

-----------------------------------------------------------------------------
(* One lemma per kind of action. *)

(* What each step keeps, and what SyncChan sees of it. *)
Synchronous == MemInv' /\ AltRecorded' /\ AltResult' /\ [Sync!Next]_(Sync!vars)

LEMMA ISendRecvMeets ==
  ASSUME MeetInv, NEW p \in Progs, NEW g \in Globals, NEW d \in Dirs, ISendRecv(p, g, d)
  PROVE  Synchronous
<1> DEFINE c == slot[g]
<1>t. TypeOK
  BY DEF MeetInv, IndInv
<1>1. c \in Chans /\ Current(p)
  BY <1>t DEF ISendRecv, InXec, TypeOK
<1>2. alt' = [alt EXCEPT ![p] = NoAlt] /\ kill' = kill
  BY DEF ISendRecv
<1>3. \A x \in Progs \ {p} : alt'[x] = alt[x]
  BY <1>t, <1>2 DEF TypeOK
<1>4. CASE ~Waiting(c, Dual(d))
  <2>1. /\ \E s \in Queued : state' = [state EXCEPT ![p] = s]
        /\ wait' = [wait EXCEPT ![c][d] = Append(wait[c][d], p)] /\ altp' = altp
        /\ sel' = [sel EXCEPT ![p] = NoSel] /\ last' = [last EXCEPT ![p] = NoLast]
    BY <1>4 DEF ISendRecv, Block, Queued
  <2>2. state'[p] # "Palt" /\ \A x \in Progs \ {p} : state'[x] = state[x]
    BY <1>t, <2>1 DEF TypeOK, Queued
  <2> HIDE DEF c
  <2>3. MemInv' /\ AltRecorded' /\ AltResult' /\ Sync!Offer(p)
    BY <1>1, <1>2, <1>3, <1>4, <2>1, <2>2, Blocks
  <2> QED
    BY <2>3 DEF Synchronous, Sync!Next
<1>5. CASE Waiting(c, Dual(d))
  <2>1. Transfer(p, c, d, NoAlt, NoSel, altp)
    BY <1>5 DEF ISendRecv
  <2>2. altp \in AltPtrs /\ NoSel \in Nat \X Nat
    BY <1>t DEF TypeOK, AltPtrs, NoSel
  <2>3. altp[c][Dual(d)] # p
    BY <1>1, Runner, DualType DEF MeetInv
  <2> HIDE DEF c
  <2>4. MemInv' /\ AltRecorded' /\ AltResult' /\ \E q \in Progs : Sync!Meet(p, q, c, d)
    BY <1>1, <1>2, <1>3, <1>5, <2>1, <2>2, <2>3, Meets
  <2> QED
    BY <1>1, <2>4 DEF Synchronous, Sync!Next, Sync!Dirs, Dirs
<1> QED
  BY <1>4, <1>5

LEMMA CSendRecvMeets ==
  ASSUME MeetInv, NEW p \in Progs, NEW c \in Chans, NEW d \in Dirs, CSendRecv(p, c, d)
  PROVE  Synchronous
<1>t. TypeOK
  BY DEF MeetInv, IndInv
<1>1. Current(p) /\ kill' = kill
  BY DEF CSendRecv, InXec, InCall
<1>2. CASE ~Waiting(c, Dual(d))
  <2>1. /\ state' = [state EXCEPT ![p] = "Prelease"]
        /\ wait' = [wait EXCEPT ![c][d] = Append(wait[c][d], p)] /\ altp' = altp
        /\ sel' = [sel EXCEPT ![p] = NoSel] /\ last' = [last EXCEPT ![p] = NoLast]
        /\ alt' = [alt EXCEPT ![p] = NoAlt]
    BY <1>2 DEF CSendRecv, Leave, Forget
  <2>2. state'[p] # "Palt" /\ \A x \in Progs \ {p} : state'[x] = state[x] /\ alt'[x] = alt[x]
    BY <1>t, <2>1 DEF TypeOK
  <2>3. MemInv' /\ AltRecorded' /\ AltResult' /\ Sync!Offer(p)
    BY <1>1, <1>2, <2>1, <2>2, Blocks
  <2> QED
    BY <2>3 DEF Synchronous, Sync!Next
<1>3. CASE Waiting(c, Dual(d))
  <2>1. Transfer(p, c, d, NoAlt, NoSel, altp) /\ alt' = alt
    BY <1>3 DEF CSendRecv
  <2>2. altp \in AltPtrs /\ NoSel \in Nat \X Nat
    BY <1>t DEF TypeOK, AltPtrs, NoSel
  <2>3. altp[c][Dual(d)] # p
    BY <1>1, Runner, DualType DEF MeetInv
  <2>4. MemInv' /\ AltRecorded' /\ AltResult' /\ \E q \in Progs : Sync!Meet(p, q, c, d)
    BY <1>1, <1>3, <2>1, <2>2, <2>3, Meets
  <2> QED
    BY <2>4 DEF Synchronous, Sync!Next, Sync!Dirs, Dirs
<1> QED
  BY <1>2, <1>3

(* altdone after altrdy leaves the alts of others as they were, and no mark *)
(* of p.                                                                    *)
LEMMA OthersMarked ==
  ASSUME MeetInv, UnsharedAlts, NEW p \in Progs, Current(p), NEW a \in AltsOf[p],
         altp' = Unmark(Mark(a, p, Before(a)), a, p),
         NEW b \in Chans, NEW e \in Dirs
  PROVE  altp'[b][e] # p /\ \A x \in Progs \ {p} : altp'[b][e] = x <=> altp[b][e] = x
<1> DEFINE m == Mark(a, p, Before(a))[b][e]
<1>1. m = IF <<b, e>> \in Marks(a) THEN p ELSE altp[b][e]
  BY MarkMarks
<1>2. altp'[b][e] = IF b \in ChansOf(a, e) /\ m = p THEN NoProg ELSE m
  BY UnmarkValue
<1>3. altp[b][e] # p
  BY Runner DEF MeetInv
<1>4. m = altp[b][e] \/ (m = p /\ b \in ChansOf(a, e))
  <2>1. a \in AltStructs /\ Before(a) \subseteq DOMAIN a.snd
    BY AltAssumption DEF Before
  <2> QED
    BY <2>1, MarkValue
<1>5. \A x \in Progs \ {p} : altp[b][e] = x => <<b, e>> \notin Marks(a)
  BY OwnPointer
<1> HIDE DEF m
<1> QED
  BY <1>1, <1>2, <1>3, <1>4, <1>5, ProgAssumption

LEMMA XecAltMeets ==
  ASSUME MeetInv, UnsharedAlts, NEW p \in Progs, NEW a \in AltsOf[p], NEW block \in BOOLEAN,
         XecAlt(p, a, block)
  PROVE  Synchronous
<1>t. TypeOK
  BY DEF MeetInv, IndInv
<1>1. a \in AltStructs /\ Current(p)
  BY AltAssumption DEF XecAlt, InXec
<1>2. alt'[p] = a /\ kill' = kill /\ \A x \in Progs \ {p} : alt'[x] = alt[x]
  BY <1>t DEF XecAlt, TypeOK
<1>3. /\ state[p] # "Palt" /\ sel \in [Progs -> Nat \X Nat]
      /\ \A b \in Chans, e \in Dirs : ~In(p, wait[b][e])
  BY <1>1, Runner, RunnerOffers DEF MeetInv, MemInv
<1>4. ASSUME \/ AltClash(p, a)
             \/ AltNone(p, a, block) /\ ~block
      PROVE  Synchronous
  <2>1. /\ altp' = Unmark(Mark(a, p, Before(a)), a, p) /\ wait' = wait
        /\ last' = [last EXCEPT ![p] = NoLast]
        /\ state' = state \/ state' = [state EXCEPT ![p] = "Pbroken"]
        /\ \E n \in Nat \X Nat : sel' = [sel EXCEPT ![p] = n]
    <3>1. CASE AltClash(p, a)
      <4>1. NoSel \in Nat \X Nat
        BY DEF NoSel
      <4> QED
        BY <3>1, <4>1 DEF AltClash, Broken
    <3>2. CASE AltNone(p, a, block) /\ ~block
      <4>1. <<Len(a.snd) + Len(a.rcv) + 1, 1>> \in Nat \X Nat
        BY <1>1 DEF AltStructs
      <4>2. Before(a) = DOMAIN a.snd
        BY <3>2, NoClash DEF AltNone
      <4> QED
        BY <3>2, <4>1, <4>2 DEF AltNone
    <3> QED
      BY <1>4, <3>1, <3>2
  <2>2. state'[p] # "Palt" /\ \A x \in Progs \ {p} : state'[x] = state[x]
    BY <1>t, <1>3, <2>1 DEF TypeOK
  <2>3. \A b \in Chans, e \in Dirs :
          altp'[b][e] # p /\ \A x \in Progs \ {p} : altp'[b][e] = x <=> altp[b][e] = x
    BY <1>1, <2>1, OthersMarked
  <2>4. sel' \in [Progs -> Nat \X Nat] /\ \A x \in Progs \ {p} : sel'[x] = sel[x]
    BY <1>3, <2>1
  <2>5. /\ last' = [last EXCEPT ![p] = NoLast]
        /\ ~Waits(p)'
        /\ \A x \in Progs \ {p}, c \in Chans, d \in Dirs :
             /\ altp'[c][d] = x <=> altp[c][d] = x
             /\ In(x, wait'[c][d]) <=> In(x, wait[c][d])
    BY <1>3, <2>1, <2>3 DEF Waits
  <2>6. \A x \in Progs \ {p} : (state'[x] = "Palt" <=> state[x] = "Palt") /\ alt'[x] = alt[x]
    BY <1>2, <2>2
  <2>7. MemInv' /\ AltRecorded' /\ AltResult' /\ Sync!Cancel(p)
    BY <1>2, <2>2, <2>4, <2>5, <2>6, Cancels
  <2> QED
    BY <2>7 DEF Synchronous, Sync!Next
<1>5. CASE AltNone(p, a, block) /\ block
  <2>1. /\ Clash(a) = {} /\ Ready(a) = {} /\ altp' = Mark(a, p, DOMAIN a.snd) /\ wait' = wait
        /\ state' = [state EXCEPT ![p] = "Palt"]
        /\ sel' = [sel EXCEPT ![p] = NoSel] /\ last' = [last EXCEPT ![p] = NoLast]
    BY <1>5 DEF AltNone, Block
  <2>2. state'[p] = "Palt" /\ \A x \in Progs \ {p} : state'[x] = state[x]
    BY <1>t, <2>1 DEF TypeOK
  <2>3. /\ MemInv' /\ AltRecorded' /\ AltResult'
        /\ Sync!Offer(p) \/ Sync!Cancel(p)
    BY <1>1, <1>2, <2>1, <2>2, AltBlocks
  <2> QED
    BY <2>3 DEF Synchronous, Sync!Next, Sync!Dirs, Dirs
<1>6. CASE AltSome(p, a)
  <2> DEFINE m == Mark(a, p, DOMAIN a.snd)
  <2>1. Clash(a) = {} /\ \E r \in Ready(a) : Transfer(p, r[1][1], r[2], a, <<r[1][2], r[1][3]>>, m)
    BY <1>6 DEF AltSome
  <2>2. PICK r \in Ready(a) : Transfer(p, r[1][1], r[2], a, <<r[1][2], r[1][3]>>, m)
    BY <2>1
  <2> DEFINE c == r[1][1]
             d == r[2]
             mine == <<r[1][2], r[1][3]>>
  <2>3. r[1] \in Items(a, d) /\ d \in Dirs /\ c # H /\ Waiting(c, Dual(d))
    BY DEF Ready, Dirs
  <2>4. c \in Chans /\ c \in ChansOf(a, d)
    <3>1. c \in ChansOf(a, d)
      BY <2>3 DEF ChansOf
    <3> QED
      BY <1>1, <2>3, <3>1, AltChans
  <2>5. mine \in Nat \X Nat /\ <<c, mine[1], mine[2]>> \in Items(a, d)
    BY <1>1, <2>3, ItemForm
  <2>6. Transfer(p, c, d, a, mine, m)
    BY <2>2
  <2> HIDE DEF c, d, mine
  <2>7. Dual(d) \in Dirs /\ c \notin ChansOf(a, Dual(d))
    BY <1>1, <2>1, <2>3, <2>4, NoSelfMeeting, DualType
  <2>8. m \in AltPtrs
    BY <1>t, MarkType DEF TypeOK, AltPtrs
  <2>9. \A b \in Chans, e \in Dirs :
          m[b][e] = altp[b][e] \/ (m[b][e] = p /\ b \in ChansOf(a, e))
    BY <1>1, MarkValue
  <2>10. \A x \in Progs \ {p}, b \in Chans, e \in Dirs : altp[b][e] = x => m[b][e] = x
    <3>1. m = Mark(a, p, Before(a))
      BY <2>1, NoClash
    <3> HIDE DEF m
    <3>2. ASSUME NEW x \in Progs \ {p}, NEW b \in Chans, NEW e \in Dirs, altp[b][e] = x
          PROVE  m[b][e] = x
      <4>1. <<b, e>> \notin Marks(a)
        BY <3>2, OwnPointer
      <4>2. Mark(a, p, Before(a))[b][e] = IF <<b, e>> \in Marks(a) THEN p ELSE altp[b][e]
        BY MarkMarks
      <4> QED
        BY <3>1, <3>2, <4>1, <4>2
    <3> QED
      BY <3>2
  <2> HIDE DEF m
  <2>11. m[c][Dual(d)] # p
    BY <1>1, <2>4, <2>7, <2>9, Runner DEF MeetInv
  <2>12. /\ MemInv' /\ AltRecorded' /\ AltResult'
         /\ \E q \in Progs : Sync!Meet(p, q, c, d)
    BY <1>1, <1>2, <2>3, <2>4, <2>5, <2>6, <2>8, <2>9, <2>10, <2>11, Meets
  <2> QED
    BY <2>3, <2>4, <2>12 DEF Synchronous, Sync!Next, Sync!Dirs, Dirs
<1> QED
  BY <1>4, <1>5, <1>6 DEF XecAlt

(* A prog that runs goes on, leaves the machine or ends. *)
LEMMA ForgetMeets ==
  ASSUME MeetInv, NEW p \in Progs,
         EndQuantum(p) \/ Return(p) \/ Fault(p) \/ Exit(p) \/ Release(p)
  PROVE  Synchronous
<1>t. TypeOK
  BY DEF MeetInv, IndInv
<1>1. Current(p)
  BY DEF EndQuantum, Return, Fault, Exit, Release, InXec, InCall
<1>2. /\ wait' = wait /\ altp' = altp /\ kill' = kill
      /\ Forget(p)
      /\ \/ state' = state
         \/ \E s \in {"Pbroken", "Prelease"} : state' = [state EXCEPT ![p] = s]
  BY DEF EndQuantum, Return, Fault, Exit, Release, Broken, Leave, chanvars
<1>3. /\ state[p] # "Palt" /\ sel \in [Progs -> Nat \X Nat]
      /\ ~Waits(p)
  BY <1>1, Runner, RunnerOffers DEF MeetInv, MemInv, Waits
<1>4. state'[p] # "Palt" /\ \A x \in Progs \ {p} : state'[x] = state[x] /\ alt'[x] = alt[x]
  BY <1>t, <1>2, <1>3 DEF TypeOK, Forget
<1>5. /\ sel' \in [Progs -> Nat \X Nat] /\ \A x \in Progs \ {p} : sel'[x] = sel[x]
      /\ last' = [last EXCEPT ![p] = NoLast]
  BY <1>2, <1>3 DEF Forget, NoSel
<1>6. MemInv' /\ AltRecorded' /\ AltResult' /\ Sync!Cancel(p)
  <2>1. ~Waits(p)'
    BY <1>2, <1>3 DEF Waits
  <2> QED
    BY <1>2, <1>4, <1>5, <2>1, Cancels
<1> QED
  BY <1>6 DEF Synchronous, Sync!Next

(* The scheduler, the host and most kills touch no waiting. *)
LEMMA StutterMeets ==
  ASSUME MeetInv,
         \/ Dispatch
         \/ UNCHANGED vars
         \/ \E p \in Progs : \/ \E q \in Progs : Spawn(p, q) \/ KillReleased(p, q)
                             \/ Acquire(p) \/ CSleep(p) \/ KillSelf(p)
  PROVE  Synchronous
<1>t. TypeOK
  BY DEF MeetInv, IndInv
<1> DEFINE Quiet == /\ UNCHANGED <<wait, altp, alt, sel, last>>
                    /\ \A x \in Progs : /\ state'[x] = "Palt" <=> state[x] = "Palt"
                                        /\ kill[x] => kill'[x]
<1>1. ASSUME Dispatch \/ UNCHANGED vars PROVE Quiet
  BY <1>1 DEF Dispatch, chanvars, memvars, vars
<1>2. ASSUME NEW p \in Progs, NEW q \in Progs, Spawn(p, q) PROVE Quiet
  <2>1. UNCHANGED <<wait, altp, alt, sel, last, kill>> /\ state[q] = "none"
    BY <1>2 DEF Spawn, NewProg, chanvars, memvars
  <2>2. state' = state \/ state' = [state EXCEPT ![q] = "Pready"]
    BY <1>2 DEF Spawn, NewProg, AddRun
  <2> QED
    BY <1>t, <2>1, <2>2 DEF TypeOK
<1>3. ASSUME NEW p \in Progs, NEW q \in Progs, KillReleased(p, q) PROVE Quiet
  BY <1>t, <1>3 DEF TypeOK, KillReleased, chanvars, memvars
<1>4. ASSUME NEW p \in Progs, Acquire(p) PROVE Quiet
  <2>1. state[p] # "Palt"
    BY <1>4 DEF Acquire, MeetInv, IndInv, HostInv
  <2> QED
    BY <1>t, <1>4, <2>1 DEF TypeOK, Acquire, chanvars, memvars
<1>5. ASSUME NEW p \in Progs, CSleep(p) PROVE Quiet
  BY <1>5 DEF CSleep, chanvars, memvars
<1>6. ASSUME NEW p \in Progs, KillSelf(p) PROVE Quiet
  <2>1. state[p] # "Palt"
    BY <1>6, RunnerOffers DEF KillSelf, Kills, InCall
  <2> QED
    BY <1>t, <1>6, <2>1 DEF TypeOK, KillSelf, chanvars, memvars
<1>7. Quiet
  BY <1>1, <1>2, <1>3, <1>4, <1>5, <1>6
<1> QED
  BY <1>7, Stutters DEF Synchronous

(* A process pulled out of its cblock takes back its offer, if it was made. *)
LEMMA UnqueueMeets ==
  ASSUME MeetInv, NEW p \in Progs, Unqueue(p)
  PROVE  Synchronous
<1>t. TypeOK
  BY DEF MeetInv, IndInv
<1>1. /\ host[p] = "intr"
      /\ wait' = [c \in Chans |-> [d \in Dirs |-> RemoveFirst(wait[c][d], p)]]
      /\ state' = [state EXCEPT ![p] = "Prelease"]
      /\ UNCHANGED <<kill, altp, alt, sel, last>>
  BY DEF Unqueue, memvars
<1>2. state[p] # "Palt"
  BY <1>1 DEF MeetInv, IndInv, HostInv
<1>3. \A x \in Progs : state'[x] = "Palt" <=> state[x] = "Palt"
  BY <1>t, <1>1, <1>2 DEF TypeOK
<1>4. ASSUME NEW c \in Chans, NEW d \in Dirs
      PROVE  \A x : In(x, wait'[c][d]) <=> In(x, wait[c][d]) /\ x # p
  <2>1. wait[c][d] \in Seq(Progs) /\ Distinct(wait[c][d])
    BY <1>t DEF TypeOK, MeetInv, IndInv, WaitInv
  <2>2. wait'[c][d] = RemoveFirst(wait[c][d], p)
    BY <1>1
  <2>3. \A x : In(x, RemoveFirst(wait[c][d], p)) <=> In(x, wait[c][d]) /\ x # p
    BY <2>1, RemoveList
  <2> QED
    BY <2>2, <2>3
<1>p. \A c \in Chans, d \in Dirs : altp[c][d] # p
  BY <1>2, ProgAssumption DEF MeetInv, IndInv, AltInv
<1>5. CASE \E c \in Chans, d \in Dirs : In(p, wait[c][d])
  <2>1. last[p] = NoLast
    BY <1>5 DEF MeetInv, MemInv
  <2>2. last' = [last EXCEPT ![p] = NoLast]
    BY <1>1, <2>1 DEF MeetInv, MemInv
  <2>3. /\ ~Waits(p)'
        /\ \A x \in Progs \ {p}, c \in Chans, d \in Dirs :
             /\ altp'[c][d] = x <=> altp[c][d] = x
             /\ In(x, wait'[c][d]) <=> In(x, wait[c][d])
    BY <1>1, <1>4, <1>p DEF Waits
  <2>4. sel' \in [Progs -> Nat \X Nat] /\ \A x \in Progs \ {p} : sel'[x] = sel[x]
    BY <1>1 DEF MeetInv, MemInv
  <2>5. MemInv' /\ AltRecorded' /\ AltResult' /\ Sync!Cancel(p)
    BY <1>1, <1>2, <1>3, <2>2, <2>3, <2>4, Cancels
  <2> QED
    BY <2>5 DEF Synchronous, Sync!Next
<1>6. CASE ~ \E c \in Chans, d \in Dirs : In(p, wait[c][d])
  <2>1. \A x \in Progs, c \in Chans, d \in Dirs : In(x, wait'[c][d]) <=> In(x, wait[c][d])
    BY <1>4, <1>6
  <2> QED
    BY <1>1, <1>3, <2>1, Stutters DEF Synchronous
<1> QED
  BY <1>5, <1>6

(* The memory of a prog that has exited is given back. *)
LEMMA ExitDoneMeets ==
  ASSUME MeetInv, NEW p \in Progs, ExitDone(p)
  PROVE  Synchronous
<1>t. TypeOK
  BY DEF MeetInv, IndInv
<1>1. /\ host[p] = "exit" /\ wait' = wait /\ altp' = altp
      /\ state' = [state EXCEPT ![p] = "none"] /\ kill' = [kill EXCEPT ![p] = FALSE]
      /\ Forget(p)
  BY DEF ExitDone, Free, chanvars
<1>2. /\ state[p] \in {"Prelease", "Pexiting"} /\ ~InCblock(p)
  BY <1>1 DEF MeetInv, IndInv, HostInv, InCblock
<1>3. ~Waits(p)'
  <2>1. \A c \in Chans, d \in Dirs : ~In(p, wait[c][d])
    BY <1>2 DEF MeetInv, IndInv, WaitInv
  <2>2. \A c \in Chans, d \in Dirs : altp[c][d] # p
    BY <1>2, ProgAssumption DEF MeetInv, IndInv, AltInv
  <2> QED
    BY <1>1, <2>1, <2>2 DEF Waits
<1>4. /\ state'[p] # "Palt"
      /\ \A x \in Progs \ {p} : /\ state'[x] = "Palt" <=> state[x] = "Palt"
                                /\ kill'[x] = kill[x] /\ alt'[x] = alt[x]
  BY <1>t, <1>1 DEF TypeOK, Forget
<1>5. /\ sel' \in [Progs -> Nat \X Nat] /\ \A x \in Progs \ {p} : sel'[x] = sel[x]
      /\ last' = [last EXCEPT ![p] = NoLast]
  BY <1>1 DEF Forget, NoSel, MeetInv, MemInv
<1>6. MemInv' /\ AltRecorded' /\ AltResult' /\ Sync!Cancel(p)
  BY <1>1, <1>3, <1>4, <1>5, Cancels
<1> QED
  BY <1>6 DEF Synchronous, Sync!Next

(* killprog takes q out of everything it waits in, and nobody else. *)
LEMMA DequeuedMeets ==
  ASSUME MeetInv, NEW q \in Progs, host[q] = "none", Dequeued(q)
  PROVE  /\ ~Waits(q)'
         /\ \A x \in Progs \ {q}, c \in Chans, d \in Dirs :
              /\ altp'[c][d] = x <=> altp[c][d] = x
              /\ In(x, wait'[c][d]) <=> In(x, wait[c][d])
<1>1. /\ \A c \in Chans, d \in Dirs, x \in Progs :
           In(x, wait'[c][d]) <=> In(x, wait[c][d]) /\ x # q
      /\ \A c \in Chans, d \in Dirs :
           altp'[c][d] # NoProg => altp'[c][d] = altp[c][d] /\ altp[c][d] # q
  BY DequeuedLists DEF MeetInv
<1>2. ASSUME NEW x \in Progs \ {q}, NEW c \in Chans, NEW d \in Dirs, altp[c][d] = x
      PROVE  altp'[c][d] = x
  <2>1. Unmark(altp, alt[q], q)[c][d] = x
    BY <1>2, UnmarkValue
  <2> QED
    BY <1>2, <2>1 DEF Dequeued
<1>3. ~Waits(q)'
  BY <1>1, ProgAssumption DEF Waits
<1> QED
  BY <1>1, <1>2, <1>3, ProgAssumption

(* A prog killed in a queue takes back what it offered, and nobody else does. *)
LEMMA KillQueuedMeets ==
  ASSUME MeetInv, NEW k \in Progs, NEW q \in Progs, KillQueued(k, q)
  PROVE  Synchronous
<1>t. TypeOK
  BY DEF MeetInv, IndInv
<1>1. /\ Current(k) /\ q # k /\ Dequeued(q)
      /\ state[q] \in {"Palt", "Psend", "Precv", "Pready", "Pbroken"}
      /\ state' = [state EXCEPT ![q] = "none", ![k] = "Prelease"]
      /\ kill' = [kill EXCEPT ![q] = FALSE]
      /\ Forget(q)
  BY DEF KillQueued, Free, Kills, InCall
<1>2. host[q] = "none"
  BY <1>1 DEF MeetInv, IndInv, HostInv
<1>3. state[k] # "Palt"
  BY <1>1, RunnerOffers
<1>4. /\ ~Waits(q)'
      /\ \A x \in Progs \ {q}, c \in Chans, d \in Dirs :
           /\ altp'[c][d] = x <=> altp[c][d] = x
           /\ In(x, wait'[c][d]) <=> In(x, wait[c][d])
  BY <1>1, <1>2, DequeuedMeets
<1>6. /\ state'[q] # "Palt"
      /\ \A x \in Progs \ {q} : /\ state'[x] = "Palt" <=> state[x] = "Palt"
                                /\ kill'[x] = kill[x] /\ alt'[x] = alt[x]
  BY <1>t, <1>1, <1>3 DEF TypeOK, Forget
<1>7. /\ sel' \in [Progs -> Nat \X Nat] /\ \A x \in Progs \ {q} : sel'[x] = sel[x]
      /\ last' = [last EXCEPT ![q] = NoLast]
  BY <1>1 DEF Forget, NoSel, MeetInv, MemInv
<1>8. MemInv' /\ AltRecorded' /\ AltResult' /\ Sync!Cancel(q)
  BY <1>4, <1>6, <1>7, Cancels
<1> QED
  BY <1>8 DEF Synchronous, Sync!Next

(* Nor does anybody else when a stale hook is run in place of freeing q. *)
LEMMA KillHookedMeets ==
  ASSUME MeetInv, NEW k \in Progs, NEW q \in Progs, KillHooked(k, q)
  PROVE  Synchronous
<1>t. TypeOK
  BY DEF MeetInv, IndInv
<1>1. /\ hook[q] /\ Dequeued(q) /\ UNCHANGED <<state, alt, sel, last>>
      /\ state[q] \in {"Palt", "Psend", "Precv", "Pready", "Pbroken"}
      /\ kill' = [kill EXCEPT ![q] = TRUE]
  BY DEF KillHooked, memvars
<1>2. host[q] = "none"
  BY <1>1 DEF MeetInv, IndInv, HostInv
<1>3. kill'[q] /\ \A x \in Progs \ {q} : kill'[x] = kill[x]
  BY <1>t, <1>1 DEF TypeOK
<1>4. /\ ~Waits(q)'
      /\ \A x \in Progs \ {q}, c \in Chans, d \in Dirs :
           /\ altp'[c][d] = x <=> altp[c][d] = x
           /\ In(x, wait'[c][d]) <=> In(x, wait[c][d])
  BY <1>1, <1>2, DequeuedMeets
<1>5. CASE Waits(q)
  <2>1. last' = [last EXCEPT ![q] = NoLast]
    BY <1>1, <1>5 DEF MeetInv, MemInv, Waits
  <2>2. sel' \in [Progs -> Nat \X Nat] /\ \A x \in Progs \ {q} : sel'[x] = sel[x]
    BY <1>1 DEF MeetInv, MemInv
  <2>3. MemInv' /\ AltRecorded' /\ AltResult' /\ Sync!Cancel(q)
    BY <1>1, <1>3, <1>4, <2>1, <2>2, Cancels
  <2> QED
    BY <2>3 DEF Synchronous, Sync!Next
<1>6. CASE ~Waits(q)
  <2>1. \A x \in Progs, c \in Chans, d \in Dirs :
          /\ altp'[c][d] = x <=> altp[c][d] = x
          /\ In(x, wait'[c][d]) <=> In(x, wait[c][d])
    BY <1>4, <1>6 DEF Waits
  <2> QED
    BY <1>1, <1>3, <2>1, Stutters DEF Synchronous
<1> QED
  BY <1>5, <1>6

-----------------------------------------------------------------------------
LEMMA MeetInit == Init => MeetInv /\ Sync!Init
<1> SUFFICES ASSUME Init PROVE MeetInv /\ Sync!Init
  OBVIOUS
<1>1. IndInv
  BY InitInv
<1>2. /\ \A x \in Progs : state[x] # "Palt" /\ sel[x] = NoSel /\ last[x] = NoLast
      /\ \A x \in Progs, c \in Chans, d \in Dirs : ~In(x, wait[c][d]) /\ altp[c][d] # x
      /\ sel \in [Progs -> Nat \X Nat]
      /\ last \in [Progs -> (Progs \union {NoProg}) \X (Chans \union {H}) \X Dirs]
  BY ProgAssumption DEF Init, NoSel, NoLast, Dirs, In
<1>3. MemInv /\ AltRecorded /\ AltResult
  BY <1>2 DEF MemInv, AltRecorded, AltResult
<1>4. \A x \in Progs : Offers(x) = {}
  <2>1. ASSUME NEW x \in Progs, NEW cd \in Chans \X Dirs
        PROVE  ~In(x, wait[cd[1]][cd[2]]) /\ altp[cd[1]][cd[2]] # x
    BY <1>2
  <2> QED
    BY <1>2, <2>1 DEF Offers
<1>5. Sync!Init
  BY <1>4 DEF Init, Sync!Init, Sync!NoLast, NoLast
<1> QED
  BY <1>1, <1>3, <1>5 DEF MeetInv

LEMMA MeetNext == UnsharedAlts /\ MeetInv /\ [Next]_vars => MeetInv' /\ [Sync!Next]_(Sync!vars)
<1> SUFFICES ASSUME UnsharedAlts, MeetInv, [Next]_vars
             PROVE  IndInv' /\ Synchronous
  BY DEF MeetInv, Synchronous
<1>1. IndInv'
  BY NextInv DEF MeetInv
<1>2. ASSUME NEW p \in Progs, Step(p) PROVE Synchronous
  <2>1. ASSUME NEW g \in Globals, ISend(p, g) \/ IRecv(p, g) PROVE Synchronous
    BY <2>1, ISendRecvMeets DEF ISend, IRecv, Dirs
  <2>2. ASSUME NEW a \in AltsOf[p], NEW block \in BOOLEAN, XecAlt(p, a, block)
        PROVE  Synchronous
    BY <2>2, XecAltMeets
  <2>3. ASSUME EndQuantum(p) \/ Return(p) \/ Fault(p) \/ Exit(p) \/ Release(p)
        PROVE  Synchronous
    BY <2>3, ForgetMeets
  <2>4. ASSUME \/ Acquire(p) \/ CSleep(p)
               \/ \E q \in Progs : Spawn(p, q)
        PROVE  Synchronous
    BY <2>4, StutterMeets
  <2>5. CASE ExitDone(p)
    BY <2>5, ExitDoneMeets
  <2>6. CASE Unqueue(p)
    BY <2>6, UnqueueMeets
  <2>7. ASSUME NEW c \in KChans, CSend(p, c) \/ CRecv(p, c) PROVE Synchronous
    <3>1. c \in Chans
      BY ChanAssumption
    <3> QED
      BY <2>7, <3>1, CSendRecvMeets DEF CSend, CRecv, Dirs
  <2>8. ASSUME NEW q \in Progs, Kill(p, q) PROVE Synchronous
    <3>1. CASE KillSelf(p) \/ KillReleased(p, q)
      BY <3>1, StutterMeets
    <3>2. CASE KillQueued(p, q) \/ KillHooked(p, q)
      BY <3>2, KillQueuedMeets, KillHookedMeets
    <3> QED
      BY <2>8, <3>1, <3>2 DEF Kill
  <2> QED
    BY <1>2, <2>1, <2>2, <2>3, <2>4, <2>5, <2>6, <2>7, <2>8 DEF Step
<1>3. CASE Dispatch \/ UNCHANGED vars
  BY <1>1, <1>3, StutterMeets
<1> QED
  BY <1>1, <1>2, <1>3 DEF Next

(***************************************************************************)
(* What altrdy, altdone, isend, irecv and killprog keep true of the lists, *)
(* the alt pointers and what blocked progs have stored, on which the next  *)
(* theorems rest.                                                          *)
(***************************************************************************)
THEOREM Synchronised == ASSUME UnsharedAlts PROVE Spec => []MeetInv
<1>1. MeetInv /\ [Next]_vars => MeetInv'
  BY UnsharedAlts, MeetNext
<1>2. Init => MeetInv
  BY MeetInit
<1> QED
  BY <1>1, <1>2, PTL DEF Spec

(***************************************************************************)
(* While a prog is blocked in an alt, every channel of the alt names it    *)
(* (altrdy, altmark), whatever other progs complete, lose or break their   *)
(* own alts in the mean time, if no two progs wait in alts for the same    *)
(* end of a channel.                                                       *)
(***************************************************************************)
THEOREM AltsRecorded == ASSUME UnsharedAlts PROVE Spec => []AltRecorded
<1>1. MeetInv => AltRecorded
  BY DEF MeetInv
<1> QED
  BY <1>1, Synchronised, UnsharedAlts, PTL

(***************************************************************************)
(* The entry number an alt stores, at once or when the partner comes, is   *)
(* that of the channel and the direction in which the prog communicated.   *)
(***************************************************************************)
THEOREM AltResultCorrect == ASSUME UnsharedAlts PROVE Spec => []AltResult
<1>1. MeetInv => AltResult
  BY DEF MeetInv
<1> QED
  BY <1>1, Synchronised, UnsharedAlts, PTL

(***************************************************************************)
(* Sends, receives and alts in Dis code and in the kernel, kills and       *)
(* interrupts, seen through what each prog offers, are steps of SyncChan.  *)
(***************************************************************************)
THEOREM Refinement == ASSUME UnsharedAlts PROVE Spec => ImplementsSyncChan
<1>1. Init => Sync!Init
  BY MeetInit
<1>2. MeetInv /\ [Next]_vars => [Sync!Next]_(Sync!vars)
  BY UnsharedAlts, MeetNext
<1> QED
  BY <1>1, <1>2, Synchronised, UnsharedAlts, PTL DEF Spec, ImplementsSyncChan, Sync!Spec

-----------------------------------------------------------------------------
(* What SyncChan promises of the offers, and so the channels of Dis. *)

LEMMA SyncType == Sync!Spec => []Sync!TypeOK
<1>1. Sync!Init => Sync!TypeOK
  BY DEF Sync!Init, Sync!TypeOK, Sync!NoLast, Sync!Dirs
<1>2. Sync!TypeOK /\ [Sync!Next]_(Sync!vars) => Sync!TypeOK'
  <2> SUFFICES ASSUME Sync!TypeOK, [Sync!Next]_(Sync!vars) PROVE Sync!TypeOK'
    OBVIOUS
  <2>0. \A d \in Sync!Dirs : Sync!Dual(d) \in Sync!Dirs
    BY DEF Sync!Dirs, Sync!Dual
  <2>1. ASSUME NEW p \in Progs, Sync!Offer(p)
        PROVE  Sync!TypeOK'
    BY <2>1 DEF Sync!TypeOK, Sync!Offer, Sync!NoLast, Sync!Dirs
  <2>2. ASSUME NEW p \in Progs, NEW q \in Progs, NEW c \in Chans, NEW d \in Sync!Dirs,
               Sync!Meet(p, q, c, d)
        PROVE  Sync!TypeOK'
    BY <2>0, <2>2 DEF Sync!TypeOK, Sync!Meet
  <2>3. ASSUME NEW p \in Progs, Sync!Cancel(p) PROVE Sync!TypeOK'
    BY <2>3 DEF Sync!TypeOK, Sync!Cancel, Sync!NoLast, Sync!Dirs
  <2>4. CASE UNCHANGED Sync!vars
    BY <2>4 DEF Sync!TypeOK, Sync!vars
  <2> QED
    BY <2>1, <2>2, <2>3, <2>4 DEF Sync!Next
<1> QED
  BY <1>1, <1>2, PTL DEF Sync!Spec

(***************************************************************************)
(* In SyncChan a prog blocks only when no complementary offer is open, and *)
(* meeting, being killed or being interrupted only closes offers: no two   *)
(* progs are left waiting for each other.                                  *)
(***************************************************************************)
THEOREM Meetings == Sync!Spec => []Sync!NoMissedMeeting
<1>1. Sync!Init => Sync!NoMissedMeeting
  BY DEF Sync!Init, Sync!NoMissedMeeting
<1>2. Sync!TypeOK /\ Sync!NoMissedMeeting /\ [Sync!Next]_(Sync!vars) => Sync!NoMissedMeeting'
  <2> SUFFICES ASSUME Sync!TypeOK, Sync!NoMissedMeeting, [Sync!Next]_(Sync!vars),
                      NEW p \in Progs, NEW q \in Progs,
                      NEW c \in Chans, NEW d \in Sync!Dirs,
                      <<c, d>> \in Offered'[p]
               PROVE  <<c, Sync!Dual(d)>> \notin Offered'[q]
    BY DEF Sync!NoMissedMeeting, Offered
  <2>0. ASSUME \A s \in Progs : Offered'[s] \subseteq Offered[s]
        PROVE  <<c, Sync!Dual(d)>> \notin Offered'[q]
    BY <2>0 DEF Sync!NoMissedMeeting, Offered
  <2>t. Offered \in [Progs -> SUBSET (Chans \X Sync!Dirs)]
    BY DEF Sync!TypeOK, Offered
  <2>1. ASSUME NEW r \in Progs, Sync!Offer(r)
        PROVE  <<c, Sync!Dual(d)>> \notin Offered'[q]
    <3>1. PICK O \in SUBSET (Chans \X Sync!Dirs) :
            Offered' = [Offered EXCEPT ![r] = O] /\ Sync!Unmatched(O)
      BY <2>1 DEF Sync!Offer, Offered
    <3>2. \A s \in Progs : Offered'[s] = IF s = r THEN O ELSE Offered[s]
      BY <2>t, <3>1
    <3>3. \A s \in Progs, b \in Chans, e \in Sync!Dirs :
            <<b, e>> \in O => <<b, Sync!Dual(e)>> \notin Offered[s] \union O
      BY <3>1 DEF Sync!Unmatched, Offered
    <3>4. Sync!Dual(d) \in Sync!Dirs /\ Sync!Dual(Sync!Dual(d)) = d
      BY DEF Sync!Dual, Sync!Dirs
    <3>5. CASE p # r /\ q # r
      BY <3>2, <3>5 DEF Sync!NoMissedMeeting, Offered
    <3>6. CASE p = r
      BY <3>2, <3>3, <3>6
    <3>7. CASE p # r /\ q = r
      BY <3>2, <3>3, <3>4, <3>7
    <3> QED
      BY <3>5, <3>6, <3>7
  <2>2. ASSUME NEW r \in Progs, NEW s \in Progs, NEW b \in Chans, NEW e \in Sync!Dirs,
               Sync!Meet(r, s, b, e)
        PROVE  <<c, Sync!Dual(d)>> \notin Offered'[q]
    <3>1. Offered' = [Offered EXCEPT ![s] = {}]
      BY <2>2 DEF Sync!Meet, Offered
    <3> QED
      BY <2>t, <2>0, <3>1
  <2>3. ASSUME NEW r \in Progs, Sync!Cancel(r)
        PROVE  <<c, Sync!Dual(d)>> \notin Offered'[q]
    <3>1. Offered' = [Offered EXCEPT ![r] = {}]
      BY <2>3 DEF Sync!Cancel, Offered
    <3> QED
      BY <2>t, <2>0, <3>1
  <2>4. CASE UNCHANGED Sync!vars
    <3>1. Offered' = Offered
      BY <2>4 DEF Sync!vars, Offered
    <3> QED
      BY <2>0, <3>1
  <2> QED
    BY <2>1, <2>2, <2>3, <2>4 DEF Sync!Next
<1> QED
  BY <1>1, <1>2, SyncType, PTL DEF Sync!Spec

(***************************************************************************)
(* While a prog is blocked sending on a channel, in an alt or not, no      *)
(* other is blocked receiving on it: what isend, irecv, xecalt and ccom    *)
(* look at before they block is enough.                                    *)
(***************************************************************************)
THEOREM NobodyMissed == ASSUME UnsharedAlts PROVE Spec => []Sync!NoMissedMeeting
  BY Refinement, Meetings, UnsharedAlts, PTL DEF ImplementsSyncChan
=============================================================================
