-------------------------- MODULE RendezvousProofs --------------------------
(***************************************************************************)
(* Proofs about the three modules of processes that wait in a rendezvous,  *)
(* for every set of processes: RWLock (names that start with RW or Lock),  *)
(* SleepWakeup (Sleep...) and VMSched.                                     *)
(***************************************************************************)
EXTENDS RWLock, SleepWakeup, VMSched, FiniteSetTheorems, TLAPS

-----------------------------------------------------------------------------
(* Queues. *)

(* A process joins a queue at the back. *)
LEMMA AtBack ==
  ASSUME NEW S, NEW s \in Seq(S), NEW p \in S, Distinct(s), p \notin Members(s)
  PROVE  /\ Append(s, p) \in Seq(S)
         /\ Members(Append(s, p)) = Members(s) \union {p}
         /\ Distinct(Append(s, p))
<1>1. /\ Append(s, p) \in Seq(S) /\ DOMAIN Append(s, p) = 1..(Len(s) + 1)
      /\ Append(s, p)[Len(s) + 1] = p /\ \A i \in 1..Len(s) : Append(s, p)[i] = s[i]
      /\ DOMAIN s = 1..Len(s) /\ Len(s) \in Nat
  OBVIOUS
<1>2. 1..(Len(s) + 1) = 1..Len(s) \union {Len(s) + 1}
  BY <1>1
<1>3. Members(Append(s, p)) = Members(s) \union {p}
  BY <1>1, <1>2 DEF Members
<1>4. Distinct(Append(s, p))
  BY <1>1, <1>2 DEF Distinct, Members
<1> QED
  BY <1>1, <1>3, <1>4

(* The head of a queue leaves it. *)
LEMMA OffHead ==
  ASSUME NEW S, NEW s \in Seq(S), s # <<>>, Distinct(s)
  PROVE  /\ Head(s) \in S /\ Tail(s) \in Seq(S)
         /\ Head(s) \in Members(s)
         /\ Members(Tail(s)) = Members(s) \ {Head(s)}
         /\ Distinct(Tail(s))
<1>1. /\ Head(s) \in S /\ Tail(s) \in Seq(S) /\ Head(s) = s[1]
      /\ DOMAIN s = 1..Len(s) /\ DOMAIN Tail(s) = 1..(Len(s) - 1)
      /\ \A i \in 1..(Len(s) - 1) : Tail(s)[i] = s[i + 1]
      /\ Len(s) \in Nat \ {0}
  OBVIOUS
<1>2. \A i \in 1..Len(s) : i = 1 \/ i - 1 \in 1..(Len(s) - 1)
  BY <1>1
<1>3. \A i \in 1..(Len(s) - 1) : i + 1 \in 1..Len(s) /\ i + 1 # 1
  BY <1>1
<1>4. Head(s) \in Members(s)
  BY <1>1 DEF Members
<1>5. Members(Tail(s)) = Members(s) \ {Head(s)}
  <2>1. \A v \in Members(Tail(s)) : v \in Members(s) \ {Head(s)}
    BY <1>1, <1>3 DEF Members, Distinct
  <2>2. \A i \in 1..Len(s) : i # 1 => s[i] = Tail(s)[i - 1]
    BY <1>1
  <2>3. \A v \in Members(s) \ {Head(s)} : v \in Members(Tail(s))
    BY <1>1, <1>2, <2>2 DEF Members
  <2> QED
    BY <2>1, <2>3
<1>6. Distinct(Tail(s))
  BY <1>1, <1>3 DEF Distinct
<1> QED
  BY <1>1, <1>4, <1>5, <1>6

(* qlock that has to queue, and qunlock. *)
LEMMA TakeForm ==
  ASSUME NEW S, NEW q \in QLockType(S), NEW p \in S,
         Distinct(q.queue), p \notin Members(q.queue)
  PROVE  /\ QLockTake(q, p) \in QLockType(S) /\ QLockTake(q, p).locked
         /\ Distinct(QLockTake(q, p).queue)
         /\ Members(QLockTake(q, p).queue) =
              Members(q.queue) \union IF q.locked THEN {p} ELSE {}
<1>1. CASE q.locked
  <2>1. QLockTake(q, p) = [q EXCEPT !.queue = Append(@, p)] /\ q.queue \in Seq(S)
    BY <1>1 DEF QLockTake, QLockType
  <2>2. /\ Append(q.queue, p) \in Seq(S) /\ Distinct(Append(q.queue, p))
        /\ Members(Append(q.queue, p)) = Members(q.queue) \union {p}
    BY <2>1, AtBack
  <2> QED
    BY <1>1, <2>1, <2>2 DEF QLockType
<1>2. CASE ~q.locked
  BY <1>2 DEF QLockType, QLockTake
<1> QED
  BY <1>1, <1>2

LEMMA PassForm ==
  ASSUME NEW S, NEW q \in QLockType(S), Distinct(q.queue)
  PROVE  /\ QLockPass(q) \in QLockType(S) /\ Distinct(QLockPass(q).queue)
         /\ q.queue = <<>> => ~QLockPass(q).locked /\ QLockPass(q).queue = <<>>
         /\ q.queue # <<>> =>
              /\ QLockPass(q).locked = q.locked
              /\ Head(q.queue) \in S /\ Head(q.queue) \in Members(q.queue)
              /\ Members(QLockPass(q).queue) = Members(q.queue) \ {Head(q.queue)}
<1>1. CASE q.queue = <<>>
  BY <1>1 DEF QLockType, QLockPass
<1>2. CASE q.queue # <<>>
  BY <1>2, OffHead DEF QLockType, QLockPass
<1> QED
  BY <1>1, <1>2

LEMMA MembersType ==
  ASSUME NEW S, NEW q \in QLockType(S)
  PROVE  Members(q.queue) \subseteq S /\ (q.queue = <<>> => Members(q.queue) = {})
BY DEF QLockType, Members

(* A process joins a queue at the front. *)
LEMMA AtFront ==
  ASSUME NEW S, NEW s \in Seq(S), NEW p \in S, Distinct(s), p \notin Members(s)
  PROVE  /\ <<p>> \o s \in Seq(S)
         /\ Members(<<p>> \o s) = Members(s) \union {p}
         /\ Distinct(<<p>> \o s)
<1> DEFINE n == <<p>> \o s
<1>1. /\ n \in Seq(S) /\ n[1] = p /\ Len(s) \in Nat
      /\ DOMAIN n = 1..(Len(s) + 1) /\ DOMAIN s = 1..Len(s)
      /\ \A i \in 1..Len(s) : n[i + 1] = s[i]
  OBVIOUS
<1> HIDE DEF n
<1>2. \A i \in 1..(Len(s) + 1) : i = 1 \/ (i - 1 \in 1..Len(s) /\ n[i] = s[i - 1])
  BY <1>1
<1>3. \A i \in 1..Len(s) : i + 1 \in 1..(Len(s) + 1)
  BY <1>1
<1>4. Members(n) = Members(s) \union {p}
  <2>1. \A i \in 1..(Len(s) + 1) : n[i] \in Members(s) \union {p}
    BY <1>1, <1>2 DEF Members
  <2>2. p \in Members(n) /\ Members(n) \subseteq Members(s) \union {p}
    <3>1. 1 \in DOMAIN n
      BY <1>1
    <3> QED
      BY <1>1, <2>1, <3>1 DEF Members
  <2>3. Members(s) \subseteq Members(n)
    BY <1>1, <1>3 DEF Members
  <2> QED
    BY <2>2, <2>3
<1>5. Distinct(n)
  <2> SUFFICES ASSUME NEW i \in 1..(Len(s) + 1), NEW j \in 1..(Len(s) + 1), n[i] = n[j]
               PROVE  i = j
    BY <1>1 DEF Distinct
  <2>1. \A m \in 1..Len(s) : s[m] # p
    BY <1>1 DEF Members
  <2>2. CASE i = 1 \/ j = 1
    <3>1. \A m \in 1..(Len(s) + 1) : n[m] = p => m = 1
      BY <1>2, <2>1
    <3> QED
      BY <1>1, <2>2, <3>1
  <2>3. CASE i # 1 /\ j # 1
    <3>1. i - 1 \in DOMAIN s /\ j - 1 \in DOMAIN s /\ s[i - 1] = s[j - 1]
      BY <1>1, <1>2, <2>3
    <3>2. i - 1 = j - 1
      BY <3>1, Zenon DEF Distinct
    <3> QED
      BY <1>1, <3>2
  <2> QED
    BY <2>2, <2>3
<1> QED
  BY <1>1, <1>4, <1>5 DEF n

-----------------------------------------------------------------------------
(* RWLock. *)

(* Each step keeps the invariant. *)
LEMMA EnterXKeeps ==
  ASSUME RWIndInv, NEW p \in Procs,
         NEW wait \in {"rxwait", "wxwait"}, NEW got \in {"rx", "wx"},
         (wait = "rxwait") <=> (got = "rx"), EnterX(p, wait, got)
  PROVE  RWIndInv'
<1> USE NoProcAssumption DEF RWIndInv
<1>a. p \notin Members(x.queue)
  BY DEF LockQueues, EnterX, Move, Running, AwaitsX
<1>b. /\ x' \in QLockType(Procs) /\ x'.locked /\ Distinct(x'.queue)
      /\ Members(x'.queue) = Members(x.queue) \union IF x.locked THEN {p} ELSE {}
  BY <1>a, TakeForm DEF EnterX, RWTypeOK, LockQueues
<1>s. Readers' = Readers /\ readers' = readers
  BY DEF Readers, RWTypeOK, Move, EnterX
<1>1. RWTypeOK'
  BY <1>a, <1>b, MembersType DEF RWTypeOK, RendezvousTypeOK, RWLabels, EnterX, Move, Running
<1>2. LockWaits'
  BY <1>a, <1>b, MembersType
     DEF RWTypeOK, RendezvousTypeOK, LockWaits, LockWaitOK, AwaitsX, AwaitsK, EnterX, Move,
         Running
<1>3. LockQueues'
  BY <1>a, <1>b, MembersType
     DEF RWTypeOK, RendezvousTypeOK, LockQueues, AwaitsX, AwaitsK, LockWaits, LockWaitOK,
         EnterX, Move, Running
<1>4. XInv'
  <2>1. \A q \in Procs \ {p} : HasX(q)' <=> HasX(q)
    BY DEF RWTypeOK, HasX, AwaitsX, Passed, EnterX, Move
  <2>2. ~HasX(p) /\ ht[p] = NoProc
    BY DEF LockWaits, LockWaitOK, AwaitsX, AwaitsK, HasX, Passed, EnterX, Move, Running
  <2>3. HasX(p)' <=> ~x.locked
    BY <2>2 DEF RWTypeOK, HasX, AwaitsX, Passed, EnterX, Move
  <2>4. CASE x.locked
    BY <2>1, <2>2, <2>3, <2>4, <1>b DEF XInv
  <2>5. CASE ~x.locked
    BY <2>1, <2>2, <2>3, <2>5, <1>b DEF XInv
  <2> QED
    BY <2>4, <2>5
<1>5. KInv'
  BY <1>a, <1>b, MembersType
     DEF RWTypeOK, RendezvousTypeOK, KInv, HasK, AwaitsK, Passed, LockWaits, LockWaitOK,
         LockQueues, EnterX, Move, Running
<1>6. ReadersInv'
  BY <1>s DEF ReadersInv
<1> QED
  BY <1>1, <1>2, <1>3, <1>4, <1>5, <1>6

LEMMA AwaitKeeps ==
  ASSUME RWIndInv, NEW p \in Procs, Await(p)
  PROVE  RWIndInv'
<1> USE NoProcAssumption DEF RWIndInv
<1>s. Readers' = Readers /\ readers' = readers
  BY DEF Readers, RWTypeOK, Move, Await
<1>1. RWTypeOK'
  BY MembersType DEF RWTypeOK, RendezvousTypeOK, RWLabels, Await, Move, Running, Meet, Met
<1>2. LockWaits'
  BY MembersType
     DEF RWTypeOK, RendezvousTypeOK, LockWaits, LockWaitOK, AwaitsX, AwaitsK, Await, Move,
         Running, Meet, Met
<1>3. LockQueues'
  BY MembersType
     DEF RWTypeOK, RendezvousTypeOK, LockQueues, AwaitsX, AwaitsK, LockWaits, LockWaitOK, Await,
         Move, Running, Meet, Met
<1>4. XInv'
  BY MembersType
     DEF RWTypeOK, RendezvousTypeOK, XInv, HasX, AwaitsX, Passed, LockWaits, LockWaitOK,
         LockQueues, Await, Move, Running, Meet, Met
<1>5. KInv'
  BY MembersType
     DEF RWTypeOK, RendezvousTypeOK, KInv, HasK, AwaitsK, Passed, LockWaits, LockWaitOK,
         LockQueues, Await, Move, Running, Meet, Met
<1>6. ReadersInv'
  BY <1>s DEF ReadersInv
<1> QED
  BY <1>1, <1>2, <1>3, <1>4, <1>5, <1>6

LEMMA RLockCountKeeps ==
  ASSUME RWIndInv, NEW p \in Procs, RLockCount(p)
  PROVE  RWIndInv'
<1> USE NoProcAssumption DEF RWIndInv
<1>a. /\ k' \in QLockType(Procs) /\ k'.queue = k.queue /\ (k' = k \/ k'.locked)
      /\ (k.locked => k'.locked)
  BY DEF RLockCount, QLockTry, RWTypeOK, QLockType
<1>s. Readers' = Readers \union {p} /\ p \notin Readers
  BY DEF Readers, RWTypeOK, Move, RLockCount
<1>1. RWTypeOK'
  BY <1>a DEF RWTypeOK, RendezvousTypeOK, RWLabels, RLockCount, Move, Running
<1>2. LockWaits'
  BY <1>a, MembersType
     DEF RWTypeOK, RendezvousTypeOK, LockWaits, LockWaitOK, AwaitsX, AwaitsK, RLockCount,
         Move, Running
<1>3. LockQueues'
  BY <1>a, MembersType
     DEF RWTypeOK, RendezvousTypeOK, LockQueues, AwaitsX, AwaitsK, LockWaits, LockWaitOK,
         RLockCount, Move, Running
<1>4. XInv'
  BY <1>a, MembersType
     DEF RWTypeOK, RendezvousTypeOK, XInv, HasX, AwaitsX, Passed, LockWaits, LockWaitOK,
         LockQueues, RLockCount, Move, Running
<1>5. KInv'
  BY <1>a, MembersType
     DEF RWTypeOK, RendezvousTypeOK, KInv, HasK, AwaitsK, Passed, LockWaits, LockWaitOK,
         LockQueues, RLockCount, Move, Running
<1>6. ReadersInv'
  BY <1>s, FS_AddElement DEF ReadersInv, RLockCount
<1> QED
  BY <1>1, <1>2, <1>3, <1>4, <1>5, <1>6

LEMMA RLockDoneKeeps ==
  ASSUME RWIndInv, NEW p \in Procs, RLockDone(p)
  PROVE  RWIndInv'
<1> USE NoProcAssumption DEF RWIndInv
<1>a. /\ x' \in QLockType(Procs) /\ Distinct(x'.queue)
      /\ x.queue = <<>> => ~x'.locked /\ x'.queue = <<>>
      /\ x.queue # <<>> =>
           /\ x'.locked = x.locked
           /\ Head(x.queue) \in Procs /\ Head(x.queue) \in Members(x.queue)
           /\ Members(x'.queue) = Members(x.queue) \ {Head(x.queue)}
  BY PassForm DEF RLockDone, RWTypeOK, LockQueues
<1>m. x.queue # <<>> =>
        /\ Head(x.queue) # p /\ AwaitsX(Head(x.queue))
        /\ ht[Head(x.queue)] \in {Head(x.queue), NoProc}
        /\ ht' = [ht EXCEPT ![Head(x.queue)] = IF @ = NoProc THEN p ELSE NoProc]
  BY <1>a
     DEF RLockDone, Move, Running, WakeHead, Meet, Met, LockQueues, LockWaits, LockWaitOK,
         AwaitsX, AwaitsK
<1>e. x.queue = <<>> => ht' = ht
  BY DEF RLockDone, WakeHead
<1>s. Readers' = Readers /\ readers' = readers
  BY DEF Readers, RWTypeOK, Move, RLockDone
<1>1. RWTypeOK'
  BY <1>a, <1>m, <1>e, MembersType
     DEF RWTypeOK, RendezvousTypeOK, RWLabels, RLockDone, Move, Running
<1>2. LockWaits'
  <2>1. CASE x.queue # <<>>
    <3>1. \A t, u \in Procs : ht'[t] = ht'[u] => t = u \/ ht'[t] = NoProc
      BY <2>1, <1>a, <1>m
         DEF RWTypeOK, RendezvousTypeOK, LockWaits, LockWaitOK, AwaitsX, AwaitsK,
             RLockDone, Move, Running
    <3>2. \A t \in Procs \ {Head(x.queue)} : LockWaitOK(t)'
      BY <2>1, <1>a, <1>m, MembersType
         DEF RWTypeOK, RendezvousTypeOK, LockWaits, LockWaitOK, AwaitsX, AwaitsK,
             RLockDone, Move, Running
    <3>3. \A t \in Procs : t = Head(x.queue) => LockWaitOK(t)'
      <4> SUFFICES ASSUME NEW t \in Procs, t = Head(x.queue)
                   PROVE  LockWaitOK(t)'
        OBVIOUS
      <4>1. CASE ht[t] = t
        BY <4>1, <2>1, <1>m DEF RWTypeOK, RendezvousTypeOK, LockWaitOK
      <4>2. CASE ht[t] = NoProc
        BY <4>2, <2>1, <1>a, <1>m, MembersType
           DEF RWTypeOK, RendezvousTypeOK, LockWaits, LockWaitOK, AwaitsX, AwaitsK,
               RLockDone, Move, Running
      <4> QED
        BY <4>1, <4>2, <2>1, <1>m
    <3> QED
      BY <3>1, <3>2, <3>3 DEF LockWaits
  <2>2. CASE ~(x.queue # <<>>)
    BY <2>2, <1>a, <1>e, MembersType
       DEF RWTypeOK, RendezvousTypeOK, LockWaits, LockWaitOK, AwaitsX, AwaitsK, RLockDone,
           Move, Running
  <2> QED
    BY <2>1, <2>2
<1>3. LockQueues'
  BY <1>a, <1>m, <1>e, MembersType
     DEF RWTypeOK, RendezvousTypeOK, LockQueues, AwaitsX, AwaitsK, LockWaits, LockWaitOK,
         RLockDone, Move, Running
<1>4. XInv'
  BY <1>a, <1>m, <1>e, MembersType
     DEF RWTypeOK, RendezvousTypeOK, XInv, HasX, AwaitsX, Passed, LockWaits, LockWaitOK,
         LockQueues, RLockDone, Move, Running
<1>5. KInv'
  BY <1>a, <1>m, <1>e, MembersType
     DEF RWTypeOK, RendezvousTypeOK, KInv, HasK, AwaitsK, Passed, LockWaits, LockWaitOK,
         LockQueues, RLockDone, Move, Running
<1>6. ReadersInv'
  BY <1>s DEF ReadersInv
<1> QED
  BY <1>1, <1>2, <1>3, <1>4, <1>5, <1>6

LEMMA RUnlockKeeps ==
  ASSUME RWIndInv, NEW p \in Procs, RUnlock(p)
  PROVE  RWIndInv'
<1> USE NoProcAssumption DEF RWIndInv
<1>r. p \in Readers /\ readers \in Nat \ {0}
  BY FS_EmptySet DEF RUnlock, Move, Readers, ReadersInv, RWTypeOK
<1>s. Readers' = Readers \ {p} /\ readers' = readers - 1
  BY DEF Readers, RWTypeOK, Move, RUnlock
<1>a. readers = 1 =>
        /\ k' \in QLockType(Procs) /\ Distinct(k'.queue)
        /\ k.queue = <<>> => ~k'.locked /\ k'.queue = <<>>
        /\ k.queue # <<>> =>
             /\ k'.locked = k.locked
             /\ Head(k.queue) \in Procs /\ Head(k.queue) \in Members(k.queue)
             /\ Members(k'.queue) = Members(k.queue) \ {Head(k.queue)}
  BY PassForm DEF RUnlock, RWTypeOK, LockQueues
<1>m. readers = 1 /\ k.queue # <<>> =>
        /\ Head(k.queue) # p /\ AwaitsK(Head(k.queue))
        /\ ht[Head(k.queue)] \in {Head(k.queue), NoProc}
        /\ ht' = [ht EXCEPT ![Head(k.queue)] = IF @ = NoProc THEN p ELSE NoProc]
  BY <1>a
     DEF RUnlock, Move, Running, WakeHead, Meet, Met, LockQueues, LockWaits, LockWaitOK,
         AwaitsX, AwaitsK
<1>e. readers # 1 \/ k.queue = <<>> => ht' = ht
  BY DEF RUnlock, WakeHead
<1>1. RWTypeOK'
  BY <1>r, <1>a, <1>m, <1>e, MembersType
     DEF RWTypeOK, RendezvousTypeOK, RWLabels, RUnlock, Move, Running
<1>2. LockWaits'
  <2>1. CASE readers = 1 /\ k.queue # <<>>
    <3>1. \A t, u \in Procs : ht'[t] = ht'[u] => t = u \/ ht'[t] = NoProc
      BY <2>1, <1>a, <1>m
         DEF RWTypeOK, RendezvousTypeOK, LockWaits, LockWaitOK, AwaitsX, AwaitsK, RUnlock,
             Move, Running
    <3>2. \A t \in Procs \ {Head(k.queue)} : LockWaitOK(t)'
      BY <2>1, <1>a, <1>m, MembersType
         DEF RWTypeOK, RendezvousTypeOK, LockWaits, LockWaitOK, AwaitsX, AwaitsK, RUnlock,
             Move, Running
    <3>3. \A t \in Procs : t = Head(k.queue) => LockWaitOK(t)'
      <4> SUFFICES ASSUME NEW t \in Procs, t = Head(k.queue)
                   PROVE  LockWaitOK(t)'
        OBVIOUS
      <4>1. CASE ht[t] = t
        BY <4>1, <2>1, <1>m DEF RWTypeOK, RendezvousTypeOK, LockWaitOK
      <4>2. CASE ht[t] = NoProc
        BY <4>2, <2>1, <1>a, <1>m, MembersType
           DEF RWTypeOK, RendezvousTypeOK, LockWaits, LockWaitOK, AwaitsX, AwaitsK,
               RUnlock, Move, Running
      <4> QED
        BY <4>1, <4>2, <2>1, <1>m
    <3> QED
      BY <3>1, <3>2, <3>3 DEF LockWaits
  <2>2. CASE ~(readers = 1 /\ k.queue # <<>>)
    BY <2>2, <1>a, <1>e, MembersType
       DEF RWTypeOK, RendezvousTypeOK, LockWaits, LockWaitOK, AwaitsX, AwaitsK, RUnlock,
           Move, Running
  <2> QED
    BY <2>1, <2>2
<1>3. LockQueues'
  BY <1>r, <1>a, <1>m, <1>e, MembersType
     DEF RWTypeOK, RendezvousTypeOK, LockQueues, AwaitsX, AwaitsK, LockWaits, LockWaitOK,
         RUnlock, Move, Running
<1>4. XInv'
  <2>1. \A q \in Procs : HasX(q)' <=> HasX(q)
    BY <1>r, <1>a, <1>m, <1>e
       DEF RWTypeOK, RendezvousTypeOK, HasX, AwaitsX, AwaitsK, Passed, LockWaits,
           LockWaitOK, RUnlock, Move, Running
  <2>2. x' = x
    BY DEF RUnlock
  <2> QED
    BY <2>1, <2>2 DEF XInv
<1>5. KInv'
  BY <1>r, <1>a, <1>m, <1>e, MembersType
     DEF RWTypeOK, RendezvousTypeOK, KInv, HasK, AwaitsK, Passed, LockWaits, LockWaitOK,
         LockQueues, RUnlock, Move, Running
<1>6. ReadersInv'
  BY <1>r, <1>s, FS_RemoveElement DEF ReadersInv
<1> QED
  BY <1>1, <1>2, <1>3, <1>4, <1>5, <1>6

LEMMA RUnlockDoneKeeps ==
  ASSUME RWIndInv, NEW p \in Procs, RUnlockDone(p)
  PROVE  RWIndInv'
<1> USE NoProcAssumption DEF RWIndInv
<1>s. Readers' = Readers /\ readers' = readers
  BY DEF Readers, RWTypeOK, Move, RUnlockDone
<1>1. RWTypeOK'
  BY MembersType DEF RWTypeOK, RendezvousTypeOK, RWLabels, RUnlockDone, Move, Running
<1>2. LockWaits'
  BY MembersType
     DEF RWTypeOK, RendezvousTypeOK, LockWaits, LockWaitOK, AwaitsX, AwaitsK, RUnlockDone,
         Move, Running
<1>3. LockQueues'
  BY MembersType
     DEF RWTypeOK, RendezvousTypeOK, LockQueues, AwaitsX, AwaitsK, LockWaits, LockWaitOK,
         RUnlockDone, Move, Running
<1>4. XInv'
  BY MembersType
     DEF RWTypeOK, RendezvousTypeOK, XInv, HasX, AwaitsX, Passed, LockWaits, LockWaitOK,
         LockQueues, RUnlockDone, Move, Running
<1>5. KInv'
  BY MembersType
     DEF RWTypeOK, RendezvousTypeOK, KInv, HasK, AwaitsK, Passed, LockWaits, LockWaitOK,
         LockQueues, RUnlockDone, Move, Running
<1>6. ReadersInv'
  BY <1>s DEF ReadersInv
<1> QED
  BY <1>1, <1>2, <1>3, <1>4, <1>5, <1>6

LEMMA WLockKKeeps ==
  ASSUME RWIndInv, NEW p \in Procs, WLockK(p)
  PROVE  RWIndInv'
<1> USE NoProcAssumption DEF RWIndInv
<1>a. p \notin Members(k.queue)
  BY DEF LockQueues, WLockK, Move, Running, AwaitsK
<1>b. /\ k' \in QLockType(Procs) /\ k'.locked /\ Distinct(k'.queue)
      /\ Members(k'.queue) = Members(k.queue) \union IF k.locked THEN {p} ELSE {}
  BY <1>a, TakeForm DEF WLockK, RWTypeOK, LockQueues
<1>s. Readers' = Readers /\ readers' = readers
  BY DEF Readers, RWTypeOK, Move, WLockK
<1>1. RWTypeOK'
  BY <1>a, <1>b, MembersType DEF RWTypeOK, RendezvousTypeOK, RWLabels, WLockK, Move, Running
<1>2. LockWaits'
  BY <1>a, <1>b, MembersType
     DEF RWTypeOK, RendezvousTypeOK, LockWaits, LockWaitOK, AwaitsX, AwaitsK, WLockK, Move,
         Running
<1>3. LockQueues'
  BY <1>a, <1>b, MembersType
     DEF RWTypeOK, RendezvousTypeOK, LockQueues, AwaitsX, AwaitsK, LockWaits, LockWaitOK,
         WLockK, Move, Running
<1>4. XInv'
  BY <1>a, <1>b, MembersType
     DEF RWTypeOK, RendezvousTypeOK, XInv, HasX, AwaitsX, Passed, LockWaits, LockWaitOK,
         LockQueues, WLockK, Move, Running
<1>5. KInv'
  BY <1>a, <1>b, MembersType
     DEF RWTypeOK, RendezvousTypeOK, KInv, HasK, AwaitsK, Passed, LockWaits, LockWaitOK,
         LockQueues, WLockK, Move, Running
<1>6. ReadersInv'
  BY <1>s DEF ReadersInv
<1> QED
  BY <1>1, <1>2, <1>3, <1>4, <1>5, <1>6

LEMMA WUnlockKeeps ==
  ASSUME RWIndInv, NEW p \in Procs, WUnlock(p)
  PROVE  RWIndInv'
<1> USE NoProcAssumption DEF RWIndInv
<1>a. /\ x' \in QLockType(Procs) /\ Distinct(x'.queue)
      /\ x.queue = <<>> => ~x'.locked /\ x'.queue = <<>>
      /\ x.queue # <<>> =>
           /\ x'.locked = x.locked
           /\ Head(x.queue) \in Procs /\ Head(x.queue) \in Members(x.queue)
           /\ Members(x'.queue) = Members(x.queue) \ {Head(x.queue)}
  BY PassForm DEF WUnlock, RWTypeOK, LockQueues
<1>m. x.queue # <<>> =>
        /\ Head(x.queue) # p /\ AwaitsX(Head(x.queue))
        /\ ht[Head(x.queue)] \in {Head(x.queue), NoProc}
        /\ ht' = [ht EXCEPT ![Head(x.queue)] = IF @ = NoProc THEN p ELSE NoProc]
  BY <1>a
     DEF WUnlock, Move, Running, WakeHead, Meet, Met, LockQueues, LockWaits, LockWaitOK,
         AwaitsX, AwaitsK
<1>e. x.queue = <<>> => ht' = ht
  BY DEF WUnlock, WakeHead
<1>s. Readers' = Readers /\ readers' = readers
  BY DEF Readers, RWTypeOK, Move, WUnlock
<1>1. RWTypeOK'
  BY <1>a, <1>m, <1>e, MembersType
     DEF RWTypeOK, RendezvousTypeOK, RWLabels, WUnlock, Move, Running
<1>2. LockWaits'
  <2>1. CASE x.queue # <<>>
    <3>1. \A t, u \in Procs : ht'[t] = ht'[u] => t = u \/ ht'[t] = NoProc
      BY <2>1, <1>a, <1>m
         DEF RWTypeOK, RendezvousTypeOK, LockWaits, LockWaitOK, AwaitsX, AwaitsK, WUnlock,
             Move, Running
    <3>2. \A t \in Procs \ {Head(x.queue)} : LockWaitOK(t)'
      BY <2>1, <1>a, <1>m, MembersType
         DEF RWTypeOK, RendezvousTypeOK, LockWaits, LockWaitOK, AwaitsX, AwaitsK, WUnlock,
             Move, Running
    <3>3. \A t \in Procs : t = Head(x.queue) => LockWaitOK(t)'
      <4> SUFFICES ASSUME NEW t \in Procs, t = Head(x.queue)
                   PROVE  LockWaitOK(t)'
        OBVIOUS
      <4>1. CASE ht[t] = t
        BY <4>1, <2>1, <1>m DEF RWTypeOK, RendezvousTypeOK, LockWaitOK
      <4>2. CASE ht[t] = NoProc
        BY <4>2, <2>1, <1>a, <1>m, MembersType
           DEF RWTypeOK, RendezvousTypeOK, LockWaits, LockWaitOK, AwaitsX, AwaitsK,
               WUnlock, Move, Running
      <4> QED
        BY <4>1, <4>2, <2>1, <1>m
    <3> QED
      BY <3>1, <3>2, <3>3 DEF LockWaits
  <2>2. CASE ~(x.queue # <<>>)
    BY <2>2, <1>a, <1>e, MembersType
       DEF RWTypeOK, RendezvousTypeOK, LockWaits, LockWaitOK, AwaitsX, AwaitsK, WUnlock,
           Move, Running
  <2> QED
    BY <2>1, <2>2
<1>3. LockQueues'
  BY <1>a, <1>m, <1>e, MembersType
     DEF RWTypeOK, RendezvousTypeOK, LockQueues, AwaitsX, AwaitsK, LockWaits, LockWaitOK,
         WUnlock, Move, Running
<1>4. XInv'
  BY <1>a, <1>m, <1>e, MembersType
     DEF RWTypeOK, RendezvousTypeOK, XInv, HasX, AwaitsX, Passed, LockWaits, LockWaitOK,
         LockQueues, WUnlock, Move, Running
<1>5. KInv'
  BY <1>a, <1>m, <1>e, MembersType
     DEF RWTypeOK, RendezvousTypeOK, KInv, HasK, AwaitsK, Passed, LockWaits, LockWaitOK,
         LockQueues, WUnlock, Move, Running
<1>6. ReadersInv'
  BY <1>s DEF ReadersInv
<1> QED
  BY <1>1, <1>2, <1>3, <1>4, <1>5, <1>6

LEMMA WUnlockKKeeps ==
  ASSUME RWIndInv, NEW p \in Procs, WUnlockK(p)
  PROVE  RWIndInv'
<1> USE NoProcAssumption DEF RWIndInv
<1>a. /\ k' \in QLockType(Procs) /\ Distinct(k'.queue)
      /\ k.queue = <<>> => ~k'.locked /\ k'.queue = <<>>
      /\ k.queue # <<>> =>
           /\ k'.locked = k.locked
           /\ Head(k.queue) \in Procs /\ Head(k.queue) \in Members(k.queue)
           /\ Members(k'.queue) = Members(k.queue) \ {Head(k.queue)}
  BY PassForm DEF WUnlockK, RWTypeOK, LockQueues
<1>m. k.queue # <<>> =>
        /\ Head(k.queue) # p /\ AwaitsK(Head(k.queue))
        /\ ht[Head(k.queue)] \in {Head(k.queue), NoProc}
        /\ ht' = [ht EXCEPT ![Head(k.queue)] = IF @ = NoProc THEN p ELSE NoProc]
  BY <1>a
     DEF WUnlockK, Move, Running, WakeHead, Meet, Met, LockQueues, LockWaits, LockWaitOK,
         AwaitsX, AwaitsK
<1>e. k.queue = <<>> => ht' = ht
  BY DEF WUnlockK, WakeHead
<1>s. Readers' = Readers /\ readers' = readers
  BY DEF Readers, RWTypeOK, Move, WUnlockK
<1>1. RWTypeOK'
  BY <1>a, <1>m, <1>e, MembersType
     DEF RWTypeOK, RendezvousTypeOK, RWLabels, WUnlockK, Move, Running
<1>2. LockWaits'
  <2>1. CASE k.queue # <<>>
    <3>1. \A t, u \in Procs : ht'[t] = ht'[u] => t = u \/ ht'[t] = NoProc
      BY <2>1, <1>a, <1>m
         DEF RWTypeOK, RendezvousTypeOK, LockWaits, LockWaitOK, AwaitsX, AwaitsK,
             WUnlockK, Move, Running
    <3>2. \A t \in Procs \ {Head(k.queue)} : LockWaitOK(t)'
      BY <2>1, <1>a, <1>m, MembersType
         DEF RWTypeOK, RendezvousTypeOK, LockWaits, LockWaitOK, AwaitsX, AwaitsK,
             WUnlockK, Move, Running
    <3>3. \A t \in Procs : t = Head(k.queue) => LockWaitOK(t)'
      <4> SUFFICES ASSUME NEW t \in Procs, t = Head(k.queue)
                   PROVE  LockWaitOK(t)'
        OBVIOUS
      <4>1. CASE ht[t] = t
        BY <4>1, <2>1, <1>m DEF RWTypeOK, RendezvousTypeOK, LockWaitOK
      <4>2. CASE ht[t] = NoProc
        BY <4>2, <2>1, <1>a, <1>m, MembersType
           DEF RWTypeOK, RendezvousTypeOK, LockWaits, LockWaitOK, AwaitsX, AwaitsK,
               WUnlockK, Move, Running
      <4> QED
        BY <4>1, <4>2, <2>1, <1>m
    <3> QED
      BY <3>1, <3>2, <3>3 DEF LockWaits
  <2>2. CASE ~(k.queue # <<>>)
    BY <2>2, <1>a, <1>e, MembersType
       DEF RWTypeOK, RendezvousTypeOK, LockWaits, LockWaitOK, AwaitsX, AwaitsK, WUnlockK,
           Move, Running
  <2> QED
    BY <2>1, <2>2
<1>3. LockQueues'
  BY <1>a, <1>m, <1>e, MembersType
     DEF RWTypeOK, RendezvousTypeOK, LockQueues, AwaitsX, AwaitsK, LockWaits, LockWaitOK,
         WUnlockK, Move, Running
<1>4. XInv'
  <2>1. \A q \in Procs : HasX(q)' <=> HasX(q)
    BY <1>a, <1>m, <1>e
       DEF RWTypeOK, RendezvousTypeOK, HasX, AwaitsX, AwaitsK, Passed, LockWaits,
           LockWaitOK, WUnlockK, Move, Running
  <2>2. x' = x
    BY DEF WUnlockK
  <2> QED
    BY <2>1, <2>2 DEF XInv
<1>5. KInv'
  BY <1>a, <1>m, <1>e, MembersType
     DEF RWTypeOK, RendezvousTypeOK, KInv, HasK, AwaitsK, Passed, LockWaits, LockWaitOK,
         LockQueues, WUnlockK, Move, Running
<1>6. ReadersInv'
  BY <1>s DEF ReadersInv
<1> QED
  BY <1>1, <1>2, <1>3, <1>4, <1>5, <1>6

LEMMA RWStutterKeeps == RWIndInv /\ UNCHANGED rwVars => RWIndInv'
<1> SUFFICES ASSUME RWIndInv, UNCHANGED rwVars PROVE RWIndInv'
  OBVIOUS
<1> USE DEF rwVars, RWIndInv
<1>1. RWTypeOK' /\ LockWaits' /\ LockQueues'
  BY DEF RWTypeOK, RendezvousTypeOK, LockWaits, LockWaitOK, AwaitsX, AwaitsK, LockQueues
<1>2. XInv' /\ KInv' /\ ReadersInv'
  BY DEF XInv, KInv, ReadersInv, Readers, HasX, HasK, AwaitsX, AwaitsK, Passed
<1> QED
  BY <1>1, <1>2

LEMMA RWInitInv == RWInit => RWIndInv
<1> SUFFICES ASSUME RWInit PROVE RWIndInv
  OBVIOUS
<1> USE NoProcAssumption DEF RWInit, RendezvousInit, QLockFree
<1>1. RWTypeOK
  BY DEF RWTypeOK, RendezvousTypeOK, RWLabels, QLockType
<1>2. LockWaits /\ XInv /\ KInv
  BY DEF LockWaits, LockWaitOK, XInv, HasX, AwaitsX, Passed, KInv
<1>3. LockQueues
  BY DEF LockQueues, Distinct, Members
<1>4. ReadersInv
  BY FS_EmptySet DEF ReadersInv, Readers
<1> QED
  BY <1>1, <1>2, <1>3, <1>4 DEF RWIndInv

(* The invariant holds initially and every step of every process keeps it: *)
(* who waits under which tag, who is in which queue, who holds x and k.    *)
THEOREM RWInductive == RWSpec => []RWIndInv
<1>1. RWIndInv /\ [RWNext]_rwVars => RWIndInv'
  <2> SUFFICES ASSUME RWIndInv, [RWNext]_rwVars PROVE RWIndInv'
    OBVIOUS
  <2>1. CASE UNCHANGED rwVars
    BY <2>1, RWStutterKeeps
  <2>2. ASSUME NEW p \in Procs, RLock(p) \/ WLock(p)
        PROVE  RWIndInv'
    <3>1. CASE EnterX(p, "rxwait", "rx")
      BY <3>1, EnterXKeeps
    <3>2. CASE EnterX(p, "wxwait", "wx")
      BY <3>2, EnterXKeeps
    <3> QED
      BY <2>2, <3>1, <3>2 DEF RLock, WLock
  <2>3. ASSUME NEW p \in Procs, RWProceed(p)
        PROVE  RWIndInv'
    BY <2>3, AwaitKeeps, RLockCountKeeps, RLockDoneKeeps, RUnlockKeeps,
       RUnlockDoneKeeps, WLockKKeeps, WUnlockKeeps, WUnlockKKeeps DEF RWProceed
  <2> QED
    BY <2>1, <2>2, <2>3 DEF RWNext
<1> QED
  BY <1>1, RWInitInv, PTL DEF RWSpec

-----------------------------------------------------------------------------
(* Whoever calls rlock and wlock, and whatever canqlock does for a reader, *)
(* at most one writer is in the section: a writer keeps x until it leaves. *)
THEOREM WritersExclude == RWSpec => []OneWriter
<1>1. RWIndInv => OneWriter
  <2> SUFFICES ASSUME RWIndInv PROVE OneWriter
    OBVIOUS
  <2>1. \A p, q \in InSection("writing") : p = q
    BY DEF RWIndInv, XInv, HasX, InSection
  <2>2. CASE InSection("writing") = {}
    BY <2>2, FS_EmptySet DEF OneWriter
  <2>3. ASSUME NEW p \in InSection("writing")
        PROVE  OneWriter
    <3>1. InSection("writing") = {p}
      BY <2>1, <2>3
    <3> QED
      BY <3>1, FS_Singleton DEF OneWriter
  <2> QED
    BY <2>2, <2>3
<1> QED
  BY <1>1, RWInductive, PTL

(* Once every process has left, x and k are free and no reader is counted, *)
(* however the calls met.                                                  *)
THEOREM LeavesFree == RWSpec => []QuiescentFree
<1>1. RWIndInv => QuiescentFree
  <2> SUFFICES ASSUME RWIndInv, InSection("out") = Procs
               PROVE  x = QLockFree /\ k = QLockFree /\ readers = 0
    BY DEF QuiescentFree
  <2>1. \A p \in Procs : pc[p] = "out"
    BY DEF InSection
  <2>2. readers = 0
    <3>1. Readers = {}
      BY <2>1 DEF Readers
    <3> QED
      BY <3>1, FS_EmptySet DEF RWIndInv, ReadersInv
  <2>3. \A p \in Procs : ~HasX(p) /\ ~HasK(p)
    BY <2>1 DEF HasX, HasK, AwaitsX, AwaitsK
  <2>4. x = QLockFree
    BY <2>3 DEF RWIndInv, XInv, RWTypeOK, QLockType, QLockFree
  <2>5. k = QLockFree
    BY <2>2, <2>3 DEF RWIndInv, KInv, RWTypeOK, QLockType, QLockFree
  <2> QED
    BY <2>2, <2>4, <2>5
<1> QED
  BY <1>1, RWInductive, PTL

-----------------------------------------------------------------------------
(* SleepWakeup. *)

(* Each step keeps the invariant. *)
LEMMA SleepEnterKeeps ==
  ASSUME SleepIndInv, SleepEnter
  PROVE  SleepIndInv'
<1> USE NoProcAssumption, SleepAssumption DEF SleepIndInv, Others
<1>1. SleepTypeOK'
  BY DEF SleepTypeOK, SleepLabels, RendezvousTypeOK, SleepEnter, Move, Running, rend, sys
<1>2. MeetInv'
  BY DEF SleepTypeOK, RendezvousTypeOK, MeetInv, UpInv, SleepEnter, Move, Running, rend, sys
<1>3. UpInv'
  BY DEF SleepTypeOK, RendezvousTypeOK, MeetInv, UpInv, SleepEnter, Move, Running, rend, sys
<1>4. IntrInv'
  BY DEF SleepTypeOK, MeetInv, UpInv, IntrInv, SleepEnter, Move, Running, rend, sys
<1> QED
  BY <1>1, <1>2, <1>3, <1>4

LEMMA SleepLookKeeps ==
  ASSUME SleepIndInv, SleepLook
  PROVE  SleepIndInv'
<1> USE NoProcAssumption, SleepAssumption DEF SleepIndInv, Others
<1>1. SleepTypeOK'
  BY DEF SleepTypeOK, SleepLabels, RendezvousTypeOK, SleepLook, Move, Running, rend, sys
<1>2. MeetInv'
  BY DEF SleepTypeOK, RendezvousTypeOK, MeetInv, UpInv, SleepLook, Move, Running, rend, sys
<1>3. UpInv'
  BY DEF SleepTypeOK, RendezvousTypeOK, MeetInv, UpInv, SleepLook, Move, Running, rend, sys
<1>4. IntrInv'
  BY DEF SleepTypeOK, MeetInv, UpInv, IntrInv, SleepLook, Move, Running, rend, sys
<1> QED
  BY <1>1, <1>2, <1>3, <1>4

LEMMA SleepWaitKeeps ==
  ASSUME SleepIndInv, SleepWait
  PROVE  SleepIndInv'
<1> USE NoProcAssumption, SleepAssumption DEF SleepIndInv, Others
<1>1. SleepTypeOK'
  BY DEF SleepTypeOK, SleepLabels, RendezvousTypeOK, SleepWait, Move, Running, rend, sys, Meet, Met
<1>2. MeetInv'
  BY DEF SleepTypeOK, RendezvousTypeOK, MeetInv, UpInv, SleepWait, Move, Running, rend, sys, Meet, Met
<1>3. UpInv'
  BY DEF SleepTypeOK, RendezvousTypeOK, MeetInv, UpInv, SleepWait, Move, Running, rend, sys, Meet, Met
<1>4. IntrInv'
  BY DEF SleepTypeOK, MeetInv, UpInv, IntrInv, SleepWait, Move, Running, rend, sys, Meet, Met
<1> QED
  BY <1>1, <1>2, <1>3, <1>4

LEMMA SleepAfterKeeps ==
  ASSUME SleepIndInv, SleepAfter
  PROVE  SleepIndInv'
<1> USE NoProcAssumption, SleepAssumption DEF SleepIndInv, Others
<1>1. SleepTypeOK'
  BY DEF SleepTypeOK, SleepLabels, RendezvousTypeOK, SleepAfter, Move, Running, rend, sys
<1>2. MeetInv'
  BY DEF SleepTypeOK, RendezvousTypeOK, MeetInv, UpInv, SleepAfter, Move, Running, rend, sys
<1>3. UpInv'
  BY DEF SleepTypeOK, RendezvousTypeOK, MeetInv, UpInv, SleepAfter, Move, Running, rend, sys
<1>4. IntrInv'
  BY DEF SleepTypeOK, MeetInv, UpInv, IntrInv, SleepAfter, Move, Running, rend, sys
<1> QED
  BY <1>1, <1>2, <1>3, <1>4

LEMMA WokenKeeps ==
  ASSUME SleepIndInv, Woken
  PROVE  SleepIndInv'
<1> USE NoProcAssumption, SleepAssumption DEF SleepIndInv, Others
<1>1. SleepTypeOK'
  BY DEF SleepTypeOK, SleepLabels, RendezvousTypeOK, Woken, Move, Running, rend, sys
<1>2. MeetInv'
  BY DEF SleepTypeOK, RendezvousTypeOK, MeetInv, UpInv, Woken, Move, Running, rend, sys
<1>3. UpInv'
  BY DEF SleepTypeOK, RendezvousTypeOK, MeetInv, UpInv, Woken, Move, Running, rend, sys
<1>4. IntrInv'
  BY DEF SleepTypeOK, MeetInv, UpInv, IntrInv, Woken, Move, Running, rend, sys
<1> QED
  BY <1>1, <1>2, <1>3, <1>4

LEMMA OsEnterKeeps ==
  ASSUME SleepIndInv, OsEnter
  PROVE  SleepIndInv'
<1> USE NoProcAssumption, SleepAssumption DEF SleepIndInv, Others
<1>1. SleepTypeOK'
  BY DEF SleepTypeOK, SleepLabels, RendezvousTypeOK, OsEnter, Move, Running, rend, sys
<1>2. MeetInv'
  BY DEF SleepTypeOK, RendezvousTypeOK, MeetInv, UpInv, OsEnter, Move, Running, rend, sys
<1>3. UpInv'
  BY DEF SleepTypeOK, RendezvousTypeOK, MeetInv, UpInv, OsEnter, Move, Running, rend, sys
<1>4. IntrInv'
  BY DEF SleepTypeOK, MeetInv, UpInv, IntrInv, OsEnter, Move, Running, rend, sys
<1> QED
  BY <1>1, <1>2, <1>3, <1>4

LEMMA TrapKeeps ==
  ASSUME SleepIndInv, Trap
  PROVE  SleepIndInv'
<1> USE NoProcAssumption, SleepAssumption DEF SleepIndInv, Others
<1>1. SleepTypeOK'
  BY DEF SleepTypeOK, SleepLabels, RendezvousTypeOK, Trap, Move, Running, rend, sys
<1>2. MeetInv'
  BY DEF SleepTypeOK, RendezvousTypeOK, MeetInv, UpInv, Trap, Move, Running, rend, sys
<1>3. UpInv'
  BY DEF SleepTypeOK, RendezvousTypeOK, MeetInv, UpInv, Trap, Move, Running, rend, sys
<1>4. IntrInv'
  BY DEF SleepTypeOK, MeetInv, UpInv, IntrInv, Trap, Move, Running, rend, sys
<1> QED
  BY <1>1, <1>2, <1>3, <1>4

LEMMA OsLeaveKeeps ==
  ASSUME SleepIndInv, OsLeave
  PROVE  SleepIndInv'
<1> USE NoProcAssumption, SleepAssumption DEF SleepIndInv, Others
<1>1. SleepTypeOK'
  BY DEF SleepTypeOK, SleepLabels, RendezvousTypeOK, OsLeave, Move, Running, rend, sys
<1>2. MeetInv'
  BY DEF SleepTypeOK, RendezvousTypeOK, MeetInv, UpInv, OsLeave, Move, Running, rend, sys
<1>3. UpInv'
  BY DEF SleepTypeOK, RendezvousTypeOK, MeetInv, UpInv, OsLeave, Move, Running, rend, sys
<1>4. IntrInv'
  BY DEF SleepTypeOK, MeetInv, UpInv, IntrInv, OsLeave, Move, Running, rend, sys
<1> QED
  BY <1>1, <1>2, <1>3, <1>4

LEMMA OsLeftKeeps ==
  ASSUME SleepIndInv, OsLeft
  PROVE  SleepIndInv'
<1> USE NoProcAssumption, SleepAssumption DEF SleepIndInv, Others
<1>1. SleepTypeOK'
  BY DEF SleepTypeOK, SleepLabels, RendezvousTypeOK, OsLeft, Move, Running, rend, sys
<1>2. MeetInv'
  BY DEF SleepTypeOK, RendezvousTypeOK, MeetInv, UpInv, OsLeft, Move, Running, rend, sys
<1>3. UpInv'
  BY DEF SleepTypeOK, RendezvousTypeOK, MeetInv, UpInv, OsLeft, Move, Running, rend, sys
<1>4. IntrInv'
  BY DEF SleepTypeOK, MeetInv, UpInv, IntrInv, OsLeft, Move, Running, rend, sys
<1> QED
  BY <1>1, <1>2, <1>3, <1>4

LEMMA SetCondKeeps ==
  ASSUME SleepIndInv, NEW p \in Wakers, SetCond(p)
  PROVE  SleepIndInv'
<1> USE NoProcAssumption, SleepAssumption DEF SleepIndInv, Others
<1>1. SleepTypeOK'
  BY DEF SleepTypeOK, SleepLabels, RendezvousTypeOK, SetCond, Move, Running, rend, sys
<1>2. MeetInv'
  BY DEF SleepTypeOK, RendezvousTypeOK, MeetInv, UpInv, SetCond, Move, Running, rend, sys
<1>3. UpInv'
  BY DEF SleepTypeOK, RendezvousTypeOK, MeetInv, UpInv, SetCond, Move, Running, rend, sys
<1>4. IntrInv'
  BY DEF SleepTypeOK, MeetInv, UpInv, IntrInv, SetCond, Move, Running, rend, sys
<1> QED
  BY <1>1, <1>2, <1>3, <1>4

LEMMA WakeupKeeps ==
  ASSUME SleepIndInv, NEW p \in Wakers, Wakeup(p)
  PROVE  SleepIndInv'
<1> USE NoProcAssumption, SleepAssumption DEF SleepIndInv, Others
<1>1. SleepTypeOK'
  <2>1. ht' \in [Procs -> Procs \union {NoProc}]
    BY DEF SleepTypeOK, RendezvousTypeOK, Wakeup, PullOut, Meet, Met
  <2>2. /\ \E m \in {"out", "unlock"} : pc' = [pc EXCEPT ![p] = m]
        /\ r_p' \in BOOLEAN /\ up_r' \in BOOLEAN /\ r_l' \in Others \union {NoProc}
        /\ swipend' = swipend /\ UNCHANGED <<cond, sys>>
    BY DEF SleepTypeOK, Wakeup, Move, PullOut, rend
  <2> QED
    BY <2>1, <2>2 DEF SleepTypeOK, SleepLabels, RendezvousTypeOK, sys
<1>2. MeetInv'
  BY DEF SleepTypeOK, RendezvousTypeOK, MeetInv, UpInv, Wakeup, Move, Running, rend, sys, Meet, Met, PullOut
<1>3. UpInv'
  BY DEF SleepTypeOK, RendezvousTypeOK, MeetInv, UpInv, Wakeup, Move, Running, rend, sys, Meet, Met, PullOut
<1>4. IntrInv'
  BY DEF SleepTypeOK, MeetInv, UpInv, IntrInv, Wakeup, Move, Running, rend, sys, Meet, Met, PullOut
<1> QED
  BY <1>1, <1>2, <1>3, <1>4

LEMMA UnlockKeeps ==
  ASSUME SleepIndInv, NEW p \in Others, Unlock(p)
  PROVE  SleepIndInv'
<1> USE NoProcAssumption, SleepAssumption DEF SleepIndInv, Others
<1>1. SleepTypeOK'
  BY DEF SleepTypeOK, SleepLabels, RendezvousTypeOK, Unlock, Move, Running, rend, sys
<1>2. MeetInv'
  BY DEF SleepTypeOK, RendezvousTypeOK, MeetInv, UpInv, Unlock, Move, Running, rend, sys
<1>3. UpInv'
  BY DEF SleepTypeOK, RendezvousTypeOK, MeetInv, UpInv, Unlock, Move, Running, rend, sys
<1>4. IntrInv'
  BY DEF SleepTypeOK, MeetInv, UpInv, IntrInv, Unlock, Move, Running, rend, sys
<1> QED
  BY <1>1, <1>2, <1>3, <1>4

LEMMA SwiprocKeeps ==
  ASSUME SleepIndInv, NEW p \in Killers, Swiproc(p)
  PROVE  SleepIndInv'
<1> USE NoProcAssumption, SleepAssumption DEF SleepIndInv, Others
<1>1. SleepTypeOK'
  BY DEF SleepTypeOK, SleepLabels, RendezvousTypeOK, Swiproc, Move, Running, rend, sys
<1>2. MeetInv'
  BY DEF SleepTypeOK, RendezvousTypeOK, MeetInv, UpInv, Swiproc, Move, Running, rend, sys
<1>3. UpInv'
  BY DEF SleepTypeOK, RendezvousTypeOK, MeetInv, UpInv, Swiproc, Move, Running, rend, sys
<1>4. IntrInv'
  BY DEF SleepTypeOK, MeetInv, UpInv, IntrInv, Swiproc, Move, Running, rend, sys
<1> QED
  BY <1>1, <1>2, <1>3, <1>4

LEMMA SwiprocPullKeeps ==
  ASSUME SleepIndInv, NEW p \in Killers, SwiprocPull(p)
  PROVE  SleepIndInv'
<1> USE NoProcAssumption, SleepAssumption DEF SleepIndInv, Others
<1>1. SleepTypeOK'
  <2>1. ht' \in [Procs -> Procs \union {NoProc}]
    BY DEF SleepTypeOK, RendezvousTypeOK, SwiprocPull, PullOut, Meet, Met
  <2>2. /\ \E m \in {"out", "unlock"} : pc' = [pc EXCEPT ![p] = m]
        /\ r_p' \in BOOLEAN /\ up_r' \in BOOLEAN /\ r_l' \in Others \union {NoProc}
        /\ swipend' \in BOOLEAN /\ UNCHANGED <<cond, sys>>
    BY DEF SleepTypeOK, SwiprocPull, Move, PullOut, rend
  <2> QED
    BY <2>1, <2>2 DEF SleepTypeOK, SleepLabels, RendezvousTypeOK, sys
<1>2. MeetInv'
  BY DEF SleepTypeOK, RendezvousTypeOK, MeetInv, UpInv, SwiprocPull, Move, Running, rend, sys, Meet, Met, PullOut
<1>3. UpInv'
  BY DEF SleepTypeOK, RendezvousTypeOK, MeetInv, UpInv, SwiprocPull, Move, Running, rend, sys, Meet, Met, PullOut
<1>4. IntrInv'
  BY DEF SleepTypeOK, MeetInv, UpInv, IntrInv, SwiprocPull, Move, Running, rend, sys, Meet, Met, PullOut
<1> QED
  BY <1>1, <1>2, <1>3, <1>4

LEMMA SwiprocHostKeeps ==
  ASSUME SleepIndInv, NEW p \in Killers, SwiprocHost(p)
  PROVE  SleepIndInv'
<1> USE NoProcAssumption, SleepAssumption DEF SleepIndInv, Others
<1>1. SleepTypeOK'
  BY DEF SleepTypeOK, SleepLabels, RendezvousTypeOK, SwiprocHost, Move, Running, rend, sys
<1>2. MeetInv'
  BY DEF SleepTypeOK, RendezvousTypeOK, MeetInv, UpInv, SwiprocHost, Move, Running, rend, sys
<1>3. UpInv'
  BY DEF SleepTypeOK, RendezvousTypeOK, MeetInv, UpInv, SwiprocHost, Move, Running, rend, sys
<1>4. IntrInv'
  BY DEF SleepTypeOK, MeetInv, UpInv, IntrInv, SwiprocHost, Move, Running, rend, sys
<1> QED
  BY <1>1, <1>2, <1>3, <1>4

LEMMA SleepInitInv == SleepInit => SleepIndInv
BY NoProcAssumption, SleepAssumption DEF SleepIndInv, SleepInit, RendezvousInit, SleepTypeOK, SleepLabels,
   RendezvousTypeOK, MeetInv, UpInv, IntrInv, Others

LEMMA SleepStutterKeeps == SleepIndInv /\ UNCHANGED sleepVars => SleepIndInv'
BY DEF SleepIndInv, sleepVars, rend, sys, SleepTypeOK, RendezvousTypeOK, MeetInv, UpInv, IntrInv

(* The invariant holds initially and every step of every process keeps it: *)
(* who waits for the sleeper, whether it is in r, and where it is while an *)
(* interrupt is pending.                                                   *)
THEOREM SleepInductive == SleepSpec => []SleepIndInv
<1>1. SleepIndInv /\ [SleepNext]_sleepVars => SleepIndInv'
  <2> SUFFICES ASSUME SleepIndInv, [SleepNext]_sleepVars PROVE SleepIndInv'
    OBVIOUS
  <2>1. CASE UNCHANGED sleepVars
    BY <2>1, SleepStutterKeeps
  <2>2. CASE SleepEnter \/ SleeperProceeds \/ OsEnter \/ Trap \/ OsLeave \/ OsLeft
    BY <2>2, SleepEnterKeeps, OsEnterKeeps, SleepLookKeeps, SleepWaitKeeps,
       SleepAfterKeeps, WokenKeeps, OsLeaveKeeps, OsLeftKeeps, TrapKeeps
       DEF SleeperProceeds
  <2>3. ASSUME NEW w \in Wakers, SetCond(w) PROVE SleepIndInv'
    BY <2>3, SetCondKeeps
  <2>4. ASSUME NEW o \in Killers, Swiproc(o) PROVE SleepIndInv'
    BY <2>4, SwiprocKeeps
  <2>5. ASSUME NEW p \in Wakers \union Killers, OtherProceeds(p) PROVE SleepIndInv'
    BY <2>5, UnlockKeeps, WakeupKeeps, SwiprocPullKeeps, SwiprocHostKeeps
       DEF OtherProceeds, Others
  <2> QED
    BY <2>1, <2>2, <2>3, <2>4, <2>5 DEF SleepNext
<1> QED
  BY <1>1, SleepInitInv, PTL DEF SleepSpec

-----------------------------------------------------------------------------
(* Whoever wakes and interrupts the process when: no interrupt is pending  *)
(* when it has returned from Sleep or from a system call, so the next call *)
(* does not fail with Eintr.                                               *)
THEOREM InterruptsMatch == SleepSpec => []NoStaleInterrupt
<1>1. SleepIndInv => NoStaleInterrupt
  BY DEF SleepIndInv, IntrInv, NoStaleInterrupt
<1> QED
  BY <1>1, SleepInductive, PTL

-----------------------------------------------------------------------------
(* VMSched. *)

LEMMA QueuedType == TypeOK => Queued \subseteq Procs
BY DEF TypeOK, Queued, Members

(* Each step keeps the invariant. *)
LEMMA AcquireIdleKeeps ==
  ASSUME IndInv, NEW p \in Procs, AcquireIdle(p)
  PROVE  IndInv'
<1> USE NoProcAssumption, VMAssumption DEF IndInv
<1>0. Queued' = Queued /\ vmq' = vmq
  BY DEF Queued, sched, AcquireIdle
<1>1. TypeOK'
  BY <1>0
     DEF TypeOK, Labels, RendezvousTypeOK, At, Goto, Meet, Met, Running, sched,
         AcquireIdle
<1>2. WaitInv'
  BY <1>0
     DEF TypeOK, RendezvousTypeOK, WaitInv, WaitOK, Awaits, At, Goto, Meet, Met,
         Running, sched, AcquireIdle
<1>3. QueueInv'
  BY <1>0, QueuedType
     DEF TypeOK, RendezvousTypeOK, QueueInv, Awaits, WaitInv, WaitOK, At, Goto, Meet,
         Met, Running, sched, AcquireIdle
<1>4. GiveInv'
  BY <1>0
     DEF TypeOK, RendezvousTypeOK, GiveInv, Gives, Awaits, WaitInv, WaitOK, At, Goto,
         Meet, Met, Running, sched, AcquireIdle
<1>5. OneHas'
  BY <1>0
     DEF TypeOK, RendezvousTypeOK, OneHas, Has, Owns, Given, Gives, Awaits, WaitInv,
         WaitOK, GiveInv, QueueInv, At, Goto, Meet, Met, Running, sched, AcquireIdle
<1>6. SleeperInv'
  BY <1>0
     DEF TypeOK, RendezvousTypeOK, SleeperInv, WaitInv, WaitOK, At, Goto, Meet, Met,
         Running, sched, AcquireIdle
<1>7. KindInv'
  BY <1>0
     DEF TypeOK, RendezvousTypeOK, KindInv, HostLabels, At, Goto, Meet, Met, Running,
         sched, AcquireIdle
<1> QED
  BY <1>1, <1>2, <1>3, <1>4, <1>5, <1>6, <1>7

LEMMA AcquireQueueKeeps ==
  ASSUME IndInv, NEW p \in Procs, AcquireQueue(p)
  PROVE  IndInv'
<1> USE NoProcAssumption, VMAssumption DEF IndInv
<1>0. vmq' \in Seq(Procs) /\ Queued' = Queued \union {p} /\ Distinct(vmq')
  <2>1. p \notin Members(vmq) /\ vmq \in Seq(Procs) /\ Distinct(vmq)
    BY DEF AcquireQueue, TypeOK, QueueInv, Queued, At, Awaits
  <2>2. vmq' = <<p>> \o vmq
    BY DEF AcquireQueue
  <2> QED
    BY <2>1, <2>2, AtFront DEF Queued
<1>1. TypeOK'
  BY <1>0
     DEF TypeOK, Labels, RendezvousTypeOK, At, Goto, Meet, Met, Running, sched,
         AcquireQueue
<1>2. WaitInv'
  BY <1>0
     DEF TypeOK, RendezvousTypeOK, WaitInv, WaitOK, Awaits, At, Goto, Meet, Met,
         Running, sched, AcquireQueue
<1>3. QueueInv'
  BY <1>0, QueuedType
     DEF TypeOK, RendezvousTypeOK, QueueInv, Awaits, WaitInv, WaitOK, At, Goto, Meet,
         Met, Running, sched, AcquireQueue
<1>4. GiveInv'
  BY <1>0
     DEF TypeOK, RendezvousTypeOK, GiveInv, Gives, Awaits, WaitInv, WaitOK, At, Goto,
         Meet, Met, Running, sched, AcquireQueue
<1>5. OneHas'
  BY <1>0
     DEF TypeOK, RendezvousTypeOK, OneHas, Has, Owns, Given, Gives, Awaits, WaitInv,
         WaitOK, GiveInv, QueueInv, At, Goto, Meet, Met, Running, sched, AcquireQueue
<1>6. SleeperInv'
  BY <1>0
     DEF TypeOK, RendezvousTypeOK, SleeperInv, WaitInv, WaitOK, At, Goto, Meet, Met,
         Running, sched, AcquireQueue
<1>7. KindInv'
  BY <1>0
     DEF TypeOK, RendezvousTypeOK, KindInv, HostLabels, At, Goto, Meet, Met, Running,
         sched, AcquireQueue
<1> QED
  BY <1>1, <1>2, <1>3, <1>4, <1>5, <1>6, <1>7

LEMMA WakeupIrendKeeps ==
  ASSUME IndInv, NEW p \in Procs, WakeupIrend(p)
  PROVE  IndInv'
<1> USE NoProcAssumption, VMAssumption DEF IndInv
<1>0. Queued' = Queued /\ vmq' = vmq
  BY DEF Queued, sched, WakeupIrend
<1>1. TypeOK'
  BY <1>0
     DEF TypeOK, Labels, RendezvousTypeOK, At, Goto, Meet, Met, Running, sched, WakeupIrend
<1>2. WaitInv'
  BY <1>0
     DEF TypeOK, RendezvousTypeOK, WaitInv, WaitOK, Awaits, QueueInv, GiveInv, OneHas,
         Has, Owns, Given, Gives, SleeperInv, KindInv, At, Goto, Meet, Met, Running,
         sched, WakeupIrend
<1>3. QueueInv'
  BY <1>0, QueuedType
     DEF TypeOK, RendezvousTypeOK, QueueInv, Awaits, WaitInv, WaitOK, SleeperInv, At,
         Goto, Meet, Met, Running, sched, WakeupIrend
<1>4. GiveInv'
  BY <1>0
     DEF TypeOK, RendezvousTypeOK, GiveInv, Gives, Awaits, WaitInv, WaitOK, QueueInv,
         OneHas, Has, Owns, Given, SleeperInv, KindInv, At, Goto, Meet, Met, Running,
         sched, WakeupIrend
<1>5. OneHas'
  BY <1>0
     DEF TypeOK, RendezvousTypeOK, OneHas, Has, Owns, Given, Gives, Awaits, WaitInv,
         WaitOK, GiveInv, QueueInv, SleeperInv, KindInv, At, Goto, Meet, Met, Running,
         sched, WakeupIrend
<1>6. SleeperInv'
  BY <1>0
     DEF TypeOK, RendezvousTypeOK, SleeperInv, WaitInv, WaitOK, QueueInv, GiveInv,
         OneHas, Has, Owns, Given, Gives, Awaits, KindInv, At, Goto, Meet, Met,
         Running, sched, WakeupIrend
<1>7. KindInv'
  BY <1>0
     DEF TypeOK, RendezvousTypeOK, KindInv, HostLabels, WaitInv, WaitOK, QueueInv,
         GiveInv, OneHas, Has, Owns, Given, Gives, Awaits, SleeperInv, At, Goto, Meet,
         Met, Running, sched, WakeupIrend
<1> QED
  BY <1>1, <1>2, <1>3, <1>4, <1>5, <1>6, <1>7

LEMMA WakeupDoneKeeps ==
  ASSUME IndInv, NEW p \in Procs, WakeupDone(p)
  PROVE  IndInv'
<1> USE NoProcAssumption, VMAssumption DEF IndInv
<1>0. Queued' = Queued /\ vmq' = vmq
  BY DEF Queued, sched, WakeupDone
<1>1. TypeOK'
  BY <1>0
     DEF TypeOK, Labels, RendezvousTypeOK, At, Goto, Meet, Met, Running, sched,
         WakeupDone
<1>2. WaitInv'
  BY <1>0
     DEF TypeOK, RendezvousTypeOK, WaitInv, WaitOK, Awaits, At, Goto, Meet, Met,
         Running, sched, WakeupDone
<1>3. QueueInv'
  BY <1>0, QueuedType
     DEF TypeOK, RendezvousTypeOK, QueueInv, Awaits, WaitInv, WaitOK, At, Goto, Meet,
         Met, Running, sched, WakeupDone
<1>4. GiveInv'
  BY <1>0
     DEF TypeOK, RendezvousTypeOK, GiveInv, Gives, Awaits, WaitInv, WaitOK, At, Goto,
         Meet, Met, Running, sched, WakeupDone
<1>5. OneHas'
  BY <1>0
     DEF TypeOK, RendezvousTypeOK, OneHas, Has, Owns, Given, Gives, Awaits, WaitInv,
         WaitOK, GiveInv, QueueInv, At, Goto, Meet, Met, Running, sched, WakeupDone
<1>6. SleeperInv'
  BY <1>0
     DEF TypeOK, RendezvousTypeOK, SleeperInv, WaitInv, WaitOK, At, Goto, Meet, Met,
         Running, sched, WakeupDone
<1>7. KindInv'
  BY <1>0
     DEF TypeOK, RendezvousTypeOK, KindInv, HostLabels, At, Goto, Meet, Met, Running,
         sched, WakeupDone
<1> QED
  BY <1>1, <1>2, <1>3, <1>4, <1>5, <1>6, <1>7

LEMMA AcquireMeetKeeps ==
  ASSUME IndInv, NEW p \in Procs, AcquireMeet(p)
  PROVE  IndInv'
<1> USE NoProcAssumption, VMAssumption DEF IndInv
<1>0. Queued' = Queued /\ vmq' = vmq
  BY DEF Queued, sched, AcquireMeet
<1>1. TypeOK'
  BY <1>0
     DEF TypeOK, Labels, RendezvousTypeOK, At, Goto, Meet, Met, Running, sched,
         AcquireMeet
<1>2. WaitInv'
  BY <1>0
     DEF TypeOK, RendezvousTypeOK, WaitInv, WaitOK, Awaits, At, Goto, Meet, Met,
         Running, sched, AcquireMeet
<1>3. QueueInv'
  BY <1>0, QueuedType
     DEF TypeOK, RendezvousTypeOK, QueueInv, Awaits, WaitInv, WaitOK, At, Goto, Meet,
         Met, Running, sched, AcquireMeet
<1>4. GiveInv'
  BY <1>0
     DEF TypeOK, RendezvousTypeOK, GiveInv, Gives, Awaits, WaitInv, WaitOK, At, Goto,
         Meet, Met, Running, sched, AcquireMeet
<1>5. OneHas'
  BY <1>0
     DEF TypeOK, RendezvousTypeOK, OneHas, Has, Owns, Given, Gives, Awaits, WaitInv,
         WaitOK, GiveInv, QueueInv, At, Goto, Meet, Met, Running, sched, AcquireMeet
<1>6. SleeperInv'
  BY <1>0
     DEF TypeOK, RendezvousTypeOK, SleeperInv, WaitInv, WaitOK, At, Goto, Meet, Met,
         Running, sched, AcquireMeet
<1>7. KindInv'
  BY <1>0
     DEF TypeOK, RendezvousTypeOK, KindInv, HostLabels, At, Goto, Meet, Met, Running,
         sched, AcquireMeet
<1> QED
  BY <1>1, <1>2, <1>3, <1>4, <1>5, <1>6, <1>7

LEMMA AcquireDoneKeeps ==
  ASSUME IndInv, NEW p \in Procs, AcquireDone(p)
  PROVE  IndInv'
<1> USE NoProcAssumption, VMAssumption DEF IndInv
<1>0. Queued' = Queued /\ vmq' = vmq
  BY DEF Queued, sched, AcquireDone
<1>1. TypeOK'
  BY <1>0
     DEF TypeOK, Labels, RendezvousTypeOK, At, Goto, Meet, Met, Running, sched,
         AcquireDone
<1>2. WaitInv'
  BY <1>0
     DEF TypeOK, RendezvousTypeOK, WaitInv, WaitOK, Awaits, At, Goto, Meet, Met,
         Running, sched, AcquireDone
<1>3. QueueInv'
  BY <1>0, QueuedType
     DEF TypeOK, RendezvousTypeOK, QueueInv, Awaits, WaitInv, WaitOK, At, Goto, Meet,
         Met, Running, sched, AcquireDone
<1>4. GiveInv'
  BY <1>0
     DEF TypeOK, RendezvousTypeOK, GiveInv, Gives, Awaits, WaitInv, WaitOK, At, Goto,
         Meet, Met, Running, sched, AcquireDone
<1>5. OneHas'
  BY <1>0
     DEF TypeOK, RendezvousTypeOK, OneHas, Has, Owns, Given, Gives, Awaits, WaitInv,
         WaitOK, GiveInv, QueueInv, At, Goto, Meet, Met, Running, sched, AcquireDone
<1>6. SleeperInv'
  BY <1>0
     DEF TypeOK, RendezvousTypeOK, SleeperInv, WaitInv, WaitOK, At, Goto, Meet, Met,
         Running, sched, AcquireDone
<1>7. KindInv'
  BY <1>0
     DEF TypeOK, RendezvousTypeOK, KindInv, HostLabels, At, Goto, Meet, Met, Running,
         sched, AcquireDone
<1> QED
  BY <1>1, <1>2, <1>3, <1>4, <1>5, <1>6, <1>7

LEMMA ReleaseMeetKeeps ==
  ASSUME IndInv, NEW p \in Procs, ReleaseMeet(p)
  PROVE  IndInv'
<1> USE NoProcAssumption, VMAssumption DEF IndInv
<1>0. Queued' = Queued /\ vmq' = vmq
  BY DEF Queued, sched, ReleaseMeet
<1>1. TypeOK'
  BY <1>0
     DEF TypeOK, Labels, RendezvousTypeOK, At, Goto, Meet, Met, Running, sched,
         ReleaseMeet
<1>2. WaitInv'
  BY <1>0
     DEF TypeOK, RendezvousTypeOK, WaitInv, WaitOK, Awaits, QueueInv, GiveInv, OneHas,
         Has, Owns, Given, Gives, SleeperInv, KindInv, At, Goto, Meet, Met, Running,
         sched, ReleaseMeet
<1>3. QueueInv'
  BY <1>0, QueuedType
     DEF TypeOK, RendezvousTypeOK, QueueInv, Awaits, WaitInv, WaitOK, GiveInv, Gives,
         At, Goto, Meet, Met, Running, sched, ReleaseMeet
<1>4. GiveInv'
  BY <1>0
     DEF TypeOK, RendezvousTypeOK, GiveInv, Gives, Awaits, WaitInv, WaitOK, QueueInv,
         OneHas, Has, Owns, Given, SleeperInv, KindInv, At, Goto, Meet, Met, Running,
         sched, ReleaseMeet
<1>5. OneHas'
  BY <1>0
     DEF TypeOK, RendezvousTypeOK, OneHas, Has, Owns, Given, Gives, Awaits, WaitInv,
         WaitOK, GiveInv, QueueInv, SleeperInv, KindInv, At, Goto, Meet, Met, Running,
         sched, ReleaseMeet
<1>6. SleeperInv'
  BY <1>0
     DEF TypeOK, RendezvousTypeOK, SleeperInv, WaitInv, WaitOK, QueueInv, GiveInv,
         OneHas, Has, Owns, Given, Gives, Awaits, KindInv, At, Goto, Meet, Met,
         Running, sched, ReleaseMeet
<1>7. KindInv'
  BY <1>0
     DEF TypeOK, RendezvousTypeOK, KindInv, HostLabels, WaitInv, WaitOK, QueueInv,
         GiveInv, OneHas, Has, Owns, Given, Gives, Awaits, SleeperInv, At, Goto, Meet,
         Met, Running, sched, ReleaseMeet
<1> QED
  BY <1>1, <1>2, <1>3, <1>4, <1>5, <1>6, <1>7

LEMMA StartupKeeps ==
  ASSUME IndInv, NEW p \in Procs, Startup(p)
  PROVE  IndInv'
<1> USE NoProcAssumption, VMAssumption DEF IndInv
<1>a. p \notin Queued
  BY DEF Startup, QueueInv, At, Awaits
<1>c. ASSUME ~idle
      PROVE  vmq' \in Seq(Procs) /\ Queued' = Queued \union {p} /\ Distinct(vmq')
  <2>1. vmq' = Append(vmq, p) /\ vmq \in Seq(Procs) /\ Distinct(vmq)
    BY <1>c DEF Startup, TypeOK, QueueInv
  <2> QED
    BY <1>a, <2>1, AtBack DEF Queued
<1>0. /\ idle => vmq' = vmq /\ Queued' = Queued
      /\ ~idle => vmq' \in Seq(Procs) /\ Queued' = Queued \union {p} /\ Distinct(vmq')
  BY <1>c DEF Startup, Queued
<1>1. TypeOK'
  BY <1>0
     DEF TypeOK, Labels, RendezvousTypeOK, At, Goto, Meet, Met, Running, sched,
         Startup
<1>2. WaitInv'
  BY <1>0
     DEF TypeOK, RendezvousTypeOK, WaitInv, WaitOK, Awaits, At, Goto, Meet, Met,
         Running, sched, Startup
<1>3. QueueInv'
  BY <1>0, QueuedType
     DEF TypeOK, RendezvousTypeOK, QueueInv, Awaits, WaitInv, WaitOK, At, Goto, Meet,
         Met, Running, sched, Startup
<1>4. GiveInv'
  BY <1>0
     DEF TypeOK, RendezvousTypeOK, GiveInv, Gives, Awaits, WaitInv, WaitOK, QueueInv,
         OneHas, Has, Owns, Given, SleeperInv, KindInv, At, Goto, Meet, Met, Running,
         sched, Startup
<1>5. OneHas'
  BY <1>0
     DEF TypeOK, RendezvousTypeOK, OneHas, Has, Owns, Given, Gives, Awaits, WaitInv,
         WaitOK, GiveInv, QueueInv, At, Goto, Meet, Met, Running, sched, Startup
<1>6. SleeperInv'
  BY <1>0
     DEF TypeOK, RendezvousTypeOK, SleeperInv, WaitInv, WaitOK, At, Goto, Meet, Met,
         Running, sched, Startup
<1>7. KindInv'
  BY <1>0
     DEF TypeOK, RendezvousTypeOK, KindInv, HostLabels, At, Goto, Meet, Met, Running,
         sched, Startup
<1> QED
  BY <1>1, <1>2, <1>3, <1>4, <1>5, <1>6, <1>7

LEMMA StartupMeetKeeps ==
  ASSUME IndInv, NEW p \in Procs, StartupMeet(p)
  PROVE  IndInv'
<1> USE NoProcAssumption, VMAssumption DEF IndInv
<1>0. Queued' = Queued /\ vmq' = vmq
  BY DEF Queued, sched, StartupMeet
<1>1. TypeOK'
  BY <1>0
     DEF TypeOK, Labels, RendezvousTypeOK, At, Goto, Meet, Met, Running, sched,
         StartupMeet
<1>2. WaitInv'
  BY <1>0
     DEF TypeOK, RendezvousTypeOK, WaitInv, WaitOK, Awaits, At, Goto, Meet, Met,
         Running, sched, StartupMeet
<1>3. QueueInv'
  BY <1>0, QueuedType
     DEF TypeOK, RendezvousTypeOK, QueueInv, Awaits, WaitInv, WaitOK, At, Goto, Meet,
         Met, Running, sched, StartupMeet
<1>4. GiveInv'
  BY <1>0
     DEF TypeOK, RendezvousTypeOK, GiveInv, Gives, Awaits, WaitInv, WaitOK, At, Goto,
         Meet, Met, Running, sched, StartupMeet
<1>5. OneHas'
  BY <1>0
     DEF TypeOK, RendezvousTypeOK, OneHas, Has, Owns, Given, Gives, Awaits, WaitInv,
         WaitOK, GiveInv, QueueInv, At, Goto, Meet, Met, Running, sched, StartupMeet
<1>6. SleeperInv'
  BY <1>0
     DEF TypeOK, RendezvousTypeOK, SleeperInv, WaitInv, WaitOK, At, Goto, Meet, Met,
         Running, sched, StartupMeet
<1>7. KindInv'
  BY <1>0
     DEF TypeOK, RendezvousTypeOK, KindInv, HostLabels, At, Goto, Meet, Met, Running,
         sched, StartupMeet
<1> QED
  BY <1>1, <1>2, <1>3, <1>4, <1>5, <1>6, <1>7

LEMMA LoopKeeps ==
  ASSUME IndInv, NEW p \in Procs, Loop(p)
  PROVE  IndInv'
<1> USE NoProcAssumption, VMAssumption DEF IndInv
<1>0. Queued' = Queued /\ vmq' = vmq
  BY DEF Queued, sched, Loop
<1>1. TypeOK'
  BY <1>0
     DEF TypeOK, Labels, RendezvousTypeOK, At, Goto, Meet, Met, Running, sched, Loop,
         tready
<1>2. WaitInv'
  BY <1>0
     DEF TypeOK, RendezvousTypeOK, WaitInv, WaitOK, Awaits, At, Goto, Meet, Met,
         Running, sched, Loop, tready
<1>3. QueueInv'
  BY <1>0, QueuedType
     DEF TypeOK, RendezvousTypeOK, QueueInv, Awaits, WaitInv, WaitOK, At, Goto, Meet,
         Met, Running, sched, Loop, tready
<1>4. GiveInv'
  BY <1>0
     DEF TypeOK, RendezvousTypeOK, GiveInv, Gives, Awaits, WaitInv, WaitOK, At, Goto,
         Meet, Met, Running, sched, Loop, tready
<1>5. OneHas'
  BY <1>0
     DEF TypeOK, RendezvousTypeOK, OneHas, Has, Owns, Given, Gives, Awaits, WaitInv,
         WaitOK, GiveInv, QueueInv, At, Goto, Meet, Met, Running, sched, Loop, tready
<1>6. SleeperInv'
  BY <1>0
     DEF TypeOK, RendezvousTypeOK, SleeperInv, WaitInv, WaitOK, At, Goto, Meet, Met,
         Running, sched, Loop, tready
<1>7. KindInv'
  BY <1>0
     DEF TypeOK, RendezvousTypeOK, KindInv, HostLabels, At, Goto, Meet, Met, Running,
         sched, Loop, tready
<1> QED
  BY <1>1, <1>2, <1>3, <1>4, <1>5, <1>6, <1>7

LEMMA SleepKeeps ==
  ASSUME IndInv, NEW p \in Procs, Sleep(p)
  PROVE  IndInv'
<1> USE NoProcAssumption, VMAssumption DEF IndInv
<1>0. Queued' = Queued /\ vmq' = vmq
  BY DEF Queued, sched, Sleep
<1>1. TypeOK'
  BY <1>0
     DEF TypeOK, Labels, RendezvousTypeOK, KindInv, HostLabels, At, Goto, Meet, Met,
         Running, sched, Sleep, tready
<1>2. WaitInv'
  BY <1>0
     DEF TypeOK, RendezvousTypeOK, WaitInv, WaitOK, Awaits, At, Goto, Meet, Met,
         Running, sched, Sleep, tready
<1>3. QueueInv'
  BY <1>0, QueuedType
     DEF TypeOK, RendezvousTypeOK, QueueInv, Awaits, WaitInv, WaitOK, At, Goto, Meet,
         Met, Running, sched, Sleep, tready
<1>4. GiveInv'
  BY <1>0
     DEF TypeOK, RendezvousTypeOK, GiveInv, Gives, Awaits, WaitInv, WaitOK, At, Goto,
         Meet, Met, Running, sched, Sleep, tready
<1>5. OneHas'
  BY <1>0
     DEF TypeOK, RendezvousTypeOK, OneHas, Has, Owns, Given, Gives, Awaits, WaitInv,
         WaitOK, GiveInv, QueueInv, At, Goto, Meet, Met, Running, sched, Sleep, tready
<1>6. SleeperInv'
  BY <1>0
     DEF TypeOK, RendezvousTypeOK, SleeperInv, WaitInv, WaitOK, QueueInv, GiveInv,
         OneHas, Has, Owns, Given, Gives, Awaits, KindInv, At, Goto, Meet, Met,
         Running, sched, Sleep, tready
<1>7. KindInv'
  BY <1>0
     DEF TypeOK, RendezvousTypeOK, KindInv, HostLabels, At, Goto, Meet, Met, Running,
         sched, Sleep, tready
<1> QED
  BY <1>1, <1>2, <1>3, <1>4, <1>5, <1>6, <1>7

LEMMA SleepMeetKeeps ==
  ASSUME IndInv, NEW p \in Procs, SleepMeet(p)
  PROVE  IndInv'
<1> USE NoProcAssumption, VMAssumption DEF IndInv
<1>0. Queued' = Queued /\ vmq' = vmq
  BY DEF Queued, sched, SleepMeet
<1>1. TypeOK'
  BY <1>0
     DEF TypeOK, Labels, RendezvousTypeOK, At, Goto, Meet, Met, Running, sched,
         SleepMeet
<1>2. WaitInv'
  BY <1>0
     DEF TypeOK, RendezvousTypeOK, WaitInv, WaitOK, Awaits, At, Goto, Meet, Met,
         Running, sched, SleepMeet
<1>3. QueueInv'
  BY <1>0, QueuedType
     DEF TypeOK, RendezvousTypeOK, QueueInv, Awaits, WaitInv, WaitOK, At, Goto, Meet,
         Met, Running, sched, SleepMeet
<1>4. GiveInv'
  BY <1>0
     DEF TypeOK, RendezvousTypeOK, GiveInv, Gives, Awaits, WaitInv, WaitOK, At, Goto,
         Meet, Met, Running, sched, SleepMeet
<1>5. OneHas'
  BY <1>0
     DEF TypeOK, RendezvousTypeOK, OneHas, Has, Owns, Given, Gives, Awaits, WaitInv,
         WaitOK, GiveInv, QueueInv, At, Goto, Meet, Met, Running, sched, SleepMeet
<1>6. SleeperInv'
  BY <1>0
     DEF TypeOK, RendezvousTypeOK, SleeperInv, WaitInv, WaitOK, At, Goto, Meet, Met,
         Running, sched, SleepMeet
<1>7. KindInv'
  BY <1>0
     DEF TypeOK, RendezvousTypeOK, KindInv, HostLabels, At, Goto, Meet, Met, Running,
         sched, SleepMeet
<1> QED
  BY <1>1, <1>2, <1>3, <1>4, <1>5, <1>6, <1>7

LEMMA IYieldKeeps ==
  ASSUME IndInv, NEW p \in Procs, IYield(p)
  PROVE  IndInv'
<1> USE NoProcAssumption, VMAssumption DEF IndInv
<1>a. p \notin Queued
  BY DEF IYield, QueueInv, OneHas, GiveInv, At, Running, Awaits
<1>b. ASSUME yield # 0, vmq # <<>>
      PROVE  /\ vmq' \in Seq(Procs) /\ Head(vmq) \in Queued \ {p}
             /\ Queued' = (Queued \ {Head(vmq)}) \union {p} /\ Distinct(vmq')
  <2>1. /\ Tail(vmq) \in Seq(Procs) /\ Head(vmq) \in Queued
        /\ Members(Tail(vmq)) = Queued \ {Head(vmq)} /\ Distinct(Tail(vmq))
    BY <1>b, OffHead DEF TypeOK, QueueInv, Queued
  <2>2. vmq' = Append(Tail(vmq), p)
    BY <1>b DEF IYield
  <2>3. /\ vmq' \in Seq(Procs) /\ Distinct(vmq')
        /\ Members(vmq') = Members(Tail(vmq)) \union {p}
    BY <1>a, <2>1, <2>2, AtBack
  <2> QED
    BY <1>a, <2>1, <2>3 DEF Queued
<1>0. /\ yield = 0 \/ vmq = <<>> => vmq' = vmq /\ Queued' = Queued
      /\ yield # 0 /\ vmq # <<>> =>
           /\ vmq' \in Seq(Procs) /\ Head(vmq) \in Queued \ {p}
           /\ Queued' = (Queued \ {Head(vmq)}) \union {p} /\ Distinct(vmq')
  BY <1>b DEF IYield, Queued
<1>1. TypeOK'
  BY <1>0
     DEF TypeOK, Labels, RendezvousTypeOK, WaitInv, WaitOK, QueueInv, GiveInv, OneHas,
         Has, Owns, Given, Gives, Awaits, SleeperInv, KindInv, At, Goto, Meet, Met,
         Running, sched, IYield
<1>2. WaitInv'
  BY <1>0
     DEF TypeOK, RendezvousTypeOK, WaitInv, WaitOK, Awaits, QueueInv, GiveInv, OneHas,
         Has, Owns, Given, Gives, SleeperInv, KindInv, At, Goto, Meet, Met, Running,
         sched, IYield
<1>3. QueueInv'
  BY <1>0, QueuedType
     DEF TypeOK, RendezvousTypeOK, QueueInv, Awaits, WaitInv, WaitOK, GiveInv, OneHas,
         Has, Owns, Given, Gives, SleeperInv, KindInv, At, Goto, Meet, Met, Running,
         sched, IYield
<1>4. GiveInv'
  BY <1>0
     DEF TypeOK, RendezvousTypeOK, GiveInv, Gives, Awaits, WaitInv, WaitOK, QueueInv,
         OneHas, Has, Owns, Given, SleeperInv, KindInv, At, Goto, Meet, Met, Running,
         sched, IYield
<1>5. OneHas'
  <2>1. CASE yield = 0 \/ vmq = <<>>
    BY <1>0, <2>1
       DEF TypeOK, RendezvousTypeOK, OneHas, Has, Owns, Given, Gives, Awaits, WaitInv,
           WaitOK, At, Goto, Running, sched, IYield
  <2>2. CASE ~(yield = 0 \/ vmq = <<>>)
    <3>1. /\ to' = [to EXCEPT ![p] = Head(vmq)] /\ pc' = [pc EXCEPT ![p] = "yieldmeet"]
          /\ pc[p] = "yield?" /\ p \in Procs /\ UNCHANGED <<ht, idle>>
      BY <2>2 DEF IYield, At, Goto, Running
    <3>2. Owns(p) /\ ~idle
      BY <3>1 DEF Owns, OneHas, Has
    <3>3. \A q \in Procs \ {p} : ~Gives(q) /\ ~Given(q) /\ ~Owns(q)
      <4>1. \A q \in Procs \ {p} : ~Given(q) /\ ~Owns(q)
        BY <3>2 DEF OneHas, Has
      <4>2. \A q \in Procs : Gives(q) => Given(to[q]) /\ to[q] \in Procs /\ Awaits(to[q])
        BY DEF GiveInv, Given
      <4>3. ~Awaits(p)
        BY <3>1 DEF Awaits
      <4> QED
        BY <4>1, <4>2, <4>3
    <3>4. \A q \in Procs \ {p} : ~Gives(q)' /\ ~Owns(q)' /\ (Awaits(q)' <=> Awaits(q))
      BY <3>1, <3>3 DEF TypeOK, Gives, Owns, Awaits
    <3>5. Gives(p)' /\ ~Owns(p)'
      BY <3>1 DEF TypeOK, Gives, Owns
    <3>6. Head(vmq) \in Procs \ {p} /\ to'[p] = Head(vmq)
      BY <1>0, <2>2, <3>1 DEF TypeOK, Queued, Members
    <3>7. \A q \in Procs : Has(q)' => q = Head(vmq)
      <4>1. ASSUME NEW q \in Procs, Given(q)', q # Head(vmq)
            PROVE  Given(q)
        <5>1. \A y \in Procs : Gives(y)' => y = p
          BY <3>4
        <5>2. Awaits(q)' /\ ht'[q] \notin {q, NoProc}
          BY <3>6, <4>1, <5>1 DEF Given
        <5>3. Awaits(q) \/ q = p
          BY <3>4, <5>2
        <5>4. ht[p] \in {p, NoProc}
          BY <3>1 DEF WaitInv, WaitOK, Awaits
        <5> QED
          BY <3>1, <5>2, <5>3, <5>4 DEF Given
      <4>2. \A q \in Procs : Has(q)' => Given(q)'
        BY <3>4, <3>5 DEF Has
      <4>3. ~Given(p)'
        BY <3>1, <3>4, <3>6 DEF Given, WaitInv, WaitOK, Awaits
      <4> QED
        BY <3>3, <4>1, <4>2, <4>3
    <3> QED
      BY <3>1, <3>2, <3>4, <3>7 DEF OneHas
  <2> QED
    BY <2>1, <2>2
<1>6. SleeperInv'
  BY <1>0
     DEF TypeOK, RendezvousTypeOK, SleeperInv, WaitInv, WaitOK, QueueInv, GiveInv,
         OneHas, Has, Owns, Given, Gives, Awaits, KindInv, At, Goto, Meet, Met,
         Running, sched, IYield
<1>7. KindInv'
  BY <1>0
     DEF TypeOK, RendezvousTypeOK, KindInv, HostLabels, WaitInv, WaitOK, QueueInv,
         GiveInv, OneHas, Has, Owns, Given, Gives, Awaits, SleeperInv, At, Goto, Meet,
         Met, Running, sched, IYield
<1> QED
  BY <1>1, <1>2, <1>3, <1>4, <1>5, <1>6, <1>7

LEMMA IYieldMeetKeeps ==
  ASSUME IndInv, NEW p \in Procs, IYieldMeet(p)
  PROVE  IndInv'
<1> USE NoProcAssumption, VMAssumption DEF IndInv
<1>0. Queued' = Queued /\ vmq' = vmq
  BY DEF Queued, sched, IYieldMeet
<1>1. TypeOK'
  BY <1>0
     DEF TypeOK, Labels, RendezvousTypeOK, WaitInv, WaitOK, QueueInv, GiveInv, OneHas,
         Has, Owns, Given, Gives, Awaits, SleeperInv, KindInv, At, Goto, Meet, Met,
         Running, sched, IYieldMeet
<1>2. WaitInv'
  BY <1>0
     DEF TypeOK, RendezvousTypeOK, WaitInv, WaitOK, Awaits, QueueInv, GiveInv, OneHas,
         Has, Owns, Given, Gives, SleeperInv, KindInv, At, Goto, Meet, Met, Running,
         sched, IYieldMeet
<1>3. QueueInv'
  BY <1>0, QueuedType
     DEF TypeOK, RendezvousTypeOK, QueueInv, Awaits, WaitInv, WaitOK, GiveInv, OneHas,
         Has, Owns, Given, Gives, SleeperInv, KindInv, At, Goto, Meet, Met, Running,
         sched, IYieldMeet
<1>4. GiveInv'
  BY <1>0
     DEF TypeOK, RendezvousTypeOK, GiveInv, Gives, Awaits, WaitInv, WaitOK, QueueInv,
         OneHas, Has, Owns, Given, SleeperInv, KindInv, At, Goto, Meet, Met, Running,
         sched, IYieldMeet
<1>5. OneHas'
  BY <1>0
     DEF TypeOK, RendezvousTypeOK, OneHas, Has, Owns, Given, Gives, Awaits, WaitInv,
         WaitOK, GiveInv, QueueInv, SleeperInv, KindInv, At, Goto, Meet, Met, Running,
         sched, IYieldMeet
<1>6. SleeperInv'
  BY <1>0
     DEF TypeOK, RendezvousTypeOK, SleeperInv, WaitInv, WaitOK, QueueInv, GiveInv,
         OneHas, Has, Owns, Given, Gives, Awaits, KindInv, At, Goto, Meet, Met,
         Running, sched, IYieldMeet
<1>7. KindInv'
  BY <1>0
     DEF TypeOK, RendezvousTypeOK, KindInv, HostLabels, WaitInv, WaitOK, QueueInv,
         GiveInv, OneHas, Has, Owns, Given, Gives, Awaits, SleeperInv, At, Goto, Meet,
         Met, Running, sched, IYieldMeet
<1> QED
  BY <1>1, <1>2, <1>3, <1>4, <1>5, <1>6, <1>7

LEMMA IYieldWaitKeeps ==
  ASSUME IndInv, NEW p \in Procs, IYieldWait(p)
  PROVE  IndInv'
<1> USE NoProcAssumption, VMAssumption DEF IndInv
<1>0. Queued' = Queued /\ vmq' = vmq
  BY DEF Queued, sched, IYieldWait
<1>1. TypeOK'
  BY <1>0
     DEF TypeOK, Labels, RendezvousTypeOK, At, Goto, Meet, Met, Running, sched,
         IYieldWait
<1>2. WaitInv'
  BY <1>0
     DEF TypeOK, RendezvousTypeOK, WaitInv, WaitOK, Awaits, At, Goto, Meet, Met,
         Running, sched, IYieldWait
<1>3. QueueInv'
  BY <1>0, QueuedType
     DEF TypeOK, RendezvousTypeOK, QueueInv, Awaits, WaitInv, WaitOK, At, Goto, Meet,
         Met, Running, sched, IYieldWait
<1>4. GiveInv'
  BY <1>0
     DEF TypeOK, RendezvousTypeOK, GiveInv, Gives, Awaits, WaitInv, WaitOK, At, Goto,
         Meet, Met, Running, sched, IYieldWait
<1>5. OneHas'
  BY <1>0
     DEF TypeOK, RendezvousTypeOK, OneHas, Has, Owns, Given, Gives, Awaits, WaitInv,
         WaitOK, GiveInv, QueueInv, At, Goto, Meet, Met, Running, sched, IYieldWait
<1>6. SleeperInv'
  BY <1>0
     DEF TypeOK, RendezvousTypeOK, SleeperInv, WaitInv, WaitOK, At, Goto, Meet, Met,
         Running, sched, IYieldWait
<1>7. KindInv'
  BY <1>0
     DEF TypeOK, RendezvousTypeOK, KindInv, HostLabels, At, Goto, Meet, Met, Running,
         sched, IYieldWait
<1> QED
  BY <1>1, <1>2, <1>3, <1>4, <1>5, <1>6, <1>7

LEMMA DispatchKeeps ==
  ASSUME IndInv, NEW p \in Procs, Dispatch(p)
  PROVE  IndInv'
<1> USE NoProcAssumption, VMAssumption DEF IndInv
<1>0. Queued' = Queued /\ vmq' = vmq
  BY DEF Queued, sched, Dispatch
<1>1. TypeOK'
  BY <1>0
     DEF TypeOK, Labels, RendezvousTypeOK, At, Goto, Meet, Met, Running, sched,
         Dispatch
<1>2. WaitInv'
  BY <1>0
     DEF TypeOK, RendezvousTypeOK, WaitInv, WaitOK, Awaits, At, Goto, Meet, Met,
         Running, sched, Dispatch
<1>3. QueueInv'
  BY <1>0, QueuedType
     DEF TypeOK, RendezvousTypeOK, QueueInv, Awaits, WaitInv, WaitOK, At, Goto, Meet,
         Met, Running, sched, Dispatch
<1>4. GiveInv'
  BY <1>0
     DEF TypeOK, RendezvousTypeOK, GiveInv, Gives, Awaits, WaitInv, WaitOK, At, Goto,
         Meet, Met, Running, sched, Dispatch
<1>5. OneHas'
  BY <1>0
     DEF TypeOK, RendezvousTypeOK, OneHas, Has, Owns, Given, Gives, Awaits, WaitInv,
         WaitOK, GiveInv, QueueInv, At, Goto, Meet, Met, Running, sched, Dispatch
<1>6. SleeperInv'
  BY <1>0
     DEF TypeOK, RendezvousTypeOK, SleeperInv, WaitInv, WaitOK, At, Goto, Meet, Met,
         Running, sched, Dispatch
<1>7. KindInv'
  BY <1>0
     DEF TypeOK, RendezvousTypeOK, KindInv, HostLabels, At, Goto, Meet, Met, Running,
         sched, Dispatch
<1> QED
  BY <1>1, <1>2, <1>3, <1>4, <1>5, <1>6, <1>7

LEMMA XecDoneKeeps ==
  ASSUME IndInv, NEW p \in Procs, XecDone(p)
  PROVE  IndInv'
<1> USE NoProcAssumption, VMAssumption DEF IndInv
<1>0. Queued' = Queued /\ vmq' = vmq
  BY DEF Queued, sched, XecDone
<1>1. TypeOK'
  BY <1>0
     DEF TypeOK, Labels, RendezvousTypeOK, WaitInv, WaitOK, QueueInv, GiveInv, OneHas,
         Has, Owns, Given, Gives, Awaits, SleeperInv, KindInv, At, Goto, Meet, Met,
         Running, sched, XecDone
<1>2. WaitInv'
  BY <1>0
     DEF TypeOK, RendezvousTypeOK, WaitInv, WaitOK, Awaits, QueueInv, GiveInv, OneHas,
         Has, Owns, Given, Gives, SleeperInv, KindInv, At, Goto, Meet, Met, Running,
         sched, XecDone
<1>3. QueueInv'
  BY <1>0, QueuedType
     DEF TypeOK, RendezvousTypeOK, QueueInv, Awaits, WaitInv, WaitOK, GiveInv, OneHas,
         Has, Owns, Given, Gives, SleeperInv, KindInv, At, Goto, Meet, Met, Running,
         sched, XecDone
<1>4. GiveInv'
  BY <1>0
     DEF TypeOK, RendezvousTypeOK, GiveInv, Gives, Awaits, WaitInv, WaitOK, QueueInv,
         OneHas, Has, Owns, Given, SleeperInv, KindInv, At, Goto, Meet, Met, Running,
         sched, XecDone
<1>5. OneHas'
  BY <1>0
     DEF TypeOK, RendezvousTypeOK, OneHas, Has, Owns, Given, Gives, Awaits, WaitInv,
         WaitOK, GiveInv, QueueInv, SleeperInv, KindInv, At, Goto, Meet, Met, Running,
         sched, XecDone
<1>6. SleeperInv'
  BY <1>0
     DEF TypeOK, RendezvousTypeOK, SleeperInv, WaitInv, WaitOK, QueueInv, GiveInv,
         OneHas, Has, Owns, Given, Gives, Awaits, KindInv, At, Goto, Meet, Met,
         Running, sched, XecDone
<1>7. KindInv'
  BY <1>0
     DEF TypeOK, RendezvousTypeOK, KindInv, HostLabels, WaitInv, WaitOK, QueueInv,
         GiveInv, OneHas, Has, Owns, Given, Gives, Awaits, SleeperInv, At, Goto, Meet,
         Met, Running, sched, XecDone
<1> QED
  BY <1>1, <1>2, <1>3, <1>4, <1>5, <1>6, <1>7

LEMMA ReadyKeeps ==
  ASSUME IndInv, NEW p \in Procs, Ready(p)
  PROVE  IndInv'
<1> USE NoProcAssumption, VMAssumption DEF IndInv
<1>0. Queued' = Queued /\ vmq' = vmq
  BY DEF Queued, sched, Ready
<1>1. TypeOK'
  BY <1>0
     DEF TypeOK, Labels, RendezvousTypeOK, At, Goto, Meet, Met, Running, sched, Ready
<1>2. WaitInv'
  BY <1>0
     DEF TypeOK, RendezvousTypeOK, WaitInv, WaitOK, Awaits, At, Goto, Meet, Met,
         Running, sched, Ready
<1>3. QueueInv'
  BY <1>0, QueuedType
     DEF TypeOK, RendezvousTypeOK, QueueInv, Awaits, WaitInv, WaitOK, At, Goto, Meet,
         Met, Running, sched, Ready
<1>4. GiveInv'
  BY <1>0
     DEF TypeOK, RendezvousTypeOK, GiveInv, Gives, Awaits, WaitInv, WaitOK, At, Goto,
         Meet, Met, Running, sched, Ready
<1>5. OneHas'
  BY <1>0
     DEF TypeOK, RendezvousTypeOK, OneHas, Has, Owns, Given, Gives, Awaits, WaitInv,
         WaitOK, GiveInv, QueueInv, At, Goto, Meet, Met, Running, sched, Ready
<1>6. SleeperInv'
  BY <1>0
     DEF TypeOK, RendezvousTypeOK, SleeperInv, WaitInv, WaitOK, At, Goto, Meet, Met,
         Running, sched, Ready
<1>7. KindInv'
  BY <1>0
     DEF TypeOK, RendezvousTypeOK, KindInv, HostLabels, At, Goto, Meet, Met, Running,
         sched, Ready
<1> QED
  BY <1>1, <1>2, <1>3, <1>4, <1>5, <1>6, <1>7

(* release and disfault. *)
LEMMA GiveUpKeeps ==
  ASSUME IndInv, NEW p \in Procs, Running(p), pc[p] \in {"run", "in"},
         NEW handing \in {"relmeet", "diemeet"}, NEW label \in {"out", "unborn"},
         p \notin Interps => handing = "relmeet" /\ label = "out",
         GiveUp(p, handing, label)
  PROVE  IndInv'
<1> USE NoProcAssumption, VMAssumption DEF IndInv
<1>1. CASE GiveIdle
  <2>0. PICK n \in Interps :
          pc[n] = "unborn" /\ pc' = [pc EXCEPT ![p] = label, ![n] = "start"]
    BY <1>1 DEF GiveUp, GiveIdle, GiveHead
  <2>a. /\ nrun' = nrun - 1 /\ idle' = TRUE /\ vmq = <<>> /\ vmq' = <<>>
        /\ UNCHANGED <<ht, yield, irend, irendl, to>>
    BY <1>1 DEF GiveUp, GiveIdle
  <2>1. TypeOK'
    BY <2>0, <2>a DEF TypeOK, Labels, RendezvousTypeOK, KindInv, At, Running
  <2>b. Queued = {} /\ Queued' = {} /\ Distinct(vmq')
    BY <2>a DEF Queued, Members, Distinct
  <2>2. WaitInv'
    BY <2>0, <2>a, <2>b
       DEF TypeOK, RendezvousTypeOK, WaitInv, WaitOK, Awaits, QueueInv, GiveInv,
           OneHas, Has, Owns, Given, Gives, SleeperInv, KindInv, At, Running
  <2>3. QueueInv'
    BY <2>0, <2>a, <2>b
       DEF TypeOK, RendezvousTypeOK, QueueInv, Awaits, WaitInv, WaitOK, GiveInv,
           OneHas, Has, Owns, Given, Gives, SleeperInv, KindInv, At, Running
  <2>4. GiveInv'
    BY <2>0, <2>a, <2>b
       DEF TypeOK, RendezvousTypeOK, GiveInv, Gives, Awaits, WaitInv, WaitOK,
           QueueInv, OneHas, Has, Owns, Given, SleeperInv, KindInv, At, Running
  <2>5. OneHas'
    BY <2>0, <2>a, <2>b
       DEF TypeOK, RendezvousTypeOK, OneHas, Has, Owns, Given, Gives, Awaits,
           WaitInv, WaitOK, GiveInv, QueueInv, SleeperInv, KindInv, At, Running
  <2>6. SleeperInv'
    BY <2>0, <2>a, <2>b
       DEF TypeOK, RendezvousTypeOK, SleeperInv, WaitInv, WaitOK, QueueInv, GiveInv,
           OneHas, Has, Owns, Given, Gives, Awaits, KindInv, At, Running
  <2>7. KindInv'
    BY <2>0, <2>a, <2>b
       DEF TypeOK, RendezvousTypeOK, KindInv, HostLabels, WaitInv, WaitOK, QueueInv,
           GiveInv, OneHas, Has, Owns, Given, Gives, Awaits, SleeperInv, At, Running
  <2> QED
    BY <2>1, <2>2, <2>3, <2>4, <2>5, <2>6, <2>7
<1>2. CASE ~GiveIdle
  <2>0. /\ nrun' = nrun - 1 /\ UNCHANGED <<ht, yield, irend, irendl, idle>>
        /\ vmq # <<>> /\ vmq' = Tail(vmq)
        /\ to' = [to EXCEPT ![p] = Head(vmq)] /\ pc' = [pc EXCEPT ![p] = handing]
    BY <1>2 DEF GiveUp, GiveHead, Goto
  <2>a. /\ vmq' \in Seq(Procs) /\ Head(vmq) \in Queued
        /\ Queued' = Queued \ {Head(vmq)} /\ Distinct(vmq')
    BY <2>0, OffHead DEF TypeOK, QueueInv, Queued
  <2>b. Head(vmq) \in Procs \ {p} /\ Awaits(Head(vmq))
    BY <2>a, QueuedType DEF QueueInv, Awaits
  <2>1. TypeOK'
    BY <2>0, <2>a, <2>b DEF TypeOK, Labels, RendezvousTypeOK, KindInv, At, Running
  <2>2. WaitInv'
    BY <2>0, <2>a, <2>b
       DEF TypeOK, RendezvousTypeOK, WaitInv, WaitOK, Awaits, QueueInv, GiveInv,
           OneHas, Has, Owns, Given, Gives, SleeperInv, KindInv, At, Running
  <2>3. QueueInv'
    BY <2>0, <2>a, <2>b, QueuedType
       DEF TypeOK, RendezvousTypeOK, QueueInv, Awaits, WaitInv, WaitOK, GiveInv,
           OneHas, Has, Owns, Given, Gives, SleeperInv, KindInv, At, Running
  <2>4. GiveInv'
    BY <2>0, <2>a, <2>b
       DEF TypeOK, RendezvousTypeOK, GiveInv, Gives, Awaits, WaitInv, WaitOK,
           QueueInv, OneHas, Has, Owns, Given, SleeperInv, KindInv, At, Running
  <2>5. OneHas'
    <3>1. Owns(p) /\ Has(p) /\ ~idle
      BY DEF Owns, Has, OneHas
    <3>2. \A q \in Procs : ~Gives(q)
      BY <3>1 DEF OneHas, Has, Given, GiveInv, Awaits, Owns
    <3>3. \A q \in Procs : Gives(q)' => q = p /\ to'[q] = Head(vmq)
      BY <2>0, <3>2 DEF Gives, TypeOK
    <3>4. \A q \in Procs : ~Owns(q)'
      BY <2>0, <3>1 DEF Owns, Has, OneHas, TypeOK
    <3>5. ASSUME NEW q \in Procs, Given(q)'
          PROVE  q = Head(vmq)
      <4>1. CASE Awaits(q)' /\ ht'[q] \notin {q, NoProc}
        <5>1. q # p
          BY <2>0, <4>1 DEF Awaits, TypeOK
        <5>2. Given(q)
          BY <2>0, <4>1, <5>1 DEF Given, Awaits, TypeOK
        <5> QED
          BY <3>1, <5>1, <5>2 DEF OneHas, Has
      <4> QED
        BY <3>3, <3>5, <4>1 DEF Given
    <3> QED
      BY <2>0, <3>1, <3>3, <3>4, <3>5 DEF OneHas, Has
  <2>6. SleeperInv'
    BY <2>0, <2>a, <2>b
       DEF TypeOK, RendezvousTypeOK, SleeperInv, WaitInv, WaitOK, QueueInv, GiveInv,
           OneHas, Has, Owns, Given, Gives, Awaits, KindInv, At, Running
  <2>7. KindInv'
    BY <2>0, <2>a, <2>b
       DEF TypeOK, RendezvousTypeOK, KindInv, HostLabels, WaitInv, WaitOK, QueueInv,
           GiveInv, OneHas, Has, Owns, Given, Gives, Awaits, SleeperInv, At, Running
  <2> QED
    BY <2>1, <2>2, <2>3, <2>4, <2>5, <2>6, <2>7
<1> QED
  BY <1>1, <1>2

LEMMA ReleaseKeeps == ASSUME IndInv, NEW p \in Procs, Release(p) PROVE IndInv'
BY GiveUpKeeps DEF Release, At

LEMMA FaultKeeps == ASSUME IndInv, NEW p \in Procs, Fault(p) PROVE IndInv'
BY GiveUpKeeps DEF Fault, At, IndInv, KindInv, HostLabels

LEMMA InitInv == Init => IndInv
<1> SUFFICES ASSUME Init PROVE IndInv
  OBVIOUS
<1> USE NoProcAssumption, VMAssumption DEF Init, RendezvousInit
<1>1. TypeOK
  BY DEF TypeOK, RendezvousTypeOK, Labels
<1>2. Queued = {} /\ Distinct(vmq)
  BY DEF Queued, Members, Distinct
<1>3. WaitInv /\ QueueInv /\ SleeperInv
  BY <1>2 DEF WaitInv, WaitOK, QueueInv, SleeperInv
<1>4. \A p \in Procs : ~Owns(p) /\ ~Awaits(p) /\ ~Gives(p) /\ ~Given(p)
  BY DEF Owns, Awaits, Gives, Given
<1>5. GiveInv /\ OneHas /\ KindInv
  BY <1>4 DEF GiveInv, OneHas, Has, KindInv, HostLabels
<1> QED
  BY <1>1, <1>3, <1>5 DEF IndInv

LEMMA StutterKeeps == IndInv /\ UNCHANGED vars => IndInv'
<1> SUFFICES ASSUME IndInv, UNCHANGED vars PROVE IndInv'
  OBVIOUS
<1> USE DEF vars, IndInv
<1>1. Queued' = Queued
  BY DEF Queued
<1>2. TypeOK' /\ WaitInv' /\ QueueInv' /\ GiveInv'
  BY <1>1
     DEF TypeOK, RendezvousTypeOK, WaitInv, WaitOK, Awaits, QueueInv, GiveInv, Gives
<1>3. OneHas' /\ SleeperInv' /\ KindInv'
  BY DEF OneHas, Has, Owns, Given, Gives, Awaits, SleeperInv, KindInv
<1> QED
  BY <1>2, <1>3

LEMMA InductiveStep == IndInv /\ [Next]_vars => IndInv'
<1> SUFFICES ASSUME IndInv, [Next]_vars PROVE IndInv'
  OBVIOUS
<1>1. CASE UNCHANGED vars
  BY <1>1, StutterKeeps
<1>2. ASSUME NEW p \in Procs, AcquireIdle(p) \/ AcquireQueue(p) \/ Ready(p)
      PROVE  IndInv'
  BY <1>2, AcquireIdleKeeps, AcquireQueueKeeps, ReadyKeeps
<1>3. ASSUME NEW p \in Procs, Proceed(p)
      PROVE  IndInv'
  BY <1>3, WakeupIrendKeeps, WakeupDoneKeeps, AcquireMeetKeeps, AcquireDoneKeeps,
     ReleaseKeeps, FaultKeeps, ReleaseMeetKeeps, StartupKeeps, StartupMeetKeeps,
     LoopKeeps, SleepKeeps, SleepMeetKeeps, IYieldKeeps, IYieldMeetKeeps,
     IYieldWaitKeeps, DispatchKeeps, XecDoneKeeps DEF Proceed
<1> QED
  BY <1>1, <1>2, <1>3 DEF Next

(* The invariant holds initially and every step of every thread keeps it:  *)
(* each thread waits under a tag that says why, each queued thread is      *)
(* queued once, and the machine is owned by, or on its way to, one thread. *)
THEOREM Inductive == Spec => []IndInv
BY InitInv, InductiveStep, PTL DEF Spec

LEMMA InsideOwns ==
  ASSUME IndInv, NEW p \in Procs, Inside(p)
  PROVE  Has(p)
BY DEF Inside, Has, Owns, Running

-----------------------------------------------------------------------------
(* Whatever threads the host starts and whenever they call acquire and     *)
(* release, no two of them are ever inside the Dis machine.                *)
THEOREM MachineExclusive == Spec => []OneInside
<1>1. IndInv => OneInside
  BY InsideOwns DEF OneInside, IndInv, OneHas
<1> QED
  BY <1>1, Inductive, PTL

(* isched.idle is set only while nobody is inside and nobody waits, so     *)
(* that the thread that clears it may enter.                               *)
THEOREM IdleIsFree == Spec => []IdleMeansFree
<1>1. IndInv => IdleMeansFree
  BY InsideOwns DEF IdleMeansFree, IndInv, OneHas
<1> QED
  BY <1>1, Inductive, PTL

(* Sleep finds no other process in isched.irend, and does not panic.       *)
THEOREM SleepSafe == Spec => []NoSleepPanic
<1>1. IndInv => NoSleepPanic
  <2> SUFFICES ASSUME IndInv, NEW p \in Procs, At(p, "sleep"), irend # NoProc
               PROVE  FALSE
    BY DEF NoSleepPanic
  <2>1. Owns(p) /\ Owns(irend) /\ irend \in Procs
    BY VMAssumption DEF IndInv, TypeOK, SleeperInv, Owns, At
  <2>2. irend = p
    BY <2>1 DEF IndInv, OneHas, Has
  <2> QED
    BY <2>2 DEF IndInv, SleeperInv, At
<1> QED
  BY <1>1, Inductive, PTL

-----------------------------------------------------------------------------
(* A step that leaves vmq alone, and in which nobody in it comes to ask. *)
LEMMA AskAlone ==
  ASSUME IndInv, AskInv, vmq' = vmq, yield' = yield \/ vmq = <<>>,
         \A q \in Queued : Asks(q)' => Asks(q)
  PROVE  AskInv'
<1>1. \A i \in DOMAIN vmq : vmq[i] \in Queued
  BY DEF Queued, Members
<1>2. ASSUME vmq = <<>> PROVE DOMAIN vmq = {}
  BY <1>2
<1> QED
  BY <1>1, <1>2 DEF AskInv, Asks

(* p joins at the back and does not ask. *)
LEMMA AskBack ==
  ASSUME IndInv, AskInv, NEW p \in Procs, vmq' = Append(vmq, p), yield' = yield,
         \A q \in Procs : Asks(q)' => Asks(q) /\ q # p
  PROVE  AskInv'
<1>1. /\ vmq \in Seq(Procs) /\ DOMAIN vmq' = 1..(Len(vmq) + 1) /\ DOMAIN vmq = 1..Len(vmq)
      /\ vmq'[Len(vmq) + 1] = p /\ \A i \in 1..Len(vmq) : vmq'[i] = vmq[i]
      /\ Len(vmq) \in Nat
  BY DEF IndInv, TypeOK
<1>2. \A i \in 1..(Len(vmq) + 1) : i \in 1..Len(vmq) \/ i = Len(vmq) + 1
  BY <1>1
<1>3. \A i \in 1..Len(vmq) : vmq[i] \in Procs
  BY <1>1
<1> QED
  BY <1>1, <1>2, <1>3 DEF AskInv, Asks

(* The head leaves; those of s, who do not ask, join at the back. *)
LEMMA AskOff ==
  ASSUME IndInv, AskInv, NEW s \in Seq(Procs), vmq # <<>>,
         vmq' = Tail(vmq) \o s, yield' \in {yield, yield - 1},
         \A q \in Procs : Asks(q)' => Asks(q),
         \A i \in DOMAIN s : ~Asks(s[i])'
  PROVE  AskInv'
<1>1. /\ vmq \in Seq(Procs) /\ DOMAIN vmq = 1..Len(vmq) /\ Len(vmq) \in Nat \ {0}
      /\ Len(s) \in Nat /\ DOMAIN s = 1..Len(s) /\ yield \in Nat
      /\ DOMAIN vmq' = 1..(Len(vmq) - 1 + Len(s))
  BY VMAssumption DEF IndInv, TypeOK
<1>2. /\ \A i \in 1..(Len(vmq) - 1) : vmq'[i] = vmq[i + 1] /\ vmq[i + 1] \in Procs
      /\ \A i \in 1..Len(s) : vmq'[Len(vmq) - 1 + i] = s[i]
  BY <1>1
<1> SUFFICES ASSUME NEW i \in 1..(Len(vmq) - 1 + Len(s)), Asks(vmq[i])'
             PROVE  i <= yield'
  BY <1>1 DEF AskInv
<1>3. CASE i \in 1..(Len(vmq) - 1)
  <2>1. i + 1 \in DOMAIN vmq /\ Asks(vmq[i + 1])
    BY <1>1, <1>2, <1>3 DEF Asks
  <2>2. i + 1 <= yield
    BY <2>1 DEF AskInv
  <2> QED
    BY <2>2, <1>1, <1>3
<1>4. CASE i \notin 1..(Len(vmq) - 1)
  <2>1. i - (Len(vmq) - 1) \in 1..Len(s)
    BY <1>1, <1>4
  <2>2. vmq'[i] = s[i - (Len(vmq) - 1)]
    BY <1>1, <1>2, <2>1
  <2> QED
    BY <1>1, <2>1, <2>2 DEF Asks
<1> QED
  BY <1>3, <1>4

(* release and disfault. *)
LEMMA AskGiveUp ==
  ASSUME IndInv, AskInv, NEW p \in Procs, NEW handing \in {"relmeet", "diemeet"},
         NEW label \in {"out", "unborn"}, GiveUp(p, handing, label)
  PROVE  AskInv'
<1>1. yield' = yield /\ \A q \in Procs : Asks(q)' => Asks(q)
  BY DEF IndInv, TypeOK, GiveUp, Goto, Asks
<1>2. CASE vmq' = vmq
  BY <1>1, <1>2, AskAlone, QueuedType DEF IndInv
<1>3. CASE vmq # <<>> /\ vmq' = Tail(vmq)
  <2>1. Tail(vmq) \in Seq(Procs) /\ Tail(vmq) = Tail(vmq) \o <<>>
    BY <1>3 DEF IndInv, TypeOK
  <2> QED
    <3>1. <<>> \in Seq(Procs) /\ DOMAIN <<>> = {}
      OBVIOUS
    <3>2. \A i \in DOMAIN <<>> : ~Asks(<<>>[i])'
      BY <3>1
    <3> QED
      BY <1>1, <1>3, <2>1, <3>1, <3>2, AskOff
<1> QED
  BY <1>2, <1>3 DEF GiveUp, GiveIdle, GiveHead

LEMMA AskStep == IndInv /\ AskInv /\ [Next]_vars => AskInv'
<1> SUFFICES ASSUME IndInv, AskInv, [Next]_vars PROVE AskInv'
  OBVIOUS
<1>1. CASE UNCHANGED vars
  BY <1>1 DEF AskInv, Asks, vars
<1>2. ASSUME NEW p \in Procs, AcquireQueue(p)
      PROVE  AskInv'
  <2>1. /\ vmq' = <<p>> \o vmq /\ yield' = yield + 1
        /\ \A q \in Procs \ {p} : Asks(q)' = Asks(q)
    BY <1>2 DEF IndInv, TypeOK, AcquireQueue, Goto, At, Asks
  <2>2. vmq \in Seq(Procs) /\ yield \in Nat /\ p \notin Queued
    BY <1>2, VMAssumption DEF IndInv, TypeOK, QueueInv, Awaits, AcquireQueue, At
  <2>3. \A i \in DOMAIN vmq' : i = 1 \/ (i - 1 \in DOMAIN vmq /\ vmq'[i] = vmq[i - 1])
    BY <2>1, <2>2
  <2>4. \A i \in DOMAIN vmq : i \in Nat \ {0} /\ vmq[i] \in Procs \ {p}
    BY <2>2 DEF Queued, Members
  <2>5. \A i \in DOMAIN vmq' : i \in Nat
    BY <2>1, <2>2
  <2> QED
    BY <2>1, <2>2, <2>3, <2>4, <2>5 DEF AskInv, Asks
<1>3. ASSUME NEW p \in Procs, Startup(p)
      PROVE  AskInv'
  <2>1. yield' = yield /\ \A q \in Procs : Asks(q)' => Asks(q) /\ q # p
    BY <1>3 DEF IndInv, TypeOK, Startup, Goto, At, Asks
  <2> QED
    BY <1>3, <2>1, AskAlone, AskBack, QueuedType DEF IndInv, Startup
<1>4. ASSUME NEW p \in Procs, IYield(p)
      PROVE  AskInv'
  <2>1. \A q \in Procs : Asks(q)' => Asks(q) /\ q # p
    BY <1>4 DEF IndInv, TypeOK, IYield, Goto, At, Asks
  <2>2. CASE yield = 0 \/ vmq = <<>>
    <3>1. vmq' = vmq /\ (yield' = yield \/ vmq = <<>>)
      BY <1>4, <2>2 DEF IYield
    <3> QED
      BY <2>1, <3>1, AskAlone, QueuedType DEF IndInv
  <2>3. CASE yield # 0 /\ vmq # <<>>
    <3>1. Tail(vmq) \in Seq(Procs) /\ <<p>> \in Seq(Procs) /\ DOMAIN <<p>> = {1}
      BY <2>3 DEF IndInv, TypeOK
    <3>2. vmq' = Append(Tail(vmq), p) /\ yield' = yield - 1
      BY <1>4, <2>3 DEF IYield
    <3>4. Append(Tail(vmq), p) = Tail(vmq) \o <<p>>
      BY <3>1
    <3>3. \A i \in DOMAIN <<p>> : ~Asks(<<p>>[i])'
      BY <2>1, <3>1 DEF Asks
    <3> QED
      BY <2>1, <2>3, <3>1, <3>2, <3>3, <3>4, AskOff
  <2> QED
    BY <2>2, <2>3
<1>5. ASSUME NEW p \in Procs, Release(p) \/ Fault(p)
      PROVE  AskInv'
  BY <1>5, AskGiveUp DEF Release, Fault
<1>6. ASSUME NEW p \in Procs, AcquireIdle(p)
      PROVE  AskInv'
  <2>1. \A q \in Queued : Asks(q)' => Asks(q)
    BY <1>6, QueuedType DEF IndInv, TypeOK, QueueInv, Awaits, AcquireIdle, Goto, At, Asks
  <2> QED
    BY <1>6, <2>1, AskAlone DEF AcquireIdle
<1>7. ASSUME NEW p \in Procs,
             \/ Ready(p) \/ WakeupIrend(p) \/ WakeupDone(p) \/ AcquireMeet(p) \/ AcquireDone(p)
             \/ ReleaseMeet(p) \/ StartupMeet(p) \/ Loop(p) \/ Sleep(p) \/ SleepMeet(p)
             \/ IYieldMeet(p) \/ IYieldWait(p) \/ Dispatch(p) \/ XecDone(p)
      PROVE  AskInv'
  <2>1. vmq' = vmq /\ yield' = yield
    BY <1>7 DEF Ready, WakeupIrend, WakeupDone, AcquireMeet, AcquireDone, ReleaseMeet,
         StartupMeet, Loop, Sleep, SleepMeet, IYieldMeet, IYieldWait, Dispatch, XecDone,
         sched
  <2>2. \A q \in Procs : Asks(q)' => Asks(q)
    BY <1>7 DEF IndInv, TypeOK, Ready, WakeupIrend, WakeupDone, AcquireMeet, AcquireDone,
         ReleaseMeet, StartupMeet, Loop, Sleep, SleepMeet, IYieldMeet, IYieldWait,
         Dispatch, XecDone, Goto, At, Asks
  <2> QED
    BY <2>1, <2>2, AskAlone, QueuedType DEF IndInv
<1> QED
  BY <1>1, <1>2, <1>3, <1>4, <1>5, <1>6, <1>7 DEF Next, Proceed

(* isched.yield is never smaller than the number of threads that wait in   *)
(* acquire, so that the owner of the machine sees that it has to yield.    *)
THEOREM YieldCovers == Spec => []YieldCoversQueue
<1>1. Init => AskInv
  BY DEF Init, AskInv
<1>2. IndInv /\ AskInv => YieldCoversQueue
  <2> SUFFICES ASSUME IndInv, AskInv PROVE Cardinality(Asking) <= yield
    BY DEF YieldCoversQueue
  <2>1. yield \in Nat /\ Asking \subseteq 1..yield
    BY VMAssumption DEF IndInv, TypeOK, AskInv, Asks, Asking
  <2>2. IsFiniteSet(1..yield) /\ Cardinality(1..yield) = yield
    BY <2>1, FS_Interval
  <2>3. Cardinality(Asking) <= Cardinality(1..yield)
    BY <2>1, <2>2, FS_Subset
  <2> QED
    BY <2>2, <2>3
<1>3. Init => IndInv
  BY InitInv
<1>4. IndInv /\ [Next]_vars => IndInv'
  BY InductiveStep
<1> QED
  BY <1>1, <1>2, <1>3, <1>4, AskStep, PTL DEF Spec
=============================================================================
