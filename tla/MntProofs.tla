----------------------------- MODULE MntProofs ------------------------------
(***************************************************************************)
(* Proofs about Mnt, for any set of processes, tags and flushes and any    *)
(* server: where the Mntrpcs are, who has the gate, and that a call gets   *)
(* the answer to what it asked.                                            *)
(***************************************************************************)
EXTENDS Mnt, Queues, FiniteSetTheorems, TLAPS

-----------------------------------------------------------------------------
(* Queues. *)

(* A process joins a queue at the front. *)
LEMMA AtFront ==
  ASSUME NEW S, NEW s \in Seq(S), NEW p \in S, Distinct(s), p \notin Members(s)
  PROVE  /\ <<p>> \o s \in Seq(S)
         /\ Members(<<p>> \o s) = Members(s) \union {p}
         /\ Distinct(<<p>> \o s)
<1> DEFINE n == <<p>> \o s
<1>1. /\ n \in Seq(S) /\ n[1] = p /\ Len(s) \in Nat
      /\ DOMAIN n = 1..(Len(s) + 1) /\ DOMAIN s = 1..Len(s)
      /\ \A i \in 1..Len(s) : n[i + 1] = s[i]
  OBVIOUS
<1> HIDE DEF n
<1>2. \A i \in 1..(Len(s) + 1) : i = 1 \/ (i - 1 \in 1..Len(s) /\ n[i] = s[i - 1])
  BY <1>1
<1>3. \A i \in 1..Len(s) : i + 1 \in 1..(Len(s) + 1)
  BY <1>1
<1>4. Members(n) = Members(s) \union {p}
  <2>1. \A i \in 1..(Len(s) + 1) : n[i] \in Members(s) \union {p}
    BY <1>1, <1>2 DEF Members
  <2>2. p \in Members(n) /\ Members(n) \subseteq Members(s) \union {p}
    <3>1. 1 \in DOMAIN n
      BY <1>1
    <3> QED
      BY <1>1, <2>1, <3>1 DEF Members
  <2>3. Members(s) \subseteq Members(n)
    BY <1>1, <1>3 DEF Members
  <2> QED
    BY <2>2, <2>3
<1>5. Distinct(n)
  <2> SUFFICES ASSUME NEW i \in 1..(Len(s) + 1), NEW j \in 1..(Len(s) + 1), n[i] = n[j]
               PROVE  i = j
    BY <1>1 DEF Distinct
  <2>1. \A m \in 1..Len(s) : s[m] # p
    BY <1>1 DEF Members
  <2>2. CASE i = 1 \/ j = 1
    <3>1. \A m \in 1..(Len(s) + 1) : n[m] = p => m = 1
      BY <1>2, <2>1
    <3> QED
      BY <1>1, <2>2, <3>1
  <2>3. CASE i # 1 /\ j # 1
    <3>1. i - 1 \in DOMAIN s /\ j - 1 \in DOMAIN s /\ s[i - 1] = s[j - 1]
      BY <1>1, <1>2, <2>3
    <3>2. i - 1 = j - 1
      BY <3>1, Zenon DEF Distinct
    <3> QED
      BY <1>1, <3>2
  <2> QED
    BY <2>2, <2>3
<1> QED
  BY <1>1, <1>4, <1>5 DEF n

(* The head of a queue leaves it. *)
LEMMA OffHead ==
  ASSUME NEW S, NEW s \in Seq(S), s # <<>>, Distinct(s)
  PROVE  /\ Head(s) \in S /\ Tail(s) \in Seq(S)
         /\ Head(s) \in Members(s)
         /\ Members(Tail(s)) = Members(s) \ {Head(s)}
         /\ Distinct(Tail(s))
<1>1. /\ Head(s) \in S /\ Tail(s) \in Seq(S) /\ Head(s) = s[1]
      /\ DOMAIN s = 1..Len(s) /\ DOMAIN Tail(s) = 1..(Len(s) - 1)
      /\ \A i \in 1..(Len(s) - 1) : Tail(s)[i] = s[i + 1]
      /\ Len(s) \in Nat \ {0}
  OBVIOUS
<1>2. \A i \in 1..Len(s) : i = 1 \/ i - 1 \in 1..(Len(s) - 1)
  BY <1>1
<1>3. \A i \in 1..(Len(s) - 1) : i + 1 \in 1..Len(s) /\ i + 1 # 1
  BY <1>1
<1>4. Head(s) \in Members(s)
  BY <1>1 DEF Members
<1>5. Members(Tail(s)) = Members(s) \ {Head(s)}
  <2>1. \A v \in Members(Tail(s)) : v \in Members(s) \ {Head(s)}
    BY <1>1, <1>3 DEF Members, Distinct
  <2>2. \A i \in 1..Len(s) : i # 1 => s[i] = Tail(s)[i - 1]
    BY <1>1
  <2>3. \A v \in Members(s) \ {Head(s)} : v \in Members(Tail(s))
    BY <1>1, <1>2, <2>2 DEF Members
  <2> QED
    BY <2>1, <2>3
<1>6. Distinct(Tail(s))
  BY <1>1, <1>3 DEF Distinct
<1> QED
  BY <1>1, <1>4, <1>5, <1>6

(* One leaves a queue, wherever it is. *)
LEMMA OffAny ==
  ASSUME NEW S, NEW s \in Seq(S), NEW i \in DOMAIN s, Distinct(s)
  PROVE  LET t == SubSeq(s, 1, i - 1) \o SubSeq(s, i + 1, Len(s)) IN
         /\ t \in Seq(S)
         /\ Members(t) = Members(s) \ {s[i]}
         /\ Distinct(t)
<1> DEFINE t == SubSeq(s, 1, i - 1) \o SubSeq(s, i + 1, Len(s))
           n == Len(s)
<1>1. n \in Nat /\ DOMAIN s = 1..n /\ i \in 1..n
  OBVIOUS
<1>2. /\ t \in Seq(S) /\ DOMAIN t = 1..(n - 1)
      /\ \A j \in 1..(n - 1) : t[j] = s[IF j < i THEN j ELSE j + 1]
  <2> DEFINE u == SubSeq(s, 1, i - 1)
             v == SubSeq(s, i + 1, n)
  <2>1. /\ u \in Seq(S) /\ Len(u) = i - 1
        /\ \A j \in 1..(i - 1) : u[j] = s[j]
    BY <1>1
  <2>2. /\ v \in Seq(S) /\ Len(v) = n - i
        /\ \A j \in 1..(n - i) : v[j] = s[j + i]
    BY <1>1
  <2>5. t = u \o v
    OBVIOUS
  <2> HIDE DEF u, v, t, n
  <2>6. n \in Nat /\ i \in 1..n /\ DOMAIN (u \o v) = 1..Len(u \o v)
    BY <1>1, <2>1, <2>2
  <2>3. /\ u \o v \in Seq(S) /\ Len(u \o v) = n - 1
        /\ \A j \in 1..(n - 1) : (u \o v)[j] = IF j < i THEN u[j] ELSE v[j - (i - 1)]
    <3>1. /\ u \o v \in Seq(S) /\ Len(u \o v) = (i - 1) + (n - i)
          /\ \A j \in 1..((i - 1) + (n - i)) :
               (u \o v)[j] = IF j <= i - 1 THEN u[j] ELSE v[j - (i - 1)]
      <4>1. ASSUME NEW a \in Seq(S), NEW b \in Seq(S)
            PROVE  /\ a \o b \in Seq(S) /\ Len(a \o b) = Len(a) + Len(b)
                   /\ \A j \in 1..(Len(a) + Len(b)) :
                        (a \o b)[j] = IF j <= Len(a) THEN a[j] ELSE b[j - Len(a)]
        OBVIOUS
      <4>2. u \in Seq(S) /\ v \in Seq(S) /\ Len(u) = i - 1 /\ Len(v) = n - i
        BY <2>1, <2>2
      <4>3. /\ u \o v \in Seq(S) /\ Len(u \o v) = Len(u) + Len(v)
            /\ \A j \in 1..(Len(u) + Len(v)) :
                 (u \o v)[j] = IF j <= Len(u) THEN u[j] ELSE v[j - Len(u)]
        BY <4>1, <4>2
      <4> QED
        BY <4>2, <4>3
    <3>2. /\ (i - 1) + (n - i) = n - 1
          /\ \A j \in 1..(n - 1) : j <= i - 1 <=> j < i
      BY <1>1
    <3> QED
      BY <3>1, <3>2
  <2>4. ASSUME NEW j \in 1..(n - 1)
        PROVE  (u \o v)[j] = s[IF j < i THEN j ELSE j + 1]
    <3>1. CASE j < i
      BY <1>1, <2>1, <2>3, <3>1
    <3>2. CASE ~(j < i)
      <4>1. j - (i - 1) \in 1..(n - i) /\ (j - (i - 1)) + i = j + 1
        BY <1>1, <3>2
      <4>2. (u \o v)[j] = v[j - (i - 1)]
        BY <2>3, <3>2
      <4> QED
        BY <2>2, <3>2, <4>1, <4>2
    <3> QED
      BY <3>1, <3>2
  <2> QED
    BY <2>3, <2>4, <2>5, <2>6
<1> HIDE DEF t, n
<1>3. \A j \in 1..(n - 1) : /\ (IF j < i THEN j ELSE j + 1) \in 1..n
                            /\ (IF j < i THEN j ELSE j + 1) # i
  BY <1>1
<1>4. \A k \in 1..n : k # i =>
        \E j \in 1..(n - 1) : (IF j < i THEN j ELSE j + 1) = k
  <2> SUFFICES ASSUME NEW k \in 1..n, k # i
               PROVE  \E j \in 1..(n - 1) : (IF j < i THEN j ELSE j + 1) = k
    OBVIOUS
  <2>1. CASE k < i
    BY <1>1, <2>1
  <2>2. CASE ~(k < i)
    <3>1. k - 1 \in 1..(n - 1) /\ ~(k - 1 < i) /\ (k - 1) + 1 = k
      BY <1>1, <2>2
    <3> QED
      BY <3>1
  <2> QED
    BY <2>1, <2>2
<1>5. Members(t) = Members(s) \ {s[i]}
  <2>1. ASSUME NEW j \in 1..(n - 1)
        PROVE  t[j] \in Members(s) \ {s[i]}
    BY <1>1, <1>2, <1>3 DEF Members, Distinct
  <2>2. ASSUME NEW k \in 1..n, k # i
        PROVE  s[k] \in Members(t)
    BY <1>1, <1>2, <1>4, <2>2 DEF Members
  <2> QED
    BY <1>1, <1>2, <2>1, <2>2 DEF Members
<1>6. Distinct(t)
  <2> SUFFICES ASSUME NEW j \in 1..(n - 1), NEW k \in 1..(n - 1), t[j] = t[k]
               PROVE  j = k
    BY <1>2 DEF Distinct
  <2>1. (IF j < i THEN j ELSE j + 1) = (IF k < i THEN k ELSE k + 1)
    BY <1>1, <1>2, <1>3 DEF Distinct
  <2> QED
    BY <1>1, <2>1
<1> QED
  BY <1>2, <1>5, <1>6 DEF t, n

-----------------------------------------------------------------------------

LEMMA RpcNumbers == /\ Cardinality(Proc) \in Nat /\ IsFiniteSet(Proc)
                    /\ Rpc = 1..Cardinality(Proc) /\ 0 \notin Rpc
                    /\ NoProc \notin Proc
<1>1. Cardinality(Proc) \in Nat
  BY ProcAssumption, FS_CardinalityType
<1> QED
  BY <1>1, ProcAssumption DEF Rpc

LEMMA SameMembers ==
  ASSUME NEW s
  PROVE  ToSet(s) = Members(s) /\ (IsInjective(s) <=> Distinct(s))
BY DEF ToSet, Members, IsInjective, Distinct

(* A process that is in no call finds a Mntrpc: there are not more than    *)
(* the others have.                                                        *)
LEMMA RoomForOne ==
  ASSUME PlaceTypeOK, AllocInv, NEW p \in Proc, ~InCall(p), rpcfree = <<>>
  PROVE  nrpc + 1 \in Rpc
<1>1. nrpc \in Nat /\ rpc \in [Proc -> Rpc \cup {0}]
  BY RpcNumbers DEF PlaceTypeOK
<1>2. ToSet(rpcfree) = {}
  BY DEF ToSet
<1>3. \A r \in 1..nrpc : \E x \in Proc : rpc[x] = r /\ x # p
  BY <1>1, <1>2 DEF AllocInv
<1> DEFINE f == [r \in 1..nrpc |-> CHOOSE x \in Proc : rpc[x] = r /\ x # p]
<1>4. \A r \in 1..nrpc : f[r] \in Proc \ {p} /\ rpc[f[r]] = r
  BY <1>3, Zenon
<1>5. f \in [1..nrpc -> Proc \ {p}]
  BY <1>4
<1> HIDE DEF f
<1>6. f \in Injection(1..nrpc, Proc \ {p})
  <2>1. \A r, q \in 1..nrpc : f[r] = f[q] => r = q
    BY <1>4
  <2> QED
    BY <1>5, <2>1 DEF Injection, IsInjective
<1>7. IsFiniteSet(Proc \ {p}) /\ Cardinality(Proc \ {p}) = Cardinality(Proc) - 1
  BY RpcNumbers, FS_RemoveElement
<1>8. Cardinality(1..nrpc) <= Cardinality(Proc \ {p})
  BY <1>6, <1>7, FS_Injection
<1>9. Cardinality(1..nrpc) = nrpc
  <2>1. Cardinality(1..nrpc) = IF 1 > nrpc THEN 0 ELSE nrpc - 1 + 1
    BY <1>1, FS_Interval
  <2> QED
    BY <1>1, <2>1
<1> QED
  BY <1>1, <1>7, <1>8, <1>9, RpcNumbers
-----------------------------------------------------------------------------
(* Steps within a call, in which no Mntrpc changes hands. *)

LEMMA QuietKeeps ==
  ASSUME AllocInv, QueueInv, GiveInv, UNCHANGED <<rpc, nrpc, rpcfree, queue, done>>,
         \A x \in Proc : pc'[x] = "out" <=> pc[x] = "out",
         \A x \in Proc : pc'[x] = "give" <=> pc[x] = "give",
         \A x \in Proc : pc[x] = "give" => give'[x] = give[x]
  PROVE  (AllocInv /\ QueueInv /\ GiveInv)'
<1>1. \A x \in Proc : InCall(x)' <=> InCall(x)
  BY DEF InCall
<1>2. \A r : BeingGiven(r)' <=> BeingGiven(r)
  BY DEF BeingGiven
<1>3. AllocInv'
  BY <1>1 DEF AllocInv
<1>4. QueueInv'
  BY <1>1, <1>2 DEF QueueInv
<1>5. GiveInv'
  BY DEF GiveInv
<1> QED
  BY <1>3, <1>4, <1>5

(* mountio: the request is written. *)
LEMMA WriteKeeps == ASSUME PlaceInv, NEW p \in Proc, Write(p) PROVE PlaceInv'
<1> USE DEF PlaceInv
<1>1. PlaceTypeOK'
  BY DEF PlaceTypeOK, Send, RetInv, Write, Goto, mnt, alloc, rpcs
<1>2. AllocInv' /\ QueueInv' /\ GiveInv'
  BY QuietKeeps DEF PlaceTypeOK, RetInv, Write, Goto, mnt, alloc, rpcs
<1>3. GateHeld'
  BY RpcNumbers DEF PlaceTypeOK, GateHeld, RetInv, Write, Goto, mnt, alloc, rpcs
<1>4. RetInv'
  BY DEF PlaceTypeOK, RetInv, Write, Goto, mnt, alloc, rpcs
<1>5. DoneInv'
  BY DEF PlaceTypeOK, RetInv, DoneInv, Write, Goto, mnt, alloc, rpcs
<1> QED
  BY <1>1, <1>2, <1>3, <1>4, <1>5

(* The process comes to the gate, *)
LEMMA GateKeeps == ASSUME PlaceInv, NEW p \in Proc, Gate(p) PROVE PlaceInv'
<1> USE DEF PlaceInv
<1>1. PlaceTypeOK'
  BY DEF PlaceTypeOK, RetInv, Gate, Goto, mnt, alloc, rpcs
<1>2. AllocInv' /\ QueueInv' /\ GiveInv'
  BY QuietKeeps DEF PlaceTypeOK, RetInv, Gate, Goto, mnt, alloc, rpcs
<1>3. GateHeld'
  BY RpcNumbers DEF PlaceTypeOK, GateHeld, RetInv, Gate, Goto, mnt, alloc, rpcs
<1>4. RetInv'
  BY DEF PlaceTypeOK, RetInv, Gate, Goto, mnt, alloc, rpcs
<1>5. DoneInv'
  BY DEF PlaceTypeOK, RetInv, DoneInv, Gate, Goto, mnt, alloc, rpcs
<1> QED
  BY <1>1, <1>2, <1>3, <1>4, <1>5

(* sleeps, *)
LEMMA SleepKeeps == ASSUME PlaceInv, NEW p \in Proc, Sleep(p) PROVE PlaceInv'
<1> USE DEF PlaceInv
<1>1. PlaceTypeOK'
  BY DEF PlaceTypeOK, RetInv, Sleep, Goto, mnt, alloc, rpcs, rpcattn
<1>2. AllocInv' /\ QueueInv' /\ GiveInv'
  BY QuietKeeps DEF PlaceTypeOK, RetInv, Sleep, Goto, mnt, alloc, rpcs, rpcattn
<1>3. GateHeld'
  BY RpcNumbers DEF PlaceTypeOK, GateHeld, RetInv, Sleep, Goto, mnt, alloc, rpcs, rpcattn
<1>4. RetInv'
  BY DEF PlaceTypeOK, RetInv, Sleep, Goto, mnt, alloc, rpcs, rpcattn
<1>5. DoneInv'
  BY DEF PlaceTypeOK, RetInv, DoneInv, Sleep, Goto, mnt, alloc, rpcs, rpcattn
<1> QED
  BY <1>1, <1>2, <1>3, <1>4, <1>5

(* and is woken. *)
LEMMA WokenKeeps == ASSUME PlaceInv, NEW p \in Proc, Woken(p) PROVE PlaceInv'
<1> USE DEF PlaceInv
<1>1. PlaceTypeOK'
  BY DEF PlaceTypeOK, RetInv, Woken, Goto, mnt, alloc, rpcs
<1>2. AllocInv' /\ QueueInv' /\ GiveInv'
  BY QuietKeeps DEF PlaceTypeOK, RetInv, Woken, Goto, mnt, alloc, rpcs
<1>3. GateHeld'
  BY RpcNumbers DEF PlaceTypeOK, GateHeld, RetInv, Woken, Goto, mnt, alloc, rpcs
<1>4. RetInv'
  BY DEF PlaceTypeOK, RetInv, Woken, Goto, mnt, alloc, rpcs
<1>5. DoneInv'
  BY DEF PlaceTypeOK, RetInv, DoneInv, Woken, Goto, mnt, alloc, rpcs
<1> QED
  BY <1>1, <1>2, <1>3, <1>4, <1>5

(* The reader has its reply. *)
LEMMA ReadDoneKeeps == ASSUME PlaceInv, NEW p \in Proc, ReadDone(p) PROVE PlaceInv'
<1> USE DEF PlaceInv
<1>1. PlaceTypeOK'
  BY DEF PlaceTypeOK, RetInv, ReadDone, Goto, mnt, alloc, rpcs
<1>2. AllocInv' /\ QueueInv' /\ GiveInv'
  BY QuietKeeps DEF PlaceTypeOK, RetInv, ReadDone, Goto, mnt, alloc, rpcs
<1>3. GateHeld'
  BY RpcNumbers DEF PlaceTypeOK, GateHeld, RetInv, ReadDone, Goto, mnt, alloc, rpcs
<1>4. RetInv'
  BY DEF PlaceTypeOK, RetInv, ReadDone, Goto, mnt, alloc, rpcs
<1>5. DoneInv'
  BY DEF PlaceTypeOK, RetInv, DoneInv, ReadDone, Goto, mnt, alloc, rpcs
<1> QED
  BY <1>1, <1>2, <1>3, <1>4, <1>5

(* It reads a reply, *)
LEMMA ReadKeeps == ASSUME PlaceInv, NEW p \in Proc, Read(p) PROVE PlaceInv'
<1> USE DEF PlaceInv
<1>1. PlaceTypeOK'
  BY DEF PlaceTypeOK, RetInv, Read, Goto, mnt, alloc, rpcs
<1>2. AllocInv' /\ QueueInv' /\ GiveInv'
  BY QuietKeeps DEF PlaceTypeOK, RetInv, Read, Goto, mnt, alloc, rpcs
<1>3. GateHeld'
  BY RpcNumbers DEF PlaceTypeOK, GateHeld, RetInv, Read, Goto, mnt, alloc, rpcs
<1>4. RetInv'
  BY DEF PlaceTypeOK, RetInv, Read, Goto, mnt, alloc, rpcs
<1>5. DoneInv'
  BY DEF PlaceTypeOK, RetInv, DoneInv, Read, Goto, mnt, alloc, rpcs
<1> QED
  BY <1>1, <1>2, <1>3, <1>4, <1>5

(* mntflush: the flush is written. *)
LEMMA FlushWriteKeeps == ASSUME PlaceInv, NEW p \in Proc, FlushWrite(p) PROVE PlaceInv'
<1> USE DEF PlaceInv
<1>1. PlaceTypeOK'
  BY DEF PlaceTypeOK, Send, RetInv, FlushWrite, Goto, mnt, alloc, rpcs
<1>2. AllocInv' /\ QueueInv' /\ GiveInv'
  BY QuietKeeps DEF PlaceTypeOK, RetInv, FlushWrite, Goto, mnt, alloc, rpcs
<1>3. GateHeld'
  BY RpcNumbers DEF PlaceTypeOK, GateHeld, RetInv, FlushWrite, Goto, mnt, alloc, rpcs
<1>4. RetInv'
  BY DEF PlaceTypeOK, RetInv, FlushWrite, Goto, mnt, alloc, rpcs
<1>5. DoneInv'
  BY DEF PlaceTypeOK, RetInv, DoneInv, FlushWrite, Goto, mnt, alloc, rpcs
<1> QED
  BY <1>1, <1>2, <1>3, <1>4, <1>5

(* mntflush is interrupted before the flush is out. *)
LEMMA FlushInterruptedKeeps == ASSUME PlaceInv, NEW p \in Proc, FlushInterrupted(p) PROVE PlaceInv'
<1> USE DEF PlaceInv
<1>1. PlaceTypeOK'
  BY DEF PlaceTypeOK, RetInv, FlushInterrupted, Goto, mnt, alloc, rpcs
<1>2. AllocInv' /\ QueueInv' /\ GiveInv'
  BY QuietKeeps DEF PlaceTypeOK, RetInv, FlushInterrupted, Goto, mnt, alloc, rpcs
<1>3. GateHeld'
  BY RpcNumbers DEF PlaceTypeOK, GateHeld, RetInv, FlushInterrupted, Goto, mnt, alloc, rpcs
<1>4. RetInv'
  BY DEF PlaceTypeOK, RetInv, FlushInterrupted, Goto, mnt, alloc, rpcs
<1>5. DoneInv'
  BY DEF PlaceTypeOK, RetInv, DoneInv, FlushInterrupted, Goto, mnt, alloc, rpcs
<1> QED
  BY <1>1, <1>2, <1>3, <1>4, <1>5

(* Interrupts, and errors of the connection. *)
LEMMA WriteErrorKeeps == ASSUME PlaceInv, NEW p \in Proc, WriteError(p) PROVE PlaceInv'
<1> USE DEF PlaceInv
<1>1. PlaceTypeOK'
  BY DEF PlaceTypeOK, Send, RetInv, WriteError, Goto, mnt, alloc, rpcs, Flushing
<1>2. AllocInv' /\ QueueInv' /\ GiveInv'
  BY QuietKeeps DEF PlaceTypeOK, RetInv, WriteError, Goto, mnt, alloc, rpcs, Flushing
<1>3. GateHeld'
  BY RpcNumbers DEF PlaceTypeOK, GateHeld, RetInv, WriteError, Goto, mnt, alloc, rpcs, Flushing
<1>4. RetInv'
  BY DEF PlaceTypeOK, RetInv, WriteError, Goto, mnt, alloc, rpcs, Flushing
<1>5. DoneInv'
  BY DEF PlaceTypeOK, RetInv, DoneInv, WriteError, Goto, mnt, alloc, rpcs, Flushing
<1> QED
  BY <1>1, <1>2, <1>3, <1>4, <1>5

LEMMA SleepErrorKeeps == ASSUME PlaceInv, NEW p \in Proc, SleepError(p) PROVE PlaceInv'
<1> USE DEF PlaceInv
<1>1. PlaceTypeOK'
  BY DEF PlaceTypeOK, RetInv, SleepError, Goto, mnt, alloc, rpcs, Flushing
<1>2. AllocInv' /\ QueueInv' /\ GiveInv'
  BY QuietKeeps DEF PlaceTypeOK, RetInv, SleepError, Goto, mnt, alloc, rpcs, Flushing
<1>3. GateHeld'
  BY RpcNumbers DEF PlaceTypeOK, GateHeld, RetInv, SleepError, Goto, mnt, alloc, rpcs, Flushing
<1>4. RetInv'
  BY DEF PlaceTypeOK, RetInv, SleepError, Goto, mnt, alloc, rpcs, Flushing
<1>5. DoneInv'
  BY DEF PlaceTypeOK, RetInv, DoneInv, SleepError, Goto, mnt, alloc, rpcs, Flushing
<1> QED
  BY <1>1, <1>2, <1>3, <1>4, <1>5

LEMMA ReadErrorKeeps == ASSUME PlaceInv, NEW p \in Proc, ReadError(p) PROVE PlaceInv'
<1> USE DEF PlaceInv
<1>1. PlaceTypeOK'
  BY DEF PlaceTypeOK, RetInv, ReadError, Goto, mnt, alloc, rpcs, Flushing
<1>2. AllocInv' /\ QueueInv' /\ GiveInv'
  BY QuietKeeps DEF PlaceTypeOK, RetInv, ReadError, Goto, mnt, alloc, rpcs, Flushing
<1>3. GateHeld'
  BY RpcNumbers DEF PlaceTypeOK, GateHeld, RetInv, ReadError, Goto, mnt, alloc, rpcs, Flushing
<1>4. RetInv'
  BY DEF PlaceTypeOK, RetInv, ReadError, Goto, mnt, alloc, rpcs, Flushing
<1>5. DoneInv'
  BY DEF PlaceTypeOK, RetInv, DoneInv, ReadError, Goto, mnt, alloc, rpcs, Flushing
<1> QED
  BY <1>1, <1>2, <1>3, <1>4, <1>5

(* mntgate: the reader has left, and does not come back. *)
LEMMA MntGateKeeps == ASSUME PlaceInv, NEW p \in Proc, MntGate(p) PROVE PlaceInv'
<1> USE DEF PlaceInv
<1>1. /\ pc[p] = "release" /\ ret[p] \in {"done", "free"} /\ rip' = NoProc /\ done[rpc[p]]
      /\ UNCHANGED <<rpc, nrpc, rpcfree, queue, done>>
  BY DEF MntGate, RetInv, DoneInv, alloc, rpcs
<1>2. \/ /\ pc' = [pc EXCEPT ![p] = ret[p]] /\ ret' = [ret EXCEPT ![p] = "out"]
         /\ give' = give
      \/ /\ pc' = [pc EXCEPT ![p] = "wake"] /\ ret' = ret
         /\ \E i \in DOMAIN queue : give' = [give EXCEPT ![p] = queue[i]]
  BY DEF MntGate
<1>3. \A i \in DOMAIN queue : queue[i] \in Rpc
  BY DEF PlaceTypeOK
<1>4. PlaceTypeOK'
  <2>1. asked' = asked
    BY DEF MntGate
  <2>2. /\ pc[p] = "release" /\ ret[p] \in {"done", "free"}
        /\ UNCHANGED <<rpc, nrpc, rpcfree, queue, done>> /\ rip' = NoProc
    BY <1>1
  <2> HIDE DEF PlaceInv
  <2>3. PlaceTypeOK
    BY DEF PlaceInv
  <2> QED
    BY <1>2, <1>3, <2>1, <2>2, <2>3 DEF PlaceTypeOK
<1>5. AllocInv' /\ QueueInv' /\ GiveInv'
  BY <1>1, <1>2, QuietKeeps DEF PlaceTypeOK
<1>6. GateHeld'
  <2>1. rip = p /\ NoProc \notin Proc
    BY <1>1, RpcNumbers, ProcAssumption DEF GateHeld
  <2>2. \A x \in Proc \ {p} : pc'[x] = pc[x] /\ ret'[x] = ret[x]
    BY <1>2 DEF PlaceTypeOK
  <2>3. pc'[p] \in {"done", "free"} \/ (pc'[p] = "wake" /\ ret'[p] = ret[p])
    BY <1>1, <1>2 DEF PlaceTypeOK
  <2> QED
    BY <1>1, <2>1, <2>2, <2>3 DEF GateHeld
<1>7. RetInv'
  BY <1>1, <1>2 DEF PlaceTypeOK, RetInv
<1>8. DoneInv'
  BY <1>1, <1>2 DEF PlaceTypeOK, DoneInv
<1> QED
  BY <1>4, <1>5, <1>6, <1>7, <1>8

(* Wakeup moves the process that sleeps, and the one that calls it. *)
LEMMA WakeKeeps == ASSUME PlaceInv, NEW p \in Proc, Wake(p) PROVE PlaceInv'
<1> USE DEF PlaceInv
<1>1. /\ pc[p] = "wake" /\ ret[p] \in {"read", "done", "free"}
      /\ pc' \in [Proc -> {"out", "write", "gate", "sleep", "asleep", "woken", "read", "mux",
                            "give", "wake", "release", "flush", "done", "free"}]
      /\ pc'[p] = ret[p]
      /\ \A x \in Proc \ {p} : pc'[x] = pc[x] \/ (pc[x] = "asleep" /\ pc'[x] = "woken")
      /\ give' = [give EXCEPT ![p] = 0] /\ ret' = [ret EXCEPT ![p] = "out"]
      /\ UNCHANGED <<rpc, nrpc, rpcfree, queue, done, rip, asked>>
  BY DEF Wake, RetInv, PlaceTypeOK, alloc, rpcs, mnt
<1>2. PlaceTypeOK'
  BY <1>1 DEF PlaceTypeOK
<1>3. AllocInv' /\ QueueInv' /\ GiveInv'
  <2>1. \A x \in Proc : pc'[x] = "out" <=> pc[x] = "out"
    BY <1>1
  <2>2. \A x \in Proc : pc'[x] = "give" <=> pc[x] = "give"
    BY <1>1
  <2>3. \A x \in Proc : pc[x] = "give" => give'[x] = give[x]
    BY <1>1 DEF PlaceTypeOK
  <2> QED
    BY <1>1, <2>1, <2>2, <2>3, QuietKeeps
<1>4. GateHeld'
  BY <1>1, RpcNumbers DEF PlaceTypeOK, GateHeld
<1>5. RetInv'
  BY <1>1 DEF PlaceTypeOK, RetInv
<1>6. DoneInv'
  BY <1>1 DEF PlaceTypeOK, DoneInv
<1> QED
  BY <1>2, <1>3, <1>4, <1>5, <1>6

-----------------------------------------------------------------------------
(* Steps that move a Mntrpc. *)

LEMMA OneReader ==
  ASSUME GateHeld, NEW p \in Proc, NEW x \in Proc, p # x,
         pc[p] \in {"mux", "give"}
  PROVE  pc[x] \notin {"read", "mux", "give", "release"}
BY DEF GateHeld

(* A Mntrpc leaves the queue. *)
LEMMA QueueWithout ==
  ASSUME PlaceTypeOK, QueueInv, NEW i \in DOMAIN queue, queue' = RemoveAt(queue, i)
  PROVE  /\ queue' \in Seq(Rpc) /\ IsInjective(queue')
         /\ ToSet(queue') = ToSet(queue) \ {queue[i]}
         /\ queue[i] \in ToSet(queue) /\ queue[i] \in Rpc
<1>1. queue \in Seq(Rpc) /\ Distinct(queue)
  BY SameMembers DEF PlaceTypeOK, QueueInv
<1>2. queue' = SubSeq(queue, 1, i - 1) \o SubSeq(queue, i + 1, Len(queue))
  BY DEF RemoveAt
<1>3. queue' \in Seq(Rpc) /\ Distinct(queue') /\ Members(queue') = Members(queue) \ {queue[i]}
  BY <1>1, <1>2, OffAny
<1>4. queue[i] \in ToSet(queue) /\ queue[i] \in Rpc
  BY <1>1 DEF ToSet
<1> QED
  BY <1>3, <1>4, SameMembers

(* mountmux *)
LEMMA MuxKeeps == ASSUME PlaceInv, NEW p \in Proc, Mux(p) PROVE PlaceInv'
<1> USE DEF PlaceInv
<1>1. /\ pc[p] = "mux" /\ rpc[p] \in Rpc
      /\ UNCHANGED <<ret, rpc, nrpc, rpcfree, rip, asked>>
  BY DEF Mux, PlaceTypeOK, AllocInv, InCall, alloc
<1>2. \A x \in Proc \ {p} : pc[x] \notin {"read", "mux", "give", "release"}
  BY <1>1, OneReader
<1>3. \A r : ~BeingGiven(r)
  BY <1>1, <1>2 DEF BeingGiven
<1>4. CASE pc' = [pc EXCEPT ![p] = "read"] /\ UNCHANGED <<queue, done, give>>
  <2>1. PlaceTypeOK'
    BY <1>1, <1>4 DEF PlaceTypeOK
  <2>2. AllocInv' /\ QueueInv' /\ GiveInv'
    BY <1>1, <1>4, QuietKeeps DEF PlaceTypeOK
  <2>3. GateHeld'
    BY <1>1, <1>4 DEF PlaceTypeOK, GateHeld
  <2>4. RetInv' /\ DoneInv'
    BY <1>1, <1>4 DEF PlaceTypeOK, RetInv, DoneInv
  <2> QED
    BY <2>1, <2>2, <2>3, <2>4
<1>5. ASSUME NEW i \in DOMAIN queue, queue' = RemoveAt(queue, i)
      PROVE  /\ queue' \in Seq(Rpc) /\ IsInjective(queue')
             /\ ToSet(queue') = ToSet(queue) \ {queue[i]}
             /\ queue[i] \in Rpc /\ ~done[queue[i]]
             /\ \E x \in Proc : InCall(x) /\ rpc[x] = queue[i]
  BY <1>5, QueueWithout DEF QueueInv
<1>6. CASE \E i \in DOMAIN queue :
             /\ queue' = RemoveAt(queue, i) /\ queue[i] = rpc[p]
             /\ done' = [done EXCEPT ![rpc[p]] = TRUE]
             /\ pc' = [pc EXCEPT ![p] = "read"] /\ give' = give
  <2>1. /\ queue' \in Seq(Rpc) /\ IsInjective(queue')
        /\ ToSet(queue') = ToSet(queue) \ {rpc[p]}
    BY <1>5, <1>6
  <2>2. /\ pc' = [pc EXCEPT ![p] = "read"] /\ give' = give
        /\ done' = [done EXCEPT ![rpc[p]] = TRUE]
    BY <1>6
  <2>3. PlaceTypeOK'
    BY <1>1, <2>1, <2>2 DEF PlaceTypeOK
  <2>4. \A x \in Proc : InCall(x)' <=> InCall(x)
    BY <1>1, <2>2 DEF PlaceTypeOK, InCall
  <2>5. AllocInv'
    BY <1>1, <2>4 DEF AllocInv
  <2>6. \A r : ~BeingGiven(r)'
    BY <1>1, <1>2, <2>2 DEF BeingGiven, PlaceTypeOK
  <2>7. QueueInv'
    <3>1. \A r \in Rpc : done'[r] <=> done[r] \/ r = rpc[p]
      BY <1>1, <2>2 DEF PlaceTypeOK
    <3> QED
      BY <1>1, <1>3, <2>1, <2>4, <2>6, <3>1 DEF QueueInv
  <2>8. GiveInv'
    BY <1>1, <1>2, <2>2 DEF GiveInv, PlaceTypeOK
  <2>9. GateHeld' /\ RetInv'
    BY <1>1, <2>2 DEF PlaceTypeOK, GateHeld, RetInv
  <2>10. DoneInv'
    BY <1>1, <2>2 DEF PlaceTypeOK, DoneInv
  <2> QED
    BY <2>3, <2>5, <2>7, <2>8, <2>9, <2>10
<1>7. CASE \E i \in DOMAIN queue :
             /\ queue' = RemoveAt(queue, i) /\ queue[i] # rpc[p]
             /\ give' = [give EXCEPT ![p] = queue[i]]
             /\ pc' = [pc EXCEPT ![p] = "give"] /\ done' = done
  <2>1. PICK q \in Rpc :
          /\ queue' \in Seq(Rpc) /\ IsInjective(queue')
          /\ ToSet(queue') = ToSet(queue) \ {q}
          /\ q # rpc[p] /\ give' = [give EXCEPT ![p] = q]
          /\ ~done[q] /\ \E x \in Proc : InCall(x) /\ rpc[x] = q
    BY <1>5, <1>7
  <2>2. pc' = [pc EXCEPT ![p] = "give"] /\ done' = done
    BY <1>7
  <2>3. PlaceTypeOK'
    BY <1>1, <2>1, <2>2 DEF PlaceTypeOK
  <2>4. \A x \in Proc : InCall(x)' <=> InCall(x)
    BY <1>1, <2>2 DEF PlaceTypeOK, InCall
  <2>5. AllocInv'
    BY <1>1, <2>4 DEF AllocInv
  <2>6. \A r : BeingGiven(r)' <=> r = q
    BY <1>1, <1>2, <2>1, <2>2 DEF BeingGiven, PlaceTypeOK
  <2>7. QueueInv'
    BY <1>1, <1>3, <2>1, <2>2, <2>4, <2>6 DEF QueueInv
  <2>8. GiveInv'
    BY <1>1, <1>2, <2>1, <2>2, RpcNumbers DEF GiveInv, PlaceTypeOK
  <2>9. GateHeld' /\ RetInv'
    BY <1>1, <2>2 DEF PlaceTypeOK, GateHeld, RetInv
  <2>10. DoneInv'
    BY <1>1, <2>2 DEF PlaceTypeOK, DoneInv
  <2> QED
    BY <2>3, <2>5, <2>7, <2>8, <2>9, <2>10
<1>8. \/ pc' = [pc EXCEPT ![p] = "read"] /\ UNCHANGED <<queue, done, give>>
      \/ \E i \in DOMAIN queue :
             /\ queue' = RemoveAt(queue, i) /\ queue[i] = rpc[p]
             /\ done' = [done EXCEPT ![rpc[p]] = TRUE]
             /\ pc' = [pc EXCEPT ![p] = "read"] /\ give' = give
      \/ \E i \in DOMAIN queue :
             /\ queue' = RemoveAt(queue, i) /\ queue[i] # rpc[p]
             /\ give' = [give EXCEPT ![p] = queue[i]]
             /\ pc' = [pc EXCEPT ![p] = "give"] /\ done' = done
  BY DEF Mux
<1> QED
  BY <1>4, <1>6, <1>7, <1>8

(* The reply goes to the process it is for. *)
LEMMA GiveKeeps == ASSUME PlaceInv, NEW p \in Proc, Give(p) PROVE PlaceInv'
<1> USE DEF PlaceInv
<1>1. /\ pc[p] = "give" /\ pc' = [pc EXCEPT ![p] = "wake"]
      /\ ret' = [ret EXCEPT ![p] = "read"]
      /\ done' = [done EXCEPT ![give[p]] = TRUE]
      /\ UNCHANGED <<rpc, give, nrpc, rpcfree, queue, rip, asked>>
  BY DEF Give, Goto, alloc, mnt
<1>2. /\ give[p] \in Rpc /\ give[p] # rpc[p]
      /\ \A r \in Rpc : done'[r] <=> done[r] \/ r = give[p]
  BY <1>1 DEF GiveInv, PlaceTypeOK
<1>3. \A x \in Proc \ {p} : pc[x] \notin {"read", "mux", "give", "release"}
  BY <1>1, OneReader
<1>4. \A r : (BeingGiven(r) <=> r = give[p]) /\ ~BeingGiven(r)'
  BY <1>1, <1>3 DEF BeingGiven, PlaceTypeOK
<1>5. \A x \in Proc : InCall(x)' <=> InCall(x)
  BY <1>1 DEF PlaceTypeOK, InCall
<1>6. PlaceTypeOK'
  BY <1>1, <1>2 DEF PlaceTypeOK
<1>7. AllocInv'
  BY <1>1, <1>5 DEF AllocInv
<1>8. QueueInv'
  BY <1>1, <1>2, <1>4, <1>5 DEF QueueInv
<1>9. GiveInv'
  BY <1>1, <1>3 DEF GiveInv, PlaceTypeOK
<1>10. GateHeld' /\ RetInv'
  BY <1>1 DEF PlaceTypeOK, GateHeld, RetInv
<1>11. DoneInv'
  <2>1. \A x \in Proc : pc'[x] # "out" => rpc[x] \in Rpc
    BY <1>1 DEF PlaceTypeOK, AllocInv, InCall
  <2> QED
    BY <1>1, <1>2, <2>1 DEF PlaceTypeOK, DoneInv
<1> QED
  BY <1>6, <1>7, <1>8, <1>9, <1>10, <1>11

(* mntqrm, and the reader goes to open the gate. *)
LEMMA FlushErrorKeeps ==
  ASSUME GivenMayFail = FALSE, PlaceInv, NEW p \in Proc, FlushError(p)
  PROVE  PlaceInv'
<1> USE DEF PlaceInv
<1>1. /\ pc[p] = "flush" /\ ret[p] \in {"gate", "read"} /\ rpc[p] \in Rpc
      /\ ~BeingGiven(rpc[p])
      /\ pc' = [pc EXCEPT ![p] = IF ret[p] = "read" THEN "release" ELSE "free"]
      /\ ret' = [ret EXCEPT ![p] = "free"]
      /\ done' = [done EXCEPT ![rpc[p]] = TRUE]
      /\ Unqueue(rpc[p])
      /\ UNCHANGED <<rpc, give, nrpc, rpcfree, rip, asked>>
  BY DEF FlushError, RetInv, PlaceTypeOK, AllocInv, InCall, alloc
<1>2. /\ queue' \in Seq(Rpc) /\ IsInjective(queue')
      /\ ToSet(queue') = ToSet(queue) \ {rpc[p]}
  <2>1. CASE rpc[p] \notin ToSet(queue) /\ UNCHANGED queue
    BY <2>1 DEF PlaceTypeOK, QueueInv
  <2>2. CASE \E i \in DOMAIN queue : queue[i] = rpc[p] /\ queue' = RemoveAt(queue, i)
    BY <2>2, QueueWithout
  <2> QED
    BY <1>1, <2>1, <2>2 DEF Unqueue
<1>3. \A r \in Rpc : done'[r] <=> done[r] \/ r = rpc[p]
  BY <1>1 DEF PlaceTypeOK
<1>4. \A r : BeingGiven(r)' <=> BeingGiven(r)
  BY <1>1 DEF BeingGiven, PlaceTypeOK
<1>5. \A x \in Proc : InCall(x)' <=> InCall(x)
  BY <1>1 DEF PlaceTypeOK, InCall
<1>6. PlaceTypeOK'
  BY <1>1, <1>2 DEF PlaceTypeOK
<1>7. AllocInv'
  BY <1>1, <1>5 DEF AllocInv
<1>8. QueueInv'
  BY <1>1, <1>2, <1>3, <1>4, <1>5 DEF QueueInv
<1>9. GiveInv'
  <2>1. \A x \in Proc : pc[x] = "give" => give[x] # rpc[p] /\ give[x] \in Rpc
    BY <1>1 DEF BeingGiven, GiveInv, PlaceTypeOK
  <2> QED
    BY <1>1, <1>3, <2>1 DEF GiveInv, PlaceTypeOK
<1>10. GateHeld'
  BY <1>1 DEF PlaceTypeOK, GateHeld
<1>11. RetInv'
  BY <1>1 DEF PlaceTypeOK, RetInv
<1>12. DoneInv'
  <2>1. \A x \in Proc : pc'[x] # "out" => rpc[x] \in Rpc
    BY <1>1 DEF PlaceTypeOK, AllocInv, InCall
  <2> QED
    BY <1>1, <1>3, <2>1 DEF PlaceTypeOK, DoneInv
<1> QED
  BY <1>6, <1>7, <1>8, <1>9, <1>10, <1>11, <1>12

(* mntfree: the Mntrpc of a completed call goes to the free list. *)
LEMMA MntFreeKeeps == ASSUME PlaceInv, NEW p \in Proc, MntFree(p) PROVE PlaceInv'
<1> USE DEF PlaceInv
<1> DEFINE r == rpc[p]
<1>1. /\ pc[p] \in {"done", "free"} /\ r \in Rpc /\ done[r]
      /\ pc' = [pc EXCEPT ![p] = "out"] /\ ret' = [ret EXCEPT ![p] = "out"]
      /\ rpc' = [rpc EXCEPT ![p] = 0] /\ rpcfree' = <<r>> \o rpcfree
      /\ UNCHANGED <<give, nrpc, queue, rip, done>> /\ asked' = asked \ {p}
  BY DEF MntFree, PlaceTypeOK, AllocInv, InCall, DoneInv, mnt
<1> HIDE DEF r
<1>2. /\ rpcfree' \in Seq(Rpc) /\ IsInjective(rpcfree')
      /\ ToSet(rpcfree') = ToSet(rpcfree) \cup {r}
  <2>1. /\ rpcfree \in Seq(Rpc) /\ Distinct(rpcfree) /\ r \notin Members(rpcfree)
    BY SameMembers DEF PlaceTypeOK, AllocInv, r
  <2>2. /\ rpcfree' \in Seq(Rpc) /\ Distinct(rpcfree')
        /\ Members(rpcfree') = Members(rpcfree) \cup {r}
    BY <1>1, <2>1, AtFront
  <2> QED
    BY <2>2, SameMembers
<1>3. /\ \A x \in Proc : InCall(x)' <=> InCall(x) /\ x # p
      /\ \A x \in Proc \ {p} : rpc'[x] = rpc[x] /\ pc'[x] = pc[x] /\ ret'[x] = ret[x]
      /\ rpc'[p] = 0 /\ pc'[p] = "out"
  BY <1>1 DEF PlaceTypeOK, InCall
<1>4. \A x \in Proc \ {p} : rpc[x] # r
  BY <1>1, RpcNumbers DEF AllocInv, r
<1>5. PlaceTypeOK'
  BY <1>1, <1>2 DEF PlaceTypeOK
<1>6. AllocInv'
  <2>1. r \in 1..nrpc
    BY <1>1, RpcNumbers DEF AllocInv, r, PlaceTypeOK
  <2>2. \A x, y \in Proc : rpc'[x] = rpc'[y] => x = y \/ rpc'[x] = 0
    BY <1>3 DEF AllocInv
  <2>3. \A x \in Proc : rpc'[x] = 0 <=> ~InCall(x)'
    BY <1>3 DEF AllocInv
  <2>4. \A x \in Proc : rpc'[x] \notin ToSet(rpcfree')
    BY <1>1, <1>2, <1>3, <1>4, RpcNumbers, SameMembers DEF AllocInv, PlaceTypeOK, ToSet
  <2>5. \A q \in 1..nrpc : q \in ToSet(rpcfree') \/ \E x \in Proc : rpc'[x] = q
    BY <1>2, <1>3 DEF AllocInv, r
  <2>6. nrpc \in Nat /\ \A x \in Proc : rpc'[x] <= nrpc
    BY <1>1, <1>3, RpcNumbers DEF AllocInv, PlaceTypeOK
  <2>7. \A q \in ToSet(rpcfree') : q <= nrpc
    BY <1>2, <2>1 DEF AllocInv
  <2> QED
    BY <1>1, <1>2, <2>2, <2>3, <2>4, <2>5, <2>6, <2>7 DEF AllocInv
<1>7. \A q : BeingGiven(q)' <=> BeingGiven(q)
  BY <1>1 DEF BeingGiven, PlaceTypeOK
<1>8. QueueInv'
  <2>1. \A x, y \in Proc : InCall(x)' /\ InCall(y)' /\ x # y => rpc'[x] # rpc'[y]
    BY <1>3 DEF QueueInv
  <2>2. \A x \in Proc : InCall(x)' => rpc'[x] \notin ToSet(rpcfree')
    BY <1>6 DEF AllocInv
  <2>3. \A q \in Rpc : q \in ToSet(queue') <=>
          \E x \in Proc : InCall(x)' /\ rpc'[x] = q /\ ~done'[q] /\ ~BeingGiven(q)'
    <3>1. \A q \in Rpc : q \in ToSet(queue) <=>
            \E x \in Proc : InCall(x) /\ rpc[x] = q /\ ~done[q] /\ ~BeingGiven(q)
      BY DEF QueueInv
    <3>2. \A q \in Rpc, x \in Proc :
            (InCall(x)' /\ rpc'[x] = q /\ ~done[q]) <=> (InCall(x) /\ rpc[x] = q /\ ~done[q])
      BY <1>1, <1>3 DEF r
    <3> QED
      BY <1>1, <1>7, <3>1, <3>2
  <2>4. IsInjective(queue') /\ ToSet(queue') = ToSet(queue)
    BY <1>1 DEF QueueInv
  <2> QED
    BY <1>2, <2>1, <2>2, <2>3, <2>4 DEF QueueInv
<1>9. GiveInv'
  <2>1. ASSUME NEW x \in Proc, pc'[x] = "give"
        PROVE  /\ give'[x] # rpc'[x] /\ give'[x] # 0 /\ ~done'[give'[x]]
               /\ \E y \in Proc : rpc'[y] = give'[x]
    <3>1. /\ x # p /\ pc[x] = "give" /\ give[x] # rpc[x] /\ give[x] # 0 /\ ~done[give[x]]
          /\ rpc'[x] = rpc[x]
      BY <1>3, <2>1 DEF GiveInv
    <3>2. PICK y \in Proc : rpc[y] = give[x]
      BY <3>1 DEF GiveInv
    <3>3. y # p
      BY <1>1, <3>1, <3>2 DEF r
    <3> QED
      BY <1>1, <1>3, <3>1, <3>2, <3>3
  <2> QED
    BY <2>1 DEF GiveInv
<1>10. GateHeld' /\ RetInv'
  BY <1>1 DEF PlaceTypeOK, GateHeld, RetInv
<1>11. DoneInv'
  BY <1>1, <1>3 DEF DoneInv
<1> QED
  BY <1>5, <1>6, <1>8, <1>9, <1>10, <1>11

(* A call takes a Mntrpc that nobody has: from the free list, or a new one. *)
LEMMA Taken ==
  ASSUME PlaceTypeOK, AllocInv, NEW p \in Proc, MntCall(p)
  PROVE  \E r \in Rpc :
           /\ \A x \in Proc : rpc[x] # r
           /\ rpc' = [rpc EXCEPT ![p] = r] /\ done' = [done EXCEPT ![r] = FALSE]
           /\ queue' = <<r>> \o queue
           /\ rpcfree' \in Seq(Rpc) /\ IsInjective(rpcfree')
           /\ ToSet(rpcfree') = ToSet(rpcfree) \ {r}
           /\ nrpc' \in Rpc \cup {0} /\ nrpc <= nrpc' /\ r <= nrpc'
           /\ \A q \in 1..nrpc' : q <= nrpc \/ q = r
<1>1. nrpc \in Nat /\ \A r \in Rpc : r \in Nat \ {0}
  BY RpcNumbers DEF PlaceTypeOK
<1>2. CASE rpcfree # <<>>
  <2> DEFINE r == Head(rpcfree)
  <2>1. /\ rpc' = [rpc EXCEPT ![p] = r] /\ done' = [done EXCEPT ![r] = FALSE]
        /\ queue' = <<r>> \o queue /\ nrpc' = nrpc /\ rpcfree' = Tail(rpcfree)
    BY <1>2 DEF MntCall
  <2>2. rpcfree \in Seq(Rpc) /\ Distinct(rpcfree)
    BY SameMembers DEF PlaceTypeOK, AllocInv
  <2>3. /\ r \in Rpc /\ Tail(rpcfree) \in Seq(Rpc) /\ r \in Members(rpcfree)
        /\ Members(Tail(rpcfree)) = Members(rpcfree) \ {r} /\ Distinct(Tail(rpcfree))
    BY <1>2, <2>2, OffHead
  <2> HIDE DEF r
  <2>4. r \in ToSet(rpcfree) /\ r <= nrpc /\ \A x \in Proc : rpc[x] # r
    BY <2>3, SameMembers DEF AllocInv
  <2>5. /\ rpcfree' \in Seq(Rpc) /\ IsInjective(rpcfree')
        /\ ToSet(rpcfree') = ToSet(rpcfree) \ {r}
    BY <2>1, <2>3, SameMembers
  <2>6. nrpc' \in Rpc \cup {0} /\ nrpc <= nrpc'
    BY <1>1, <2>1 DEF PlaceTypeOK
  <2>7. \A q \in 1..nrpc' : q <= nrpc
    BY <1>1, <2>1
  <2> QED
    BY <2>1, <2>3, <2>4, <2>5, <2>6, <2>7
<1>3. CASE rpcfree = <<>>
  <2> DEFINE r == nrpc + 1
  <2>1. /\ rpc' = [rpc EXCEPT ![p] = r] /\ done' = [done EXCEPT ![r] = FALSE]
        /\ queue' = <<r>> \o queue /\ nrpc' = r /\ rpcfree' = rpcfree
    BY <1>3 DEF MntCall
  <2>2. ~InCall(p)
    BY DEF MntCall, Goto, InCall
  <2>3. r \in Rpc
    BY <1>3, <2>2, RoomForOne
  <2>4. /\ \A x \in Proc : rpc[x] # r
        /\ r \notin ToSet(rpcfree)
    <3>1. \A x \in Proc : rpc[x] <= nrpc /\ rpc[x] \in Nat
      <4>1. \A x \in Proc : rpc[x] \in Rpc \cup {0}
        BY DEF PlaceTypeOK
      <4> QED
        BY <1>1, <4>1 DEF AllocInv
    <3>2. ToSet(rpcfree) = {}
      BY <1>3 DEF ToSet
    <3> QED
      BY <1>1, <3>1, <3>2
  <2>5. /\ rpcfree' \in Seq(Rpc) /\ IsInjective(rpcfree')
        /\ ToSet(rpcfree') = ToSet(rpcfree) \ {r}
    BY <2>1, <2>4 DEF PlaceTypeOK, AllocInv
  <2>6. nrpc <= nrpc' /\ r <= nrpc' /\ \A q \in 1..nrpc' : q <= nrpc \/ q = r
    BY <1>1, <2>1
  <2> HIDE DEF r
  <2> QED
    BY <2>1, <2>3, <2>4, <2>5, <2>6
<1> QED
  BY <1>2, <1>3

LEMMA MntCallKeeps == ASSUME PlaceInv, NEW p \in Proc, MntCall(p) PROVE PlaceInv'
<1> USE DEF PlaceInv
<1>1. PICK r \in Rpc :
        /\ \A x \in Proc : rpc[x] # r
        /\ rpc' = [rpc EXCEPT ![p] = r] /\ done' = [done EXCEPT ![r] = FALSE]
        /\ queue' = <<r>> \o queue
        /\ rpcfree' \in Seq(Rpc) /\ IsInjective(rpcfree')
        /\ ToSet(rpcfree') = ToSet(rpcfree) \ {r}
        /\ nrpc' \in Rpc \cup {0} /\ nrpc <= nrpc' /\ r <= nrpc'
        /\ \A q \in 1..nrpc' : q <= nrpc \/ q = r
  BY Taken
<1>2. /\ pc[p] = "out" /\ pc' = [pc EXCEPT ![p] = "write"]
      /\ UNCHANGED <<ret, give, rip, asked>>
  BY DEF MntCall, Goto
<1>3. /\ \A x \in Proc : InCall(x)' <=> InCall(x) \/ x = p
      /\ \A x \in Proc \ {p} : rpc'[x] = rpc[x] /\ pc'[x] = pc[x]
      /\ rpc'[p] = r /\ pc'[p] = "write" /\ ~InCall(p) /\ r # 0
      /\ \A q \in Rpc : done'[q] <=> done[q] /\ q # r
  BY <1>1, <1>2, RpcNumbers DEF PlaceTypeOK, InCall
<1>4. /\ queue' \in Seq(Rpc) /\ IsInjective(queue')
      /\ ToSet(queue') = ToSet(queue) \cup {r}
  <2>1. queue \in Seq(Rpc) /\ Distinct(queue)
    BY SameMembers DEF PlaceTypeOK, QueueInv
  <2>2. r \notin Members(queue)
    BY <1>1, SameMembers DEF QueueInv
  <2>3. /\ queue' \in Seq(Rpc) /\ Distinct(queue')
        /\ Members(queue') = Members(queue) \cup {r}
    BY <1>1, <2>1, <2>2, AtFront
  <2> QED
    BY <2>3, SameMembers
<1>5. PlaceTypeOK'
  BY <1>1, <1>2, <1>4 DEF PlaceTypeOK
<1>6. AllocInv'
  <2>1. \A x \in Proc : rpc'[x] = 0 <=> ~InCall(x)'
    BY <1>3 DEF AllocInv
  <2>2. \A x, y \in Proc : rpc'[x] = rpc'[y] => x = y \/ rpc'[x] = 0
    BY <1>1, <1>3 DEF AllocInv
  <2>3. \A x \in Proc : rpc'[x] \notin ToSet(rpcfree')
    BY <1>1, <1>3 DEF AllocInv
  <2>4. \A q \in 1..nrpc' : q \in ToSet(rpcfree') \/ \E x \in Proc : rpc'[x] = q
    <3> SUFFICES ASSUME NEW q \in 1..nrpc', q # r
                 PROVE  q \in ToSet(rpcfree') \/ \E x \in Proc : rpc'[x] = q
      BY <1>3
    <3>4. nrpc \in Nat /\ nrpc' \in Nat
      BY <1>1, RpcNumbers DEF PlaceTypeOK
    <3>5. q <= nrpc
      BY <1>1, Zenon
    <3>1. q \in 1..nrpc
      BY <3>4, <3>5
    <3>2. CASE q \in ToSet(rpcfree)
      BY <1>1, <3>2
    <3>3. CASE \E x \in Proc : rpc[x] = q
      <4>1. PICK x \in Proc : rpc[x] = q
        BY <3>3
      <4>2. x # p
        BY <1>3, <3>1, <4>1 DEF AllocInv
      <4> QED
        BY <1>3, <4>1, <4>2
    <3> QED
      BY <3>1, <3>2, <3>3 DEF AllocInv
  <2>5. \A x \in Proc : rpc'[x] <= nrpc'
    <3>1. /\ nrpc \in Nat /\ nrpc' \in Nat
          /\ \A x \in Proc : rpc[x] \in Nat /\ rpc[x] <= nrpc
      BY <1>1, RpcNumbers DEF AllocInv, PlaceTypeOK
    <3> QED
      BY <1>1, <1>3, <3>1
  <2>6. \A q \in ToSet(rpcfree') : q <= nrpc'
    <3>1. nrpc \in Nat /\ nrpc' \in Nat
      BY <1>1, RpcNumbers DEF PlaceTypeOK
    <3>2. \A q \in ToSet(rpcfree) : q \in Nat /\ q <= nrpc
      BY RpcNumbers DEF AllocInv, PlaceTypeOK, ToSet
    <3> QED
      BY <1>1, <3>1, <3>2
  <2> QED
    BY <1>1, <2>1, <2>2, <2>3, <2>4, <2>5, <2>6 DEF AllocInv
<1>7. \A q : BeingGiven(q)' <=> BeingGiven(q)
  BY <1>2 DEF BeingGiven, PlaceTypeOK
<1>8. ~BeingGiven(r)
  BY <1>1 DEF BeingGiven, GiveInv
<1>9. QueueInv'
  <2>1. \A x, y \in Proc : InCall(x)' /\ InCall(y)' /\ x # y => rpc'[x] # rpc'[y]
    BY <1>1, <1>3 DEF QueueInv
  <2>2. \A x \in Proc : InCall(x)' => rpc'[x] \notin ToSet(rpcfree')
    BY <1>6 DEF AllocInv
  <2>3. \A q \in Rpc : q \in ToSet(queue') <=>
          \E x \in Proc : InCall(x)' /\ rpc'[x] = q /\ ~done'[q] /\ ~BeingGiven(q)'
    <3>1. \A q \in Rpc : q \in ToSet(queue) <=>
            \E x \in Proc : InCall(x) /\ rpc[x] = q /\ ~done[q] /\ ~BeingGiven(q)
      BY DEF QueueInv
    <3>2. \E x \in Proc : InCall(x)' /\ rpc'[x] = r /\ ~done'[r] /\ ~BeingGiven(r)'
      BY <1>3, <1>7, <1>8
    <3>3. \A q \in Rpc \ {r}, x \in Proc :
            InCall(x)' /\ rpc'[x] = q /\ ~done'[q] <=> InCall(x) /\ rpc[x] = q /\ ~done[q]
      BY <1>3
    <3> QED
      BY <1>4, <1>7, <3>1, <3>2, <3>3
  <2> QED
    BY <1>1, <1>4, <2>1, <2>2, <2>3 DEF QueueInv
<1>10. GiveInv'
  <2>1. ASSUME NEW x \in Proc, pc'[x] = "give"
        PROVE  /\ give'[x] # rpc'[x] /\ give'[x] # 0 /\ ~done'[give'[x]]
               /\ \E y \in Proc : rpc'[y] = give'[x]
    <3>1. /\ x # p /\ pc[x] = "give" /\ give[x] # rpc[x] /\ give[x] # 0 /\ ~done[give[x]]
          /\ rpc'[x] = rpc[x] /\ give[x] \in Rpc
      BY <1>3, <2>1 DEF GiveInv, PlaceTypeOK
    <3>2. PICK y \in Proc : rpc[y] = give[x]
      BY <3>1 DEF GiveInv
    <3>3. y # p
      BY <1>3, <3>1, <3>2 DEF AllocInv
    <3> QED
      BY <1>2, <1>3, <3>1, <3>2, <3>3
  <2> QED
    BY <2>1 DEF GiveInv
<1>11. GateHeld' /\ RetInv'
  BY <1>2 DEF PlaceTypeOK, GateHeld, RetInv
<1>12. DoneInv'
  <2>1. \A x \in Proc : rpc[x] \in Rpc \/ pc[x] = "out"
    BY DEF PlaceTypeOK, AllocInv, InCall
  <2> QED
    BY <1>1, <1>2, <1>3, <2>1 DEF DoneInv
<1> QED
  BY <1>5, <1>6, <1>9, <1>10, <1>11, <1>12

-----------------------------------------------------------------------------
(* Where the Mntrpcs are, and who has the gate. *)

LEMMA StillKeeps == ASSUME PlaceInv, UNCHANGED clientVars PROVE PlaceInv'
<1> USE DEF PlaceInv
<1>1. UNCHANGED <<pc, ret, rpc, give, nrpc, rpcfree, queue, rip, done, asked>>
  BY DEF clientVars, alloc, rpcs, mnt
<1>2. AllocInv' /\ QueueInv' /\ GiveInv'
  BY <1>1, QuietKeeps
<1>3. PlaceTypeOK' /\ GateHeld' /\ RetInv' /\ DoneInv'
  BY <1>1 DEF PlaceTypeOK, GateHeld, RetInv, DoneInv
<1> QED
  BY <1>2, <1>3

LEMMA BreakKeeps == ASSUME PlaceInv, Break PROVE PlaceInv'
<1> USE DEF PlaceInv
<1>1. UNCHANGED <<pc, ret, rpc, give, nrpc, rpcfree, queue, rip, done, asked>>
  BY DEF Break, alloc, rpcs, mnt
<1>2. AllocInv' /\ QueueInv' /\ GiveInv'
  BY <1>1, QuietKeeps
<1>3. PlaceTypeOK' /\ GateHeld' /\ RetInv' /\ DoneInv'
  BY <1>1 DEF PlaceTypeOK, GateHeld, RetInv, DoneInv
<1> QED
  BY <1>2, <1>3

LEMMA InitInv == Init => PlaceInv
<1> SUFFICES ASSUME Init PROVE PlaceInv
  OBVIOUS
<1> USE DEF Init
<1>1. nrpc = 0 /\ ToSet(<<>>) = {} /\ IsInjective(<<>>)
  BY DEF ToSet, IsInjective
<1>2. \A p \in Proc : ~InCall(p) /\ rpc[p] = 0 /\ pc[p] = "out"
  BY DEF InCall
<1>3. PlaceTypeOK
  BY DEF PlaceTypeOK
<1>4. AllocInv
  BY <1>1, <1>2 DEF AllocInv
<1>5. QueueInv
  BY <1>1, <1>2 DEF QueueInv
<1>6. GateHeld
  BY <1>2, RpcNumbers DEF GateHeld
<1>7. RetInv /\ GiveInv /\ DoneInv
  BY <1>2 DEF RetInv, GiveInv, DoneInv
<1> QED
  BY <1>3, <1>4, <1>5, <1>6, <1>7 DEF PlaceInv

LEMMA InductiveStep ==
  ASSUME GivenMayFail = FALSE, PlaceInv, [Next]_vars
  PROVE  PlaceInv'
<1>1. CASE Server
  BY <1>1, StillKeeps DEF Server
<1>2. CASE Break
  BY <1>2, BreakKeeps
<1>3. ASSUME NEW p \in Proc, MntCall(p) PROVE PlaceInv'
  BY <1>3, MntCallKeeps
<1>4. ASSUME NEW p \in Proc, Step(p) PROVE PlaceInv'
  BY <1>4, WriteKeeps, GateKeeps, SleepKeeps, WokenKeeps, ReadDoneKeeps, ReadKeeps,
     MuxKeeps, GiveKeeps, WakeKeeps, MntGateKeeps, FlushWriteKeeps, FlushErrorKeeps,
     MntFreeKeeps DEF Step
<1>5. ASSUME NEW p \in Proc, Error(p) PROVE PlaceInv'
  BY <1>5, WriteErrorKeeps, SleepErrorKeeps, ReadErrorKeeps, FlushInterruptedKeeps DEF Error
<1>6. CASE UNCHANGED vars
  BY <1>6, StillKeeps DEF vars, clientVars
<1> QED
  BY <1>1, <1>2, <1>3, <1>4, <1>5, <1>6 DEF Next

LEMMA Inductive == ASSUME GivenMayFail = FALSE PROVE Spec => []PlaceInv
<1>1. PlaceInv /\ [Next]_vars => PlaceInv'
  BY InductiveStep
<1> QED
  BY <1>1, InitInv, PTL DEF Spec

(* mntralloc, mntfree, mountmux and mntqrm: a Mntrpc is free or with one   *)
(* call, and on the queue exactly while its call is not completed.         *)
THEOREM QueueCorrect == ASSUME GivenMayFail = FALSE PROVE Spec => []QueueInv
<1>1. PlaceInv => QueueInv
  BY DEF PlaceInv
<1> QED
  BY <1>1, Inductive, PTL

(* mountio and mntgate: exactly the process that reads holds the gate.     *)
THEOREM GateCorrect == ASSUME GivenMayFail = FALSE PROVE Spec => []GateHeld
<1>1. PlaceInv => GateHeld
  BY DEF PlaceInv
<1> QED
  BY <1>1, Inductive, PTL
-----------------------------------------------------------------------------
(* Messages and tags. *)

LEMMA TagNumbers ==
  /\ Tag = Rpc /\ Tagfls \in Nat /\ MaxFlush \in Nat
  /\ \A r \in Rpc : r \in Nat /\ r > 0 /\ r <= Tagfls /\ r \notin FlushTag
  /\ \A f \in FlushTag : f \in Nat /\ f > Tagfls /\ f \notin Rpc
  /\ \A n \in 0..MaxFlush : n < MaxFlush => Tagfls + n + 1 \in FlushTag
  BY TagAssumption, RpcNumbers DEF Tagfls

LEMMA Kinds ==
  /\ \A m \in Request \cup Reply : m.tag \in Rpc /\ m.call \in Call
  /\ \A m \in Flush \cup Flushed : m.tag \in FlushTag
  /\ \A m \in Reply : m = [type |-> "R", tag |-> m.tag, call |-> m.call]
  /\ \A m \in Flushed : m = [type |-> "Rflush", tag |-> m.tag]
  BY TagNumbers DEF Request, Reply, Flush, Flushed

LEMMA Typed ==
  ASSUME TypeOK, HeldInv
  PROVE  /\ ToSet(toserver) \subseteq Request \cup Flush
         /\ ToSet(toclient) \subseteq Reply \cup Flushed
         /\ pending \subseteq Request /\ Held \subseteq Reply \cup Flushed
         /\ \A m \in Away : m.tag \in Rpc \cup FlushTag
<1>1. /\ ToSet(toserver) \subseteq Request \cup Flush
      /\ ToSet(toclient) \subseteq Reply \cup Flushed
      /\ pending \subseteq Request /\ Held \subseteq Reply \cup Flushed
  BY DEF TypeOK, ServerTypeOK, HeldInv, ToSet
<1> QED
  BY <1>1, Kinds DEF Away

LEMMA AwayTags ==
  /\ TagsOf(Away) = Carries(toserver) \cup TagsOf(pending) \cup Carries(toclient) \cup TagsOf(Held)
  /\ TagsOf(Away)' =
       Carries(toserver') \cup TagsOf(pending') \cup Carries(toclient') \cup TagsOf(Held')
<1>1. TagsOf(Away) = Carries(toserver) \cup TagsOf(pending) \cup Carries(toclient) \cup TagsOf(Held)
  BY DEF Away, Carries, TagsOf
<1>2. TagsOf(Away)' =
        Carries(toserver') \cup TagsOf(pending') \cup Carries(toclient') \cup TagsOf(Held')
  BY DEF Away, Carries, TagsOf
<1> QED
  BY <1>1, <1>2

(* A message goes to the end of a queue, *)
LEMMA Queued ==
  ASSUME NEW M, NEW s \in Seq(M), NEW m \in M
  PROVE  LET t == Append(s, m) IN
         /\ t \in Seq(M) /\ ToSet(t) = ToSet(s) \cup {m}
         /\ Carries(t) = Carries(s) \cup {m.tag}
         /\ \A r : Single(s, r) /\ (r = m.tag => r \notin Carries(s)) => Single(t, r)
         /\ \A r, f : Precedes(s, r, f) /\ r # m.tag => Precedes(t, r, f)
         /\ \A r, f : f \notin Carries(t) => Precedes(t, r, f)
<1> DEFINE t == Append(s, m)
<1>1. /\ t \in Seq(M) /\ Len(s) \in Nat
      /\ DOMAIN s = 1 .. Len(s) /\ DOMAIN t = 1 .. (Len(s) + 1)
      /\ t[Len(s) + 1] = m /\ \A i \in 1 .. Len(s) : t[i] = s[i]
  OBVIOUS
<1> HIDE DEF t
<1>2. /\ 1 .. (Len(s) + 1) = 1 .. Len(s) \cup {Len(s) + 1}
      /\ \A i \in 1 .. Len(s) : i < Len(s) + 1 /\ i # Len(s) + 1
  BY <1>1
<1>3. ToSet(t) = ToSet(s) \cup {m}
  BY <1>1, <1>2 DEF ToSet
<1>4. Carries(t) = Carries(s) \cup {m.tag}
  BY <1>3 DEF Carries, TagsOf
<1>5. \A i \in 1 .. Len(s) : s[i].tag \in Carries(s)
  BY <1>1 DEF Carries, TagsOf, ToSet
<1>6. \A r : Single(s, r) /\ (r = m.tag => r \notin Carries(s)) => Single(t, r)
  BY <1>1, <1>2, <1>5 DEF Single
<1>7. \A r, f : Precedes(s, r, f) /\ r # m.tag => Precedes(t, r, f)
  BY <1>1, <1>2 DEF Precedes
<1>8. \A i \in DOMAIN t : t[i].tag \in Carries(t)
  BY <1>1 DEF Carries, TagsOf, ToSet
<1>9. \A r, f : f \notin Carries(t) => Precedes(t, r, f)
  BY <1>8 DEF Precedes
<1> QED
  BY <1>1, <1>3, <1>4, <1>6, <1>7, <1>9 DEF t

(* and the first of a queue is taken. *)
LEMMA Dequeued ==
  ASSUME NEW M, NEW s \in Seq(M), s # <<>>
  PROVE  LET t == Tail(s)  m == Head(s) IN
         /\ t \in Seq(M) /\ m \in M /\ ToSet(s) = ToSet(t) \cup {m}
         /\ Carries(s) = Carries(t) \cup {m.tag}
         /\ \A r : Single(s, r) => Single(t, r) /\ (r = m.tag => r \notin Carries(t))
         /\ \A r, f : Precedes(s, r, f) =>
              Precedes(t, r, f) /\ (f = m.tag => r \notin Carries(s))
<1> DEFINE t == Tail(s)
           m == Head(s)
<1>1. /\ t \in Seq(M) /\ m \in M /\ Len(s) \in Nat \ {0} /\ m = s[1]
      /\ DOMAIN s = 1 .. Len(s) /\ DOMAIN t = 1 .. (Len(s) - 1)
      /\ \A i \in 1 .. (Len(s) - 1) : t[i] = s[i + 1]
  OBVIOUS
<1> HIDE DEF t, m
<1>2. /\ \A i \in 1 .. Len(s) : i = 1 \/ (i - 1 \in 1 .. (Len(s) - 1) /\ t[i - 1] = s[i])
      /\ \A i \in 1 .. (Len(s) - 1) : i + 1 \in 1 .. Len(s) /\ i + 1 # 1
      /\ 1 \in 1 .. Len(s) /\ \A i \in 1 .. Len(s) : ~(i < 1)
  BY <1>1
<1>3. ToSet(s) = ToSet(t) \cup {m}
  <2>1. \A i \in 1 .. Len(s) : s[i] \in ToSet(t) \cup {m}
    BY <1>1, <1>2 DEF ToSet
  <2>2. \A i \in 1 .. (Len(s) - 1) : t[i] \in ToSet(s)
    BY <1>1, <1>2 DEF ToSet
  <2>3. m \in ToSet(s)
    BY <1>1, <1>2 DEF ToSet
  <2>4. \A v \in ToSet(s) : \E i \in 1 .. Len(s) : v = s[i]
    BY <1>1 DEF ToSet
  <2>5. \A v \in ToSet(t) : \E i \in 1 .. (Len(s) - 1) : v = t[i]
    BY <1>1 DEF ToSet
  <2> QED
    BY <2>1, <2>2, <2>3, <2>4, <2>5
<1>4. Carries(s) = Carries(t) \cup {m.tag}
  BY <1>3 DEF Carries, TagsOf
<1>5. /\ \A r : r \in Carries(t) => \E i \in 1 .. (Len(s) - 1) : t[i].tag = r
      /\ \A r : r \in Carries(s) => \E i \in 1 .. Len(s) : s[i].tag = r
  BY <1>1 DEF Carries, TagsOf, ToSet
<1>6. ASSUME NEW r, Single(s, r) PROVE Single(t, r) /\ (r = m.tag => r \notin Carries(t))
  <2>1. Single(t, r)
    <3> SUFFICES ASSUME NEW i \in 1 .. (Len(s) - 1), NEW j \in 1 .. (Len(s) - 1),
                        t[i].tag = r, t[j].tag = r
                 PROVE  i = j
      BY <1>1 DEF Single
    <3>1. /\ i + 1 \in DOMAIN s /\ j + 1 \in DOMAIN s
          /\ s[i + 1].tag = r /\ s[j + 1].tag = r
      BY <1>1, <1>2
    <3>2. i + 1 = j + 1
      BY <1>6, <3>1 DEF Single
    <3> QED
      BY <3>2
  <2>2. ASSUME NEW i \in 1 .. (Len(s) - 1), t[i].tag = r, r = m.tag PROVE FALSE
    BY <1>1, <1>2, <1>6, <2>2 DEF Single
  <2> QED
    BY <1>5, <2>1, <2>2
<1>7. ASSUME NEW r, NEW f, Precedes(s, r, f)
      PROVE  Precedes(t, r, f) /\ (f = m.tag => r \notin Carries(s))
  <2>1. Precedes(t, r, f)
    <3> SUFFICES ASSUME NEW i \in 1 .. (Len(s) - 1), NEW j \in 1 .. (Len(s) - 1),
                        t[i].tag = r, t[j].tag = f
                 PROVE  i < j
      BY <1>1 DEF Precedes
    <3>1. /\ i + 1 \in DOMAIN s /\ j + 1 \in DOMAIN s
          /\ s[i + 1].tag = r /\ s[j + 1].tag = f
      BY <1>1, <1>2
    <3>2. i + 1 < j + 1
      BY <1>7, <3>1 DEF Precedes
    <3> QED
      BY <3>2
  <2>2. ASSUME NEW i \in 1 .. Len(s), s[i].tag = r, f = m.tag PROVE FALSE
    BY <1>1, <1>2, <1>7, <2>2 DEF Precedes
  <2> QED
    BY <1>5, <2>1, <2>2
<1> QED
  BY <1>1, <1>3, <1>4, <1>6, <1>7 DEF t, m

-----------------------------------------------------------------------------
(* What the reader holds. *)

LEMMA HeldBy ==
  ASSUME PlaceInv, NEW p \in Proc
  PROVE  /\ pc[p] \in {"mux", "give"} => Held = {reply[rpc[p]]}
         /\ pc[p] \in {"read", "release"} => Held = {}
         /\ pc[p] \in {"mux", "give", "read", "release"} =>
              \A x \in Proc \ {p} : pc[x] \notin {"mux", "give"}
<1>1. pc[p] \in {"mux", "give", "read", "release"} =>
        \A x \in Proc \ {p} : pc[x] \notin {"mux", "give"}
  BY DEF PlaceInv, GateHeld
<1> QED
  BY <1>1 DEF Held

(* Who holds a message goes on holding it. *)
LEMMA HeldStays ==
  ASSUME \A x \in Proc : pc'[x] \in {"mux", "give"} =>
           pc[x] \in {"mux", "give"} /\ reply'[rpc'[x]] = reply[rpc[x]]
  PROVE  Held' \subseteq Held
  BY DEF Held

(* No message comes. *)
Less == /\ Held' \subseteq Held
        /\ \/ UNCHANGED serverVars
           \/ toserver' = <<>> /\ toclient' = <<>> /\ pending' = {}

LEMMA LessAway ==
  ASSUME Less
  PROVE  /\ Away' \subseteq Away /\ TagsOf(Away)' \subseteq TagsOf(Away)
         /\ ToSet(toserver)' \subseteq ToSet(toserver)
         /\ Carries(toserver)' \subseteq Carries(toserver)
         /\ Carries(toclient)' \subseteq Carries(toclient)
         /\ TagsOf(pending)' \subseteq TagsOf(pending) /\ TagsOf(Held)' \subseteq TagsOf(Held)
         /\ \A r : Single(toserver, r) => Single(toserver, r)'
         /\ \A r : Single(toclient, r) => Single(toclient, r)'
         /\ \A r, f : Precedes(toserver, r, f) => Precedes(toserver, r, f)'
         /\ \A r, f : Precedes(toclient, r, f) => Precedes(toclient, r, f)'
<1>1. ToSet(<<>>) = {} /\ \A r, f : Single(<<>>, r) /\ Precedes(<<>>, r, f)
  BY DEF ToSet, Single, Precedes
<1>2. /\ ToSet(toserver)' \subseteq ToSet(toserver) /\ ToSet(toclient)' \subseteq ToSet(toclient)
      /\ pending' \subseteq pending /\ Held' \subseteq Held
  BY <1>1 DEF Less, serverVars
<1>3. /\ \A r : Single(toserver, r) => Single(toserver, r)'
      /\ \A r : Single(toclient, r) => Single(toclient, r)'
      /\ \A r, f : Precedes(toserver, r, f) => Precedes(toserver, r, f)'
      /\ \A r, f : Precedes(toclient, r, f) => Precedes(toclient, r, f)'
  BY <1>1 DEF Less, serverVars
<1>4. Away' \subseteq Away
  BY <1>2 DEF Away
<1> QED
  BY <1>2, <1>3, <1>4 DEF Carries, TagsOf

LEMMA LessOnce ==
  ASSUME OnceInv, Less
  PROVE  OnceInv'
  BY LessAway DEF OnceInv, TagsOf, Less, serverVars

-----------------------------------------------------------------------------
(* The server's steps. *)

LEMMA Caller ==
  ASSUME PlaceInv, TypeOK, NEW p \in Proc, pc[p] # "out"
  PROVE  /\ rpc[p] \in Rpc /\ flushtag[rpc[p]] \in {0} \cup FlushTag
         /\ 0 \notin Rpc /\ 0 \notin FlushTag
         /\ \A x \in Proc \ {p} : rpc[x] # rpc[p]
  BY RpcNumbers, TagNumbers DEF PlaceInv, PlaceTypeOK, AllocInv, InCall, TypeOK

LEMMA ServerFrame ==
  ASSUME MsgInv, UNCHANGED clientVars,
         toserver' \in Seq(Request \cup Flush), toclient' \in Seq(Reply \cup Flushed),
         pending' \subseteq Request, ~broken,
         TagsOf(Away)' \subseteq TagsOf(Away)
  PROVE  /\ TypeOK' /\ FlushInv' /\ HeldInv' /\ OwnerInv' /\ Held' = Held
         /\ \A x \in Proc : Live(x)' <=> Live(x)
<1> USE DEF MsgInv
<1>1. /\ UNCHANGED <<pc, ret, rpc, give, nrpc, rpcfree, use, done, flushed, flushtag, reply>>
      /\ UNCHANGED <<queue, rip, flushbase, broken, asked>>
  BY DEF clientVars, alloc, rpcs, mnt
<1>2. Held' = Held
  BY <1>1 DEF Held
<1>3. \A x \in Proc : Live(x)' <=> Live(x)
  BY <1>1 DEF Live
<1>4. TypeOK'
  BY <1>1 DEF TypeOK, PlaceTypeOK, ServerTypeOK
<1>5. FlushInv'
  BY <1>1 DEF FlushInv
<1>6. HeldInv'
  BY <1>1, <1>2 DEF HeldInv, Matches
<1>7. OwnerInv'
  BY <1>1, <1>3 DEF OwnerInv, InCall, TagsOf
<1> QED
  BY <1>2, <1>3, <1>4, <1>5, <1>6, <1>7

LEMMA ReadRequestKeeps ==
  ASSUME MsgInv, ReadRequest, UNCHANGED clientVars
  PROVE  MsgInv'
<1> USE DEF MsgInv
<1>1. PICK h : /\ h = Head(toserver) /\ toserver # <<>> /\ toserver' = Tail(toserver)
               /\ h.type = "T" /\ pending' = pending \cup {h} /\ toclient' = toclient
  BY DEF ReadRequest
<1>t. toserver \in Seq(Request \cup Flush)
  BY DEF TypeOK, ServerTypeOK
<1>2. /\ toserver' \in Seq(Request \cup Flush) /\ h \in Request \cup Flush
      /\ ToSet(toserver) = ToSet(toserver') \cup {h}
      /\ Carries(toserver) = Carries(toserver') \cup {h.tag}
      /\ \A r : Single(toserver, r) => Single(toserver', r) /\ (r = h.tag => r \notin Carries(toserver'))
      /\ \A r, f : Precedes(toserver, r, f) => Precedes(toserver', r, f)
  <2> HIDE DEF MsgInv
  <2> QED
    BY <1>1, <1>t, Dequeued
<1>3. h \in Request /\ h.tag \in Rpc
  BY <1>1, <1>2, Kinds DEF Flush
<1>4. ~broken /\ Held' = Held
  BY <1>1 DEF OwnerInv, Held, clientVars, rpcs
<1>5. Away' = Away /\ TagsOf(Away)' = TagsOf(Away)
  BY <1>1, <1>2, <1>4 DEF Away, TagsOf
<1>6. TagsOf(pending') = TagsOf(pending) \cup {h.tag}
  BY <1>1 DEF TagsOf
<1>7. /\ TypeOK' /\ FlushInv' /\ HeldInv' /\ OwnerInv'
      /\ \A x \in Proc : Live(x)' <=> Live(x)
  <2>1. /\ toserver' \in Seq(Request \cup Flush) /\ toclient' \in Seq(Reply \cup Flushed)
        /\ pending' \subseteq Request
    BY <1>1, <1>2, <1>3 DEF TypeOK, ServerTypeOK
  <2> QED
    BY <1>4, <1>5, <2>1, ServerFrame
<1>8. OnceInv'
  <2> SUFFICES ASSUME NEW r \in Rpc
               PROVE  /\ Single(toserver, r)' /\ Single(toclient, r)'
                      /\ \A m, n \in pending' : m.tag = r /\ n.tag = r => m = n
                      /\ r \in Carries(toserver') =>
                           r \notin TagsOf(pending') \cup Carries(toclient') \cup TagsOf(Held')
                      /\ r \in TagsOf(pending') => r \notin Carries(toclient') \cup TagsOf(Held')
                      /\ r \in Carries(toclient') => r \notin TagsOf(Held')
    BY DEF OnceInv
  <2>1. Single(toserver, r)' /\ Single(toclient, r)'
    BY <1>1, <1>2 DEF OnceInv
  <2>2. r = h.tag => r \notin TagsOf(pending)
    BY <1>2 DEF OnceInv
  <2>3. \A m, n \in pending' : m.tag = r /\ n.tag = r => m = n
    BY <1>1, <2>2 DEF OnceInv, TagsOf
  <2> QED
    BY <1>1, <1>2, <1>4, <1>6, <2>1, <2>3 DEF OnceInv
<1>9. CallInv'
  <2> SUFFICES ASSUME NEW p \in Proc, Live(p), CallOK(p) PROVE CallOK(p)'
    BY <1>7 DEF CallInv
  <2>1. UNCHANGED <<pc, rpc, use, done, flushed, flushtag, reply>>
    BY DEF clientVars, alloc, rpcs
  <2> QED
    BY <1>1, <1>2, <1>4, <1>5, <1>6, <2>1 DEF CallOK, TheRequest
<1> QED
  BY <1>7, <1>8, <1>9

LEMMA ReadFlushKeeps ==
  ASSUME MsgInv, ReadFlush, UNCHANGED clientVars
  PROVE  MsgInv'
<1> USE DEF MsgInv
<1>1. PICK h : /\ h = Head(toserver) /\ toserver # <<>> /\ toserver' = Tail(toserver)
               /\ h.type = "Tflush"
  BY DEF ReadFlush
<1>t. toserver \in Seq(Request \cup Flush) /\ toclient \in Seq(Reply \cup Flushed)
  BY DEF TypeOK, ServerTypeOK
<1>2. /\ toserver' \in Seq(Request \cup Flush) /\ h \in Request \cup Flush
      /\ ToSet(toserver) = ToSet(toserver') \cup {h}
      /\ Carries(toserver) = Carries(toserver') \cup {h.tag}
      /\ \A r : Single(toserver, r) => Single(toserver', r)
      /\ \A r, f : Precedes(toserver, r, f) =>
           Precedes(toserver', r, f) /\ (f = h.tag => r \notin Carries(toserver))
  <2> HIDE DEF MsgInv
  <2> QED
    BY <1>1, <1>t, Dequeued
<1>3. h \in Flush /\ h.tag \in FlushTag /\ h.tag \notin Rpc
  BY <1>1, <1>2, Kinds, TagNumbers DEF Request
<1>4. ~broken /\ Held' = Held
  BY <1>1 DEF OwnerInv, Held, clientVars, rpcs
<1> DEFINE n == [type |-> "Rflush", tag |-> h.tag]
<1>n. n \in Flushed /\ n.tag = h.tag
  BY <1>3 DEF Flushed
<1> HIDE DEF n
<1>5. /\ toclient' \in Seq(Reply \cup Flushed) /\ pending' \subseteq pending
      /\ ToSet(toclient') \subseteq ToSet(toclient) \cup {n}
      /\ Carries(toclient') \subseteq Carries(toclient) \cup {h.tag}
      /\ \A r : r # h.tag /\ Single(toclient, r) => Single(toclient', r)
      /\ \A r, f : r # h.tag /\ Precedes(toclient, r, f) => Precedes(toclient', r, f)
      /\ h.tag \in Carries(toclient') =>
           h.tag \in Carries(toclient) \/ \A m \in pending' : m.tag # h.oldtag
  <2>1. CASE AnswersFlush
    <3>1. /\ pending' = {m \in pending : m.tag # h.oldtag}
          /\ toclient' = Append(toclient, n)
      BY <1>1, <2>1 DEF ReadFlush, n
    <3>2. /\ toclient' \in Seq(Reply \cup Flushed) /\ ToSet(toclient') = ToSet(toclient) \cup {n}
          /\ Carries(toclient') = Carries(toclient) \cup {n.tag}
          /\ \A r : Single(toclient, r) /\ (r = n.tag => r \notin Carries(toclient)) => Single(toclient', r)
          /\ \A r, f : Precedes(toclient, r, f) /\ r # n.tag => Precedes(toclient', r, f)
      <4>1. n \in Reply \cup Flushed
        BY <1>n
      <4> HIDE DEF MsgInv
      <4> QED
        BY <1>t, <3>1, <4>1, Queued
    <3> QED
      BY <1>n, <3>1, <3>2
  <2>2. CASE ~AnswersFlush
    BY <1>t, <2>2 DEF ReadFlush
  <2> QED
    BY <2>1, <2>2
<1>6. Away' \subseteq Away \cup {n} /\ TagsOf(Away)' \subseteq TagsOf(Away)
  <2>1. Away' \subseteq Away \cup {n}
    BY <1>2, <1>4, <1>5 DEF Away
  <2>2. h \in Away
    BY <1>2 DEF Away
  <2> QED
    BY <1>n, <2>1, <2>2 DEF TagsOf
<1>7. /\ TypeOK' /\ FlushInv' /\ HeldInv' /\ OwnerInv'
      /\ \A x \in Proc : Live(x)' <=> Live(x)
  <2>1. pending' \subseteq Request
    BY <1>5 DEF TypeOK, ServerTypeOK
  <2> QED
    BY <1>2, <1>4, <1>5, <1>6, <2>1, ServerFrame
<1>8. TagsOf(pending') \subseteq TagsOf(pending)
  BY <1>5 DEF TagsOf
<1>9. OnceInv'
  BY <1>2, <1>3, <1>4, <1>5, <1>8 DEF OnceInv
<1>10. CallInv'
  <2> SUFFICES ASSUME NEW p \in Proc, Live(p), CallOK(p) PROVE CallOK(p)'
    BY <1>7 DEF CallInv
  <2> DEFINE r == rpc[p]
             f == flushtag[r]
  <2>1. UNCHANGED <<pc, rpc, use, done, flushed, flushtag, reply>>
    BY DEF clientVars, alloc, rpcs
  <2>2. r \in Rpc \cup {0} /\ r # h.tag
    BY <1>3, TagNumbers DEF TypeOK, PlaceTypeOK
  <2>3. \A m \in Away' : m.tag = r => m.call = use[r]
    BY <1>n, <1>6, <2>2 DEF CallOK
  <2>4. \A m \in ToSet(toserver') : m.tag = f => m.oldtag = r
    BY <1>2 DEF CallOK
  <2>5. Precedes(toserver', r, f) /\ Precedes(toclient', r, f)
    BY <1>2, <1>5, <2>2 DEF CallOK
  <2>6. f \in Carries(toclient') => r \notin Carries(toserver') \cup TagsOf(pending')
    <3>1. CASE f \in Carries(toclient)
      BY <1>2, <1>8, <3>1 DEF CallOK
    <3>2. CASE f = h.tag /\ \A m \in pending' : m.tag # h.oldtag
      <4>1. h.oldtag = r /\ r \notin Carries(toserver)
        BY <1>2, <3>2 DEF CallOK
      <4> QED
        BY <1>2, <3>2, <4>1 DEF TagsOf
    <3> QED
      BY <1>5, <3>1, <3>2
  <2>7. f \in TagsOf(Held') => r \notin TagsOf(Away)'
    BY <1>4, <1>6 DEF CallOK
  <2> QED
    BY <1>6, <2>1, <2>3, <2>4, <2>5, <2>6, <2>7 DEF CallOK, TheRequest
<1> QED
  BY <1>7, <1>9, <1>10

LEMMA AnswerKeeps ==
  ASSUME PlaceInv, MsgInv, NEW m \in pending, Answer(m), UNCHANGED clientVars
  PROVE  MsgInv'
<1> USE DEF MsgInv
<1> DEFINE n == [m EXCEPT !.type = "R"]
<1>1. /\ pending' = pending \ {m} /\ toclient' = Append(toclient, n) /\ toserver' = toserver
      /\ toclient \in Seq(Reply \cup Flushed) /\ m \in Request
  BY DEF Answer, TypeOK, ServerTypeOK
<1>2. n \in Reply /\ n.tag = m.tag /\ n.call = m.call /\ m.tag \in Rpc
  BY <1>1, TagNumbers DEF Request, Reply
<1> HIDE DEF n
<1>3. /\ toclient' \in Seq(Reply \cup Flushed) /\ ToSet(toclient') = ToSet(toclient) \cup {n}
      /\ Carries(toclient') = Carries(toclient) \cup {m.tag}
      /\ \A r : Single(toclient, r) /\ (r = m.tag => r \notin Carries(toclient)) => Single(toclient', r)
      /\ \A r, f : Precedes(toclient, r, f) /\ r # m.tag => Precedes(toclient', r, f)
      /\ \A r, f : f \notin Carries(toclient') => Precedes(toclient', r, f)
  <2>1. n \in Reply \cup Flushed
    BY <1>2
  <2> HIDE DEF MsgInv
  <2> QED
    BY <1>1, <1>2, <2>1, Queued
<1>4. ~broken /\ Held' = Held
  BY <1>1 DEF OwnerInv, Held, clientVars, rpcs
<1>5. Away' \subseteq Away \cup {n} /\ TagsOf(Away)' \subseteq TagsOf(Away)
  <2>1. Away' \subseteq Away \cup {n} /\ m \in Away
    BY <1>1, <1>3, <1>4 DEF Away
  <2> QED
    BY <1>2, <2>1 DEF TagsOf
<1>6. /\ TypeOK' /\ FlushInv' /\ HeldInv' /\ OwnerInv'
      /\ \A x \in Proc : Live(x)' <=> Live(x)
  <2>1. /\ toserver' \in Seq(Request \cup Flush) /\ pending' \subseteq Request
    BY <1>1 DEF TypeOK, ServerTypeOK
  <2> QED
    BY <1>3, <1>4, <1>5, <2>1, ServerFrame
<1>7. m.tag \in TagsOf(pending) /\ TagsOf(pending') = TagsOf(pending) \ {m.tag}
  <2>1. \A k \in pending : k.tag = m.tag => k = m
    BY <1>2 DEF OnceInv
  <2> QED
    BY <1>1, <2>1 DEF TagsOf
<1>8. OnceInv'
  <2> SUFFICES ASSUME NEW r \in Rpc
               PROVE  /\ Single(toserver, r)' /\ Single(toclient, r)'
                      /\ \A k, q \in pending' : k.tag = r /\ q.tag = r => k = q
                      /\ r \in Carries(toserver') =>
                           r \notin TagsOf(pending') \cup Carries(toclient') \cup TagsOf(Held')
                      /\ r \in TagsOf(pending') => r \notin Carries(toclient') \cup TagsOf(Held')
                      /\ r \in Carries(toclient') => r \notin TagsOf(Held')
    BY DEF OnceInv
  <2>1. Single(toserver, r)' /\ Single(toclient, r)'
    BY <1>1, <1>3, <1>7 DEF OnceInv
  <2>2. \A k, q \in pending' : k.tag = r /\ q.tag = r => k = q
    BY <1>1 DEF OnceInv
  <2> QED
    BY <1>1, <1>3, <1>4, <1>7, <2>1, <2>2 DEF OnceInv
<1>9. CallInv'
  <2> SUFFICES ASSUME NEW p \in Proc, Live(p), CallOK(p) PROVE CallOK(p)'
    BY <1>6 DEF CallInv
  <2> DEFINE r == rpc[p]
             f == flushtag[r]
  <2>1. UNCHANGED <<pc, rpc, use, done, flushed, flushtag, reply>>
    BY DEF clientVars, alloc, rpcs
  <2>2. f # m.tag
    BY <1>2, Caller, TagNumbers DEF Live
  <2>3. \A k \in Away' : k.tag = r => k.call = use[r]
    <3>1. m \in Away
      BY DEF Away
    <3> QED
      BY <1>2, <1>5, <3>1 DEF CallOK
  <2>4. Precedes(toclient', r, f)
    <3>1. CASE r = m.tag
      BY <1>3, <1>7, <2>2, <3>1 DEF CallOK
    <3>2. CASE r # m.tag
      BY <1>3, <3>2 DEF CallOK
    <3> QED
      BY <3>1, <3>2
  <2>5. f \in Carries(toclient') => r \notin Carries(toserver') \cup TagsOf(pending')
    BY <1>1, <1>3, <1>7, <2>2 DEF CallOK
  <2>6. f \in TagsOf(Held') => r \notin TagsOf(Away)'
    BY <1>4, <1>5 DEF CallOK
  <2> QED
    BY <1>1, <1>5, <2>1, <2>3, <2>4, <2>5, <2>6 DEF CallOK, TheRequest
<1> QED
  BY <1>6, <1>8, <1>9

-----------------------------------------------------------------------------
(* Steps of the callers in which no message comes. *)

(* What the step of another leaves to the call of p. *)
Untouched(p) ==
  LET r == rpc[p] IN
  /\ rpc'[p] = r
  /\ pc'[p] \in {"write", "flush"} => pc'[p] = pc[p]
  /\ use'[r] = use[r] /\ flushtag'[r] = flushtag[r]
  /\ done'[r] = done[r] /\ flushed'[r] = flushed[r]
  /\ done[r] => reply'[r] = reply[r]

(* The messages that come bear neither of its tags. *)
Undisturbed(p) ==
  LET own == {rpc[p], flushtag[rpc[p]]} IN
  /\ \A m \in Away' : m \in Away \/ m.tag \notin own
  /\ \A m \in ToSet(toserver') : m \in ToSet(toserver) \/ m.tag \notin own
  /\ own \cap TagsOf(Away)' \subseteq TagsOf(Away)
  /\ own \cap Carries(toserver)' \subseteq Carries(toserver)
  /\ own \cap Carries(toclient)' \subseteq Carries(toclient)
  /\ own \cap TagsOf(pending)' \subseteq TagsOf(pending)
  /\ own \cap TagsOf(Held)' \subseteq TagsOf(Held)
  /\ \A r, f \in own : /\ Precedes(toserver, r, f) => Precedes(toserver, r, f)'
                       /\ Precedes(toclient, r, f) => Precedes(toclient, r, f)'

LEMMA LessUndisturbed == ASSUME Less PROVE \A p : Undisturbed(p)
  BY LessAway DEF Undisturbed

LEMMA CallStays ==
  ASSUME NEW p \in Proc, CallOK(p), Untouched(p), Undisturbed(p)
  PROVE  CallOK(p)'
<1> DEFINE r == rpc[p]
           f == flushtag[r]
<1> HIDE DEF r, f
<1>1. /\ rpc'[p] = r /\ flushtag'[r] = f
      /\ pc'[p] \in {"write", "flush"} => pc'[p] = pc[p]
      /\ use'[r] = use[r] /\ done'[r] = done[r] /\ flushed'[r] = flushed[r]
      /\ done[r] => reply'[r] = reply[r]
  BY DEF Untouched, r, f
<1>2. /\ pc[p] = "write" => ~done[r] /\ ~flushed[r] /\ f = 0
      /\ pc[p] = "flush" => f # 0
      /\ pc[p] = "write" \/ done[r] => r \notin TagsOf(Away)
      /\ done[r] => \/ reply[r] = [TheRequest(p) EXCEPT !.type = "R"]
                    \/ flushed[r] /\ reply[r] = [type |-> "Rflush", tag |-> f]
      /\ \A m \in Away : m.tag = r => m.call = use[r]
      /\ \A m \in ToSet(toserver) : m.tag = f => m.oldtag = r
      /\ Precedes(toserver, r, f) /\ Precedes(toclient, r, f)
      /\ f \in Carries(toclient) => r \notin Carries(toserver) \cup TagsOf(pending)
      /\ f \in TagsOf(Held) => r \notin TagsOf(Away)
  BY DEF CallOK, r, f
<1>3. TheRequest(p)' = TheRequest(p)
  BY <1>1 DEF TheRequest, r
<1>4. /\ pc'[p] = "write" => ~done'[r] /\ ~flushed'[r] /\ f = 0
      /\ pc'[p] = "flush" => f # 0
      /\ pc'[p] = "write" \/ done'[r] => r \notin TagsOf(Away)'
      /\ \A m \in Away' : m.tag = r => m.call = use'[r]
      /\ \A m \in ToSet(toserver') : m.tag = f => m.oldtag = r
      /\ Precedes(toserver', r, f) /\ Precedes(toclient', r, f)
      /\ f \in Carries(toclient') => r \notin Carries(toserver') \cup TagsOf(pending')
      /\ f \in TagsOf(Held') => r \notin TagsOf(Away)'
  <2>1. /\ \A m \in Away' : m.tag = r => m \in Away
        /\ \A m \in ToSet(toserver') : m.tag = f => m \in ToSet(toserver)
        /\ \A t \in {r, f} :
             /\ t \in TagsOf(Away)' => t \in TagsOf(Away)
             /\ t \in Carries(toserver') => t \in Carries(toserver)
             /\ t \in Carries(toclient') => t \in Carries(toclient)
             /\ t \in TagsOf(pending') => t \in TagsOf(pending)
             /\ t \in TagsOf(Held') => t \in TagsOf(Held)
        /\ Precedes(toserver, r, f) => Precedes(toserver', r, f)
        /\ Precedes(toclient, r, f) => Precedes(toclient', r, f)
    BY DEF Undisturbed, r, f
  <2> QED
    BY <1>1, <1>2, <2>1
<1>5. done'[r] => \/ reply'[r] = [TheRequest(p)' EXCEPT !.type = "R"]
                  \/ flushed'[r] /\ reply'[r] = [type |-> "Rflush", tag |-> f]
  BY <1>1, <1>2, <1>3
<1> QED
  BY <1>1, <1>4, <1>5 DEF CallOK

(* Steps in which only the places of processes change. *)
LEMMA PlacesMsg ==
  ASSUME MsgInv, PlaceTypeOK', Less, broken => broken',
         UNCHANGED <<rpc, use, done, flushed, flushtag, reply, flushbase>>,
         broken' \in BOOLEAN, UNCHANGED serverVars \/ broken',
         broken' => toserver' = <<>> /\ toclient' = <<>> /\ pending' = {},
         \A x \in Proc : pc'[x] \in {"mux", "give", "write", "flush"} => pc'[x] = pc[x],
         \A x \in Proc : pc'[x] = "give" => give'[x] = give[x],
         \A x \in Proc : Live(x)' => Live(x),
         ~broken' => \A x \in Proc : InCall(x)' => Live(x)'
  PROVE  MsgInv'
<1> USE DEF MsgInv
<1>1. TypeOK'
  <2>1. ServerTypeOK'
    <3>1. /\ toserver \in Seq(Request \cup Flush) /\ toclient \in Seq(Reply \cup Flushed)
          /\ pending \subseteq Request
          /\ <<>> \in Seq(Request \cup Flush) /\ <<>> \in Seq(Reply \cup Flushed)
      BY DEF TypeOK, ServerTypeOK
    <3> QED
      BY <3>1 DEF ServerTypeOK, Less, serverVars
  <2> QED
    BY <2>1 DEF TypeOK
<1>2. OnceInv'
  BY LessOnce
<1>3. FlushInv'
  BY LessAway DEF FlushInv
<1>4. HeldInv'
  BY DEF HeldInv, Matches, Less
<1>5. OwnerInv'
  BY LessAway DEF OwnerInv
<1>6. CallInv'
  <2> SUFFICES ASSUME NEW p \in Proc, Live(p)' PROVE CallOK(p)'
    BY DEF CallInv
  <2>1. CallOK(p) /\ Untouched(p)
    BY DEF CallInv, Untouched
  <2> QED
    BY <2>1, CallStays, LessUndisturbed
<1> QED
  BY <1>1, <1>2, <1>3, <1>4, <1>5, <1>6

LEMMA QuietMsg ==
  ASSUME PlaceInv, MsgInv, PlaceTypeOK', NEW p \in Proc,
         Gate(p) \/ Sleep(p) \/ Woken(p) \/ ReadDone(p) \/ Wake(p) \/ MntGate(p)
         \/ FlushInterrupted(p)
  PROVE  MsgInv'
<1>1. /\ UNCHANGED <<rpc, use, done, flushed, flushtag, reply, flushbase, broken>>
      /\ UNCHANGED serverVars
  BY DEF Gate, Sleep, Woken, ReadDone, Wake, MntGate, FlushInterrupted, alloc, rpcs, mnt
<1>2. /\ \A x \in Proc : pc'[x] \in {"mux", "give", "write", "flush"} => pc'[x] = pc[x]
      /\ \A x \in Proc : pc'[x] = "give" => give'[x] = give[x]
      /\ \A x \in Proc : Live(x)' => Live(x)
      /\ \A x \in Proc : InCall(x)' => InCall(x)
      /\ \A x \in Proc : InCall(x)' /\ Live(x) => Live(x)'
  <2> USE DEF PlaceInv, PlaceTypeOK, RetInv, Live, InCall
  <2>1. CASE Gate(p)
    BY <2>1 DEF Gate, Goto
  <2>2. CASE Sleep(p)
    BY <2>2 DEF Sleep
  <2>3. CASE Woken(p)
    BY <2>3 DEF Woken
  <2>4. CASE ReadDone(p)
    BY <2>4 DEF ReadDone, Goto
  <2>5. CASE Wake(p)
    BY <2>5 DEF Wake, mnt, rpcs
  <2>6. CASE MntGate(p)
    BY <2>6 DEF MntGate, rpcs
  <2>7. CASE FlushInterrupted(p)
    BY <2>7 DEF FlushInterrupted, Goto
  <2> QED
    BY <2>1, <2>2, <2>3, <2>4, <2>5, <2>6, <2>7
<1>3. Less
  <2>1. Held' \subseteq Held
    BY <1>1, <1>2, HeldStays
  <2> QED
    BY <1>1, <2>1 DEF Less
<1>4. ~broken' => \A x \in Proc : InCall(x)' => Live(x)'
  BY <1>1, <1>2 DEF MsgInv, OwnerInv
<1>5. /\ broken' \in BOOLEAN
      /\ broken' => toserver' = <<>> /\ toclient' = <<>> /\ pending' = {}
  BY <1>1 DEF MsgInv, TypeOK, OwnerInv, serverVars
<1> QED
  BY <1>1, <1>2, <1>3, <1>4, <1>5, PlacesMsg

LEMMA BreakMsg ==
  ASSUME PlaceInv, MsgInv, PlaceTypeOK', Break
  PROVE  MsgInv'
<1>1. /\ UNCHANGED <<pc, ret, rpc, give, use, done, flushed, flushtag, reply, flushbase>>
      /\ broken' = TRUE /\ toserver' = <<>> /\ toclient' = <<>> /\ pending' = {}
  BY DEF Break, Cut, alloc, rpcs, mnt
<1>2. Less
  BY <1>1 DEF Less, Held
<1>3. \A x \in Proc : Live(x)' => Live(x)
  BY <1>1 DEF Live
<1> QED
  BY <1>1, <1>2, <1>3, PlacesMsg

-----------------------------------------------------------------------------
(* Requests and flushes are sent. *)

(* A message comes at the end of the queue to the server. *)
LEMMA SentAway ==
  ASSUME MsgInv, NEW m \in Request \cup Flush, NEW q \in Proc, Send(q, m), Held' = Held
  PROVE  /\ toserver' \in Seq(Request \cup Flush) /\ toclient' = toclient /\ pending' = pending
         /\ ToSet(toserver') = ToSet(toserver) \cup {m}
         /\ Carries(toserver') = Carries(toserver) \cup {m.tag}
         /\ Away' = Away \cup {m} /\ TagsOf(Away)' = TagsOf(Away) \cup {m.tag}
         /\ \A r : Single(toserver, r) /\ (r = m.tag => r \notin Carries(toserver))
              => Single(toserver', r)
         /\ \A r, f : Precedes(toserver, r, f) /\ r # m.tag => Precedes(toserver', r, f)
         /\ \A r, f : f \notin Carries(toserver') => Precedes(toserver', r, f)
<1>1. /\ toserver' = Append(toserver, m) /\ toclient' = toclient /\ pending' = pending
      /\ toserver \in Seq(Request \cup Flush)
  BY DEF Send, MsgInv, TypeOK, ServerTypeOK
<1>2. /\ toserver' \in Seq(Request \cup Flush) /\ ToSet(toserver') = ToSet(toserver) \cup {m}
      /\ Carries(toserver') = Carries(toserver) \cup {m.tag}
      /\ \A r : Single(toserver, r) /\ (r = m.tag => r \notin Carries(toserver))
              => Single(toserver', r)
      /\ \A r, f : Precedes(toserver, r, f) /\ r # m.tag => Precedes(toserver', r, f)
      /\ \A r, f : f \notin Carries(toserver') => Precedes(toserver', r, f)
  BY <1>1, Queued
<1>3. Away' = Away \cup {m}
  BY <1>1, <1>2 DEF Away
<1>4. TagsOf(Away)' = TagsOf(Away) \cup {m.tag}
  BY <1>3 DEF TagsOf
<1> QED
  BY <1>1, <1>2, <1>3, <1>4

(* It disturbs nobody whose tags it does not bear. *)
LEMMA SentUndisturbed ==
  ASSUME MsgInv, NEW m \in Request \cup Flush, NEW q \in Proc, Send(q, m), Held' = Held,
         NEW p \in Proc, m.tag \notin {rpc[p], flushtag[rpc[p]]}
  PROVE  Undisturbed(p)
  BY SentAway DEF Undisturbed

LEMMA RequestSent ==
  ASSUME PlaceInv, MsgInv, NEW p \in Proc, pc[p] = "write", ~broken,
         Send(p, TheRequest(p)), Held' = Held
  PROVE  /\ TheRequest(p) \in Request /\ TheRequest(p).tag = rpc[p]
         /\ OnceInv'
         /\ \A x \in Proc \ {p} : Live(x) => Undisturbed(x)
<1>1. /\ rpc[p] \in Rpc /\ 0 \notin Rpc /\ \A x \in Proc \ {p} : rpc[x] # rpc[p]
      /\ \A x \in Proc \ {p} : Live(x) => flushtag[rpc[x]] \in {0} \cup FlushTag
  BY Caller DEF MsgInv, Live
<1>2. TheRequest(p) \in Request /\ TheRequest(p).tag = rpc[p]
  BY <1>1, TagNumbers DEF TheRequest, Request, MsgInv, TypeOK
<1>3. Live(p) /\ rpc[p] \notin TagsOf(Away)
  <2>1. Live(p)
    BY DEF Live
  <2> QED
    BY <2>1 DEF MsgInv, CallInv, CallOK
<1>4. OnceInv'
  <2>1. /\ \A r : Single(toserver, r) /\ (r = rpc[p] => r \notin Carries(toserver))
              => Single(toserver', r)
        /\ Carries(toserver') = Carries(toserver) \cup {rpc[p]}
        /\ toclient' = toclient /\ pending' = pending
    BY <1>2, SentAway
  <2>2. rpc[p] \notin Carries(toserver) \cup TagsOf(pending) \cup Carries(toclient) \cup TagsOf(Held)
    BY <1>3, AwayTags
  <2> QED
    BY <2>1, <2>2 DEF MsgInv, OnceInv
<1>5. \A x \in Proc \ {p} : Live(x) => Undisturbed(x)
  BY <1>1, <1>2, SentUndisturbed, TagNumbers
<1> QED
  BY <1>2, <1>4, <1>5

LEMMA WriteMsg ==
  ASSUME PlaceInv, MsgInv, PlaceTypeOK', NEW p \in Proc, Write(p)
  PROVE  MsgInv'
<1> DEFINE m == TheRequest(p)
<1>1. /\ UNCHANGED <<ret, rpc, give, use, done, flushed, flushtag, reply, flushbase, broken>>
      /\ ~broken /\ Send(p, m) /\ pc[p] = "write" /\ pc' = [pc EXCEPT ![p] = "gate"]
  BY DEF Write, Goto, alloc, rpcs, mnt
<1>2. Held' = Held
  BY <1>1 DEF Held, PlaceInv, PlaceTypeOK
<1>3. /\ m \in Request /\ m.tag = rpc[p] /\ OnceInv'
      /\ \A x \in Proc \ {p} : Live(x) => Undisturbed(x)
  BY <1>1, <1>2, RequestSent
<1>4. /\ rpc[p] \in Rpc /\ m.call = use[rpc[p]]
      /\ \A x \in Proc \ {p} : rpc[x] # rpc[p]
  BY <1>1, Caller DEF MsgInv, TheRequest
<1> HIDE DEF m
<1>5. /\ toserver' \in Seq(Request \cup Flush) /\ toclient' = toclient /\ pending' = pending
      /\ ToSet(toserver') = ToSet(toserver) \cup {m}
      /\ Carries(toserver') = Carries(toserver) \cup {rpc[p]}
      /\ Away' = Away \cup {m} /\ TagsOf(Away)' = TagsOf(Away) \cup {rpc[p]}
      /\ \A r, f : f \notin Carries(toserver') => Precedes(toserver', r, f)
  BY <1>1, <1>2, <1>3, SentAway
<1>6. Live(p) /\ \A x \in Proc : Live(x)' <=> Live(x)
  BY <1>1 DEF Live, PlaceInv, PlaceTypeOK
<1>7. TypeOK' /\ HeldInv'
  <2>1. TypeOK'
    BY <1>1, <1>5 DEF MsgInv, TypeOK, ServerTypeOK
  <2>2. HeldInv'
    BY <1>1, <1>2 DEF MsgInv, HeldInv, Matches, PlaceInv, PlaceTypeOK
  <2> QED
    BY <2>1, <2>2
<1>8. FlushInv'
  <2>1. rpc[p] <= Tagfls + flushbase
    BY <1>4, TagNumbers DEF MsgInv, TypeOK
  <2> QED
    BY <1>1, <1>5, <2>1 DEF MsgInv, FlushInv
<1>9. OwnerInv'
  BY <1>1, <1>5, <1>6 DEF MsgInv, OwnerInv, InCall, PlaceInv, PlaceTypeOK
<1>10. CallOK(p)'
  <2> DEFINE r == rpc[p]
  <2>1. /\ ~done[r] /\ ~flushed[r] /\ flushtag[r] = 0 /\ r \notin TagsOf(Away)
        /\ \A k \in Away : k.tag = r => k.call = use[r]
        /\ Precedes(toclient, r, 0)
    BY <1>1, <1>6 DEF MsgInv, CallInv, CallOK
  <2>2. 0 \notin TagsOf(Away)'
    <3>1. 0 \notin TagsOf(Away)
      BY Typed, TagNumbers DEF MsgInv, TagsOf
    <3> QED
      BY <1>4, <1>5, <3>1, RpcNumbers
  <2>3. 0 \notin Carries(toserver') \cup Carries(toclient') \cup TagsOf(Held')
    BY <2>2, AwayTags
  <2>4. /\ rpc'[p] = r /\ flushtag'[r] = 0 /\ ~done'[r] /\ use' = use /\ pc'[p] = "gate"
    BY <1>1, <2>1 DEF PlaceInv, PlaceTypeOK
  <2>5. \A k \in Away' : k.tag = r => k.call = use[r]
    BY <1>4, <1>5, <2>1
  <2>6. Precedes(toserver', r, 0) /\ Precedes(toclient', r, 0)
    BY <1>5, <2>1, <2>3
  <2>7. \A k \in ToSet(toserver') : k.tag # 0
    BY <2>3 DEF Carries, TagsOf
  <2> QED
    BY <2>3, <2>4, <2>5, <2>6, <2>7 DEF CallOK
<1>11. CallInv'
  <2> SUFFICES ASSUME NEW x \in Proc \ {p}, Live(x)' PROVE CallOK(x)'
    BY <1>10 DEF CallInv
  <2>1. Live(x) /\ CallOK(x) /\ Undisturbed(x)
    BY <1>3, <1>6 DEF MsgInv, CallInv
  <2>2. Untouched(x)
    BY <1>1 DEF Untouched
  <2> QED
    BY <2>1, <2>2, CallStays
<1> QED
  BY <1>3, <1>7, <1>8, <1>9, <1>11 DEF MsgInv

LEMMA FlushWriteMsg ==
  ASSUME PlaceInv, MsgInv, PlaceTypeOK', NEW p \in Proc, FlushWrite(p)
  PROVE  MsgInv'
<1> DEFINE m == TheFlush(p)
           r == rpc[p]
           f == flushtag[r]
<1>1. /\ UNCHANGED <<rpc, give, use, done, flushed, flushtag, reply, flushbase, broken>>
      /\ ~broken /\ Send(p, m) /\ pc[p] = "flush" /\ pc' = [pc EXCEPT ![p] = ret[p]]
      /\ ret' = [ret EXCEPT ![p] = "out"] /\ ret[p] \in {"gate", "read"}
  BY DEF FlushWrite, Goto, alloc, rpcs, mnt, PlaceInv, RetInv
<1>2. Held' = Held
  BY <1>1 DEF Held, PlaceInv, PlaceTypeOK
<1>3. Live(p) /\ \A x \in Proc : Live(x)' <=> Live(x)
  BY <1>1 DEF Live, PlaceInv, PlaceTypeOK
<1>4. /\ r \in Rpc /\ f \in FlushTag /\ f \notin Rpc
      /\ \A x \in Proc \ {p} : rpc[x] # r
  <2>1. f # 0
    BY <1>1, <1>3 DEF MsgInv, CallInv, CallOK
  <2> QED
    BY <1>1, <2>1, Caller, TagNumbers DEF MsgInv
<1>5. m \in Flush /\ m.tag = f /\ m.oldtag = r
  BY <1>4, TagNumbers DEF TheFlush, Flush
<1> HIDE DEF m
<1>6. /\ toserver' \in Seq(Request \cup Flush) /\ toclient' = toclient /\ pending' = pending
      /\ ToSet(toserver') = ToSet(toserver) \cup {m}
      /\ Carries(toserver') = Carries(toserver) \cup {f}
      /\ Away' = Away \cup {m} /\ TagsOf(Away)' = TagsOf(Away) \cup {f}
      /\ \A q : Single(toserver, q) /\ (q = f => q \notin Carries(toserver)) => Single(toserver', q)
      /\ \A q, g : Precedes(toserver, q, g) /\ q # f => Precedes(toserver', q, g)
  BY <1>1, <1>2, <1>5, SentAway
<1>7. TypeOK' /\ HeldInv'
  <2>1. TypeOK'
    BY <1>1, <1>6 DEF MsgInv, TypeOK, ServerTypeOK
  <2>2. HeldInv'
    BY <1>1, <1>2 DEF MsgInv, HeldInv, Matches, PlaceInv, PlaceTypeOK
  <2> QED
    BY <2>1, <2>2
<1>8. OnceInv' /\ FlushInv'
  <2>1. OnceInv'
    BY <1>2, <1>4, <1>6 DEF MsgInv, OnceInv
  <2>2. FlushInv'
    BY <1>1, <1>4, <1>6 DEF MsgInv, FlushInv
  <2> QED
    BY <2>1, <2>2
<1>9. OwnerInv'
  <2>1. \A x \in Proc : InCall(x)' <=> InCall(x)
    BY <1>1 DEF InCall, PlaceInv, PlaceTypeOK
  <2>2. Rpc \cap TagsOf(Away)' = Rpc \cap TagsOf(Away)
    BY <1>4, <1>6
  <2> QED
    BY <1>1, <1>3, <2>1, <2>2 DEF MsgInv, OwnerInv
<1>10. CallOK(p)'
  <2>1. CallOK(p)
    BY <1>3 DEF MsgInv, CallInv
  <2>2. /\ done[r] => r \notin TagsOf(Away)
        /\ done[r] => \/ reply[r] = [TheRequest(p) EXCEPT !.type = "R"]
                      \/ flushed[r] /\ reply[r] = [type |-> "Rflush", tag |-> f]
        /\ \A k \in Away : k.tag = r => k.call = use[r]
        /\ \A k \in ToSet(toserver) : k.tag = f => k.oldtag = r
        /\ Precedes(toserver, r, f) /\ Precedes(toclient, r, f)
        /\ f \in Carries(toclient) => r \notin Carries(toserver) \cup TagsOf(pending)
        /\ f \in TagsOf(Held) => r \notin TagsOf(Away)
    BY <2>1 DEF CallOK
  <2>3. /\ r \in TagsOf(Away)' => r \in TagsOf(Away)
        /\ r \in Carries(toserver') => r \in Carries(toserver)
        /\ \A k \in Away' : k.tag = r => k \in Away
        /\ \A k \in ToSet(toserver') : k.tag = f => k \in ToSet(toserver) \/ k.oldtag = r
        /\ Precedes(toserver, r, f) => Precedes(toserver', r, f)
    BY <1>4, <1>5, <1>6
  <2>4. /\ rpc'[p] = r /\ flushtag'[r] = f /\ use' = use /\ pc'[p] \notin {"write", "flush"}
        /\ done' = done /\ flushed' = flushed /\ reply' = reply
        /\ TheRequest(p)' = TheRequest(p)
    BY <1>1 DEF PlaceInv, PlaceTypeOK, TheRequest
  <2> HIDE DEF r, f
  <2> QED
    BY <1>2, <1>6, <2>2, <2>3, <2>4 DEF CallOK
<1>11. CallInv'
  <2> SUFFICES ASSUME NEW x \in Proc \ {p}, Live(x)' PROVE CallOK(x)'
    BY <1>10 DEF CallInv
  <2>1. Live(x) /\ CallOK(x)
    BY <1>3 DEF MsgInv, CallInv
  <2>2. Untouched(x)
    BY <1>1 DEF Untouched
  <2>3. Undisturbed(x)
    <3>1. rpc[x] \in Rpc /\ rpc[x] # r /\ 0 \notin FlushTag
      BY <1>4, <2>1, Caller DEF MsgInv, Live
    <3>2. f \notin {rpc[x], flushtag[rpc[x]]}
      BY <1>4, <3>1 DEF MsgInv, FlushInv
    <3> QED
      BY <1>1, <1>2, <1>5, <3>2, SentUndisturbed
  <2> QED
    BY <2>1, <2>2, <2>3, CallStays
<1> QED
  BY <1>7, <1>8, <1>9, <1>11 DEF MsgInv

-----------------------------------------------------------------------------
(* Errors: the call sends a flush, or ends. *)

LEMMA ErrorHeld ==
  ASSUME PlaceInv, NEW p \in Proc, NEW to, Flushing(p, to), pc[p] \notin {"mux", "give"}
  PROVE  /\ Held' = Held
         /\ \A x \in Proc \ {p} : pc'[x] = pc[x] /\ ret'[x] = ret[x]
         /\ \A x \in Proc : pc'[x] \in {"mux", "give"} => pc'[x] = pc[x]
         /\ pc'[p] = "flush"
         /\ UNCHANGED <<rpc, give, use, done, reply, broken>>
<1>1. /\ UNCHANGED <<rpc, give, use, done, reply, broken>>
      /\ pc' = [pc EXCEPT ![p] = "flush"] /\ ret' = [ret EXCEPT ![p] = to]
  BY DEF Flushing, alloc
<1>2. /\ \A x \in Proc \ {p} : pc'[x] = pc[x] /\ ret'[x] = ret[x]
      /\ pc'[p] = "flush"
  BY <1>1 DEF PlaceInv, PlaceTypeOK
<1>3. Held' = Held
  BY <1>1, <1>2 DEF Held
<1> QED
  BY <1>1, <1>2, <1>3

(* The connection is broken. *)
LEMMA BrokenErrorMsg ==
  ASSUME PlaceInv, MsgInv, PlaceTypeOK', broken, UNCHANGED serverVars,
         NEW p \in Proc, NEW to, Flushing(p, to), pc[p] \notin {"out", "mux", "give"}
  PROVE  MsgInv'
<1> USE DEF MsgInv
<1> DEFINE r == rpc[p]
<1>1. /\ Held' = Held
      /\ \A x \in Proc \ {p} : pc'[x] = pc[x] /\ ret'[x] = ret[x]
      /\ \A x \in Proc : pc'[x] \in {"mux", "give"} => pc'[x] = pc[x]
      /\ pc'[p] = "flush" /\ UNCHANGED <<rpc, give, use, done, reply, broken>>
      /\ flushed' = [flushed EXCEPT ![r] = TRUE] /\ UNCHANGED <<flushbase, flushtag>>
  BY ErrorHeld DEF Flushing
<1>2. r \in Rpc /\ \A x \in Proc \ {p} : rpc[x] # r
  BY Caller
<1>3. Less
  BY <1>1 DEF Less
<1>4. TypeOK'
  BY <1>1, <1>2 DEF TypeOK, ServerTypeOK, serverVars
<1>5. OnceInv'
  BY <1>3, LessOnce
<1>6. FlushInv'
  BY <1>1, <1>3, LessAway DEF FlushInv
<1>7. HeldInv'
  BY <1>1, <1>2 DEF HeldInv, Matches, TypeOK
<1>8. OwnerInv'
  BY <1>1 DEF OwnerInv, serverVars
<1>9. CallInv'
  <2> SUFFICES ASSUME NEW x \in Proc, Live(x)' PROVE CallOK(x)'
    BY DEF CallInv
  <2>1. x # p /\ Live(x)
    BY <1>1 DEF Live
  <2>2. Untouched(x)
    <3>1. rpc[x] \in Rpc /\ flushed'[rpc[x]] = flushed[rpc[x]]
      BY <1>1, <1>2, <2>1, Caller DEF Live, TypeOK
    <3> QED
      BY <1>1, <2>1, <3>1 DEF Untouched
  <2> QED
    BY <1>3, <2>1, <2>2, CallStays, LessUndisturbed DEF CallInv
<1> QED
  BY <1>4, <1>5, <1>6, <1>7, <1>8, <1>9

(* The call is interrupted, maybe after its request was sent. *)
LEMMA InterruptMsg ==
  ASSUME PlaceInv, MsgInv, PlaceTypeOK', ~broken,
         NEW p \in Proc, NEW to, Flushing(p, to), pc[p] \notin {"out", "mux", "give"},
         UNCHANGED serverVars \/ (pc[p] = "write" /\ Send(p, TheRequest(p)))
  PROVE  MsgInv'
<1> USE DEF MsgInv
<1> DEFINE r == rpc[p]
           g == Tagfls + flushbase + 1
           m == TheRequest(p)
<1>1. /\ Held' = Held
      /\ \A x \in Proc \ {p} : pc'[x] = pc[x] /\ ret'[x] = ret[x]
      /\ \A x \in Proc : pc'[x] \in {"mux", "give"} => pc'[x] = pc[x]
      /\ pc'[p] = "flush" /\ UNCHANGED <<rpc, give, use, done, reply, broken>>
      /\ flushed' = [flushed EXCEPT ![r] = TRUE] /\ ~flushed[r] /\ flushbase < MaxFlush
      /\ flushbase' = flushbase + 1 /\ flushtag' = [flushtag EXCEPT ![r] = g]
  BY ErrorHeld DEF Flushing
<1>2. r \in Rpc /\ \A x \in Proc \ {p} : rpc[x] # r
  BY Caller
<1>3. /\ flushbase \in 0..MaxFlush /\ g \in FlushTag /\ g \notin Rpc /\ g # 0
      /\ flushbase \in Nat /\ Tagfls \in Nat
      /\ r <= Tagfls + flushbase /\ g = Tagfls + flushbase' /\ ~(g <= Tagfls + flushbase)
  BY <1>1, <1>2, TagNumbers DEF TypeOK
<1>4. /\ flushed'[r] /\ flushtag'[r] = g
      /\ \A q \in Rpc \ {r} : flushed'[q] = flushed[q] /\ flushtag'[q] = flushtag[q]
  BY <1>1, <1>2 DEF TypeOK
<1>5. InCall(p) /\ Live(p) /\ \A x \in Proc : Live(x)' <=> Live(x)
  <2>1. InCall(p) /\ Live(p)
    BY DEF OwnerInv, InCall
  <2> QED
    BY <1>1, <2>1 DEF Live
<1> HIDE DEF g, m
<1>6. /\ toserver' \in Seq(Request \cup Flush) /\ toclient' = toclient /\ pending' = pending
      /\ TagsOf(Away)' \subseteq TagsOf(Away) \cup {r}
      /\ OnceInv' /\ \A x \in Proc \ {p} : Live(x) => Undisturbed(x)
      /\ \A k \in Away' : k \in Away \/ (k = m /\ pc[p] = "write")
      /\ \A k \in ToSet(toserver') : k \in ToSet(toserver) \/ k = m
  <2>1. CASE UNCHANGED serverVars
    <3>1. Less /\ Away' = Away
      BY <1>1, <2>1 DEF Less, Away, serverVars
    <3>2. TagsOf(Away)' = TagsOf(Away)
      BY <3>1
    <3>3. toserver' = toserver /\ toclient' = toclient /\ pending' = pending
      BY <2>1 DEF serverVars
    <3>4. toserver \in Seq(Request \cup Flush)
      BY DEF TypeOK, ServerTypeOK
    <3> QED
      BY <3>1, <3>2, <3>3, <3>4, LessOnce, LessUndisturbed
  <2>2. CASE pc[p] = "write" /\ Send(p, m)
    <3>1. /\ m \in Request /\ m.tag = r
          /\ OnceInv' /\ \A x \in Proc \ {p} : Live(x) => Undisturbed(x)
      BY <1>1, <2>2, RequestSent DEF m
    <3>2. /\ toserver' \in Seq(Request \cup Flush) /\ toclient' = toclient /\ pending' = pending
          /\ ToSet(toserver') = ToSet(toserver) \cup {m}
          /\ Away' = Away \cup {m} /\ TagsOf(Away)' = TagsOf(Away) \cup {m.tag}
      BY <1>1, <2>2, <3>1, SentAway
    <3> QED
      BY <2>2, <3>1, <3>2
  <2> QED
    BY <2>1, <2>2 DEF m
<1>7. g \notin TagsOf(Away)'
  BY <1>2, <1>3, <1>6 DEF FlushInv
<1>8. TypeOK'
  <2>1. flushbase' \in 0..MaxFlush
    BY <1>1, <1>3, TagNumbers
  <2>2. flushed' \in [Rpc -> BOOLEAN] /\ flushtag' \in [Rpc -> {0} \cup FlushTag]
    BY <1>1, <1>2, <1>3 DEF TypeOK
  <2>3. ServerTypeOK'
    BY <1>6 DEF TypeOK, ServerTypeOK
  <2> QED
    BY <1>1, <2>1, <2>2, <2>3 DEF TypeOK
<1>9. FlushInv'
  <2>1. \A t \in TagsOf(Away)' : t <= Tagfls + flushbase'
    <3>1. \A t \in TagsOf(Away)' : t <= Tagfls + flushbase /\ t \in Nat
      <4>1. \A t \in TagsOf(Away) : t \in Nat
        BY Typed, TagNumbers DEF TagsOf
      <4> QED
        BY <1>2, <1>3, <1>6, <4>1, TagNumbers DEF FlushInv
    <3> QED
      BY <1>1, <1>3, <3>1
  <2>2. \A q \in Rpc : flushtag[q] \in Nat /\ flushtag[q] <= Tagfls + flushbase
    BY TagNumbers DEF TypeOK, FlushInv
  <2>3. \A q \in Rpc : flushtag'[q] <= Tagfls + flushbase'
    BY <1>1, <1>3, <1>4, <2>2
  <2>4. \A q, k \in Rpc : flushtag'[q] = flushtag'[k] => q = k \/ flushtag'[q] = 0
    BY <1>3, <1>4, <2>2 DEF FlushInv
  <2>5. \A q \in Rpc : flushtag'[q] = 0 \/ \E x \in Proc : rpc'[x] = q
    BY <1>1, <1>4 DEF FlushInv
  <2> QED
    BY <2>1, <2>3, <2>4, <2>5 DEF FlushInv
<1>10. HeldInv'
  <2>1. \A x \in Proc : pc'[x] = "give" => Matches(give[x], reply[rpc[x]])'
    <3> SUFFICES ASSUME NEW x \in Proc, pc[x] = "give", Matches(give[x], reply[rpc[x]])
                 PROVE  Matches(give[x], reply[rpc[x]])'
      BY <1>1 DEF HeldInv
    <3>1. give[x] \in Rpc
      BY DEF PlaceInv, PlaceTypeOK, GiveInv
    <3> QED
      BY <1>1, <1>4, <3>1 DEF Matches
  <2> QED
    BY <1>1, <2>1 DEF HeldInv
<1>11. OwnerInv'
  <2>1. \A x \in Proc : InCall(x)' <=> InCall(x)
    BY <1>1, <1>5 DEF InCall
  <2> QED
    BY <1>1, <1>5, <1>6, <2>1 DEF OwnerInv
<1>12. CallOK(p)'
  <2>1. CallOK(p)
    BY <1>5 DEF CallInv
  <2>2. /\ pc[p] = "write" => ~done[r]
        /\ done[r] => r \notin TagsOf(Away)
        /\ done[r] => reply[r] = [m EXCEPT !.type = "R"]
        /\ \A k \in Away : k.tag = r => k.call = use[r]
    BY <1>1, <2>1 DEF CallOK, m
  <2>3. g \notin Carries(toserver') \cup Carries(toclient') \cup TagsOf(Held')
    BY <1>7, AwayTags
  <2>4. \A k \in ToSet(toserver') : k.tag # g
    BY <2>3 DEF Carries, TagsOf
  <2>5. Precedes(toserver', r, g) /\ Precedes(toclient', r, g)
    <3>1. \A s : \A i \in DOMAIN s : s[i].tag \in Carries(s)
      BY DEF Carries, TagsOf, ToSet
    <3> QED
      BY <2>3, <3>1 DEF Precedes
  <2>6. \A k \in Away' : k.tag = r => k.call = use[r]
    BY <1>6, <2>2 DEF m, TheRequest
  <2>7. done[r] => r \notin TagsOf(Away)'
    <3>1. done[r] => Away' \subseteq Away
      BY <1>6, <2>2
    <3> QED
      BY <2>2, <3>1 DEF TagsOf
  <2>8. /\ rpc'[p] = r /\ flushtag'[r] = g /\ pc'[p] = "flush"
        /\ use' = use /\ done' = done /\ reply' = reply /\ TheRequest(p)' = m
    BY <1>1, <1>4 DEF m, TheRequest
  <2> HIDE DEF r
  <2> QED
    BY <1>3, <2>2, <2>3, <2>4, <2>5, <2>6, <2>7, <2>8 DEF CallOK
<1>13. CallInv'
  <2> SUFFICES ASSUME NEW x \in Proc \ {p}, Live(x)' PROVE CallOK(x)'
    BY <1>12 DEF CallInv
  <2>1. Live(x) /\ CallOK(x) /\ Undisturbed(x)
    BY <1>5, <1>6 DEF CallInv
  <2>2. rpc[x] \in Rpc
    BY <2>1, Caller DEF Live
  <2>3. Untouched(x)
    BY <1>1, <1>2, <1>4, <2>2 DEF Untouched
  <2> QED
    BY <2>1, <2>3, CallStays
<1> QED
  BY <1>6, <1>8, <1>9, <1>10, <1>11, <1>13

LEMMA ErrorMsg ==
  ASSUME PlaceInv, MsgInv, PlaceTypeOK', NEW p \in Proc,
         WriteError(p) \/ SleepError(p) \/ ReadError(p)
  PROVE  MsgInv'
<1>1. \E to : Flushing(p, to)
  BY DEF WriteError, SleepError, ReadError
<1>2. pc[p] \in {"write", "sleep", "asleep", "read"}
  BY DEF WriteError, SleepError, ReadError
<1>3. UNCHANGED serverVars \/ (~broken /\ pc[p] = "write" /\ Send(p, TheRequest(p)))
  BY DEF WriteError, SleepError, ReadError
<1> QED
  BY <1>1, <1>2, <1>3, BrokenErrorMsg, InterruptMsg

-----------------------------------------------------------------------------
(* The reader: it reads a reply, mountmux finds whose it is, and gives it. *)

LEMMA ReadMsg ==
  ASSUME PlaceInv, MsgInv, PlaceTypeOK', NEW p \in Proc, Read(p)
  PROVE  MsgInv'
<1> USE DEF MsgInv
<1> DEFINE r == rpc[p]
<1>1. PICK m : /\ m = Head(toclient) /\ toclient # <<>> /\ toclient' = Tail(toclient)
               /\ reply' = [reply EXCEPT ![r] = m]
  BY DEF Read
<1>2. /\ UNCHANGED <<ret, rpc, give, use, done, flushed, flushtag, flushbase, broken>>
      /\ UNCHANGED <<toserver, pending>>
      /\ pc[p] = "read" /\ ~done[r] /\ ~broken /\ pc' = [pc EXCEPT ![p] = "mux"]
  BY DEF Read, Goto, alloc, mnt
<1>3. r \in Rpc /\ \A x \in Proc \ {p} : rpc[x] # r
  BY <1>2, Caller
<1>4. /\ pc'[p] = "mux" /\ \A x \in Proc \ {p} : pc'[x] = pc[x]
      /\ reply'[r] = m /\ \A q \in Rpc \ {r} : reply'[q] = reply[q]
  BY <1>1, <1>2, <1>3 DEF PlaceInv, PlaceTypeOK, TypeOK
<1>5. /\ Held = {} /\ Held' = {m}
      /\ \A x \in Proc : pc'[x] \in {"mux", "give"} => x = p
  <2>1. Held = {} /\ \A x \in Proc \ {p} : pc[x] \notin {"mux", "give"}
    BY <1>2, HeldBy
  <2> QED
    BY <1>2, <1>4, <2>1 DEF Held
<1>t. toclient \in Seq(Reply \cup Flushed)
  BY DEF TypeOK, ServerTypeOK
<1>6. /\ toclient' \in Seq(Reply \cup Flushed) /\ m \in Reply \cup Flushed
      /\ ToSet(toclient) = ToSet(toclient') \cup {m}
      /\ Carries(toclient) = Carries(toclient') \cup {m.tag}
      /\ \A q : Single(toclient, q) => Single(toclient', q) /\ (q = m.tag => q \notin Carries(toclient'))
      /\ \A q, f : Precedes(toclient, q, f) =>
           Precedes(toclient', q, f) /\ (f = m.tag => q \notin Carries(toclient))
  <2> HIDE DEF MsgInv
  <2> QED
    BY <1>1, <1>t, Dequeued
<1>7. Away' = Away /\ TagsOf(Away)' = TagsOf(Away)
  <2>1. Away' = Away
    BY <1>2, <1>5, <1>6 DEF Away
  <2> QED
    BY <2>1
<1>8. TagsOf(Held') = {m.tag} /\ TagsOf(Held) = {}
  BY <1>5 DEF TagsOf
<1>9. \A x \in Proc : Live(x)' <=> Live(x)
  BY <1>2, <1>4 DEF Live
<1>10. TypeOK'
  <2>1. reply' \in [Rpc -> {NoReply} \cup Reply \cup Flushed]
    BY <1>1, <1>6 DEF TypeOK
  <2> QED
    BY <1>2, <1>6, <2>1 DEF TypeOK, ServerTypeOK
<1>11. OnceInv'
  <2> SUFFICES ASSUME NEW q \in Rpc
               PROVE  /\ Single(toserver, q)' /\ Single(toclient, q)'
                      /\ \A k, n \in pending' : k.tag = q /\ n.tag = q => k = n
                      /\ q \in Carries(toserver') =>
                           q \notin TagsOf(pending') \cup Carries(toclient') \cup TagsOf(Held')
                      /\ q \in TagsOf(pending') => q \notin Carries(toclient') \cup TagsOf(Held')
                      /\ q \in Carries(toclient') => q \notin TagsOf(Held')
    BY DEF OnceInv
  <2> QED
    BY <1>2, <1>6, <1>8 DEF OnceInv
<1>12. FlushInv'
  BY <1>2, <1>7 DEF FlushInv
<1>13. HeldInv'
  BY <1>2, <1>4, <1>5, <1>6 DEF HeldInv
<1>14. OwnerInv'
  BY <1>2, <1>4, <1>7, <1>9 DEF OwnerInv, InCall
<1>15. CallInv'
  <2> SUFFICES ASSUME NEW x \in Proc, Live(x)' PROVE CallOK(x)'
    BY DEF CallInv
  <2> DEFINE q == rpc[x]
             f == flushtag[q]
  <2>1. CallOK(x) /\ pc[x] # "out"
    BY <1>9 DEF CallInv, Live
  <2>2. q \in Rpc /\ f \notin Rpc
    BY <2>1, Caller, TagNumbers
  <2>3. /\ pc[x] = "write" => ~done[q] /\ ~flushed[q] /\ f = 0
        /\ pc[x] = "flush" => f # 0
        /\ pc[x] = "write" \/ done[q] => q \notin TagsOf(Away)
        /\ done[q] => \/ reply[q] = [TheRequest(x) EXCEPT !.type = "R"]
                      \/ flushed[q] /\ reply[q] = [type |-> "Rflush", tag |-> f]
        /\ \A k \in Away : k.tag = q => k.call = use[q]
        /\ \A k \in ToSet(toserver) : k.tag = f => k.oldtag = q
        /\ Precedes(toserver, q, f) /\ Precedes(toclient, q, f)
        /\ f \in Carries(toclient) => q \notin Carries(toserver) \cup TagsOf(pending)
    BY <2>1 DEF CallOK
  <2>4. /\ pc'[x] \in {"write", "flush"} => pc'[x] = pc[x]
        /\ done[q] => reply'[q] = reply[q]
        /\ TheRequest(x)' = TheRequest(x)
    BY <1>2, <1>4, <2>2 DEF TheRequest
  <2>5. f \in TagsOf(Held') => q \notin TagsOf(Away)'
    <3>1. SUFFICES ASSUME f = m.tag PROVE q \notin TagsOf(Away)
      BY <1>7, <1>8
    <3>2. q \notin Carries(toclient) /\ q \notin Carries(toserver) \cup TagsOf(pending)
      BY <1>6, <2>3, <3>1
    <3> QED
      BY <1>8, <3>2, AwayTags
  <2>6. f \in Carries(toclient') => q \notin Carries(toserver') \cup TagsOf(pending')
    BY <1>2, <1>6, <2>3
  <2>7. Precedes(toserver', q, f) /\ Precedes(toclient', q, f)
    BY <1>2, <1>6, <2>3
  <2>8. /\ rpc'[x] = q /\ flushtag'[q] = f /\ use' = use /\ done' = done /\ flushed' = flushed
        /\ toserver' = toserver
    BY <1>2
  <2> HIDE DEF q, f
  <2> QED
    BY <1>7, <2>3, <2>4, <2>5, <2>6, <2>7, <2>8 DEF CallOK
<1> QED
  BY <1>10, <1>11, <1>12, <1>13, <1>14, <1>15

(* A reply that fits a call is the one to its request or to its flush, and *)
(* is the last there is.                                                   *)
LEMMA Fitting ==
  ASSUME PlaceInv, MsgInv, NEW p \in Proc, Live(p), NEW m, Held = {m}, Matches(rpc[p], m)
  PROVE  /\ \/ m = [TheRequest(p) EXCEPT !.type = "R"]
            \/ flushed[rpc[p]] /\ m = [type |-> "Rflush", tag |-> flushtag[rpc[p]]]
         /\ rpc[p] \notin Carries(toserver) \cup TagsOf(pending) \cup Carries(toclient)
         /\ pc[p] # "write"
<1> USE DEF MsgInv
<1>1. /\ rpc[p] \in Rpc /\ flushtag[rpc[p]] \in {0} \cup FlushTag /\ 0 \notin FlushTag
      /\ m \in Reply \cup Flushed /\ CallOK(p)
  BY Caller DEF Live, HeldInv, CallInv
<1>2. TagsOf(Held) = {m.tag} /\ m \in Away /\ m.tag \in TagsOf(Away)
  BY DEF TagsOf, Away
<1>3. CASE m.tag = rpc[p]
  <2>1. m \in Reply /\ m = [type |-> "R", tag |-> m.tag, call |-> m.call]
    BY <1>1, <1>3, Kinds, TagNumbers
  <2>2. m.call = use[rpc[p]]
    BY <1>1, <1>2, <1>3 DEF CallOK
  <2>3. m = [TheRequest(p) EXCEPT !.type = "R"]
    BY <1>3, <2>1, <2>2 DEF TheRequest
  <2>4. rpc[p] \notin Carries(toserver) \cup TagsOf(pending) \cup Carries(toclient)
    BY <1>1, <1>2, <1>3 DEF OnceInv
  <2>5. pc[p] # "write"
    BY <1>1, <1>2, <1>3 DEF CallOK
  <2> QED
    BY <2>3, <2>4, <2>5
<1>4. CASE m.tag # rpc[p]
  <2>1. flushed[rpc[p]] /\ flushtag[rpc[p]] = m.tag
    BY <1>4 DEF Matches
  <2>2. m.tag \in FlushTag
    BY <1>1, <2>1, Kinds, RpcNumbers
  <2>3. m = [type |-> "Rflush", tag |-> m.tag]
    BY <1>1, <2>2, Kinds, TagNumbers
  <2>4. rpc[p] \notin TagsOf(Away) /\ pc[p] # "write"
    BY <1>1, <1>2, <2>1 DEF CallOK
  <2> QED
    BY <2>1, <2>3, <2>4, AwayTags
<1> QED
  BY <1>3, <1>4

(* The call of p is completed with the reply held. *)
LEMMA Completed ==
  ASSUME PlaceInv, MsgInv, NEW p \in Proc, Live(p), NEW m, Held = {m}, Matches(rpc[p], m),
         Held' = {}, UNCHANGED <<rpc, use, flushed, flushtag>>, UNCHANGED serverVars,
         done'[rpc[p]], reply'[rpc[p]] = m,
         pc'[p] \in {"write", "flush"} => pc'[p] = pc[p]
  PROVE  CallOK(p)'
<1> USE DEF MsgInv
<1> DEFINE r == rpc[p]
           f == flushtag[r]
<1>1. /\ m = [TheRequest(p) EXCEPT !.type = "R"] \/ (flushed[r] /\ m = [type |-> "Rflush", tag |-> f])
      /\ r \notin Carries(toserver) \cup TagsOf(pending) \cup Carries(toclient)
      /\ pc[p] # "write"
  BY Fitting
<1>2. CallOK(p)
  BY DEF CallInv
<1>3. TagsOf(Held') = {}
  BY DEF TagsOf
<1>4. toserver' = toserver /\ toclient' = toclient /\ pending' = pending
  BY DEF serverVars
<1>5. r \notin TagsOf(Away)'
  BY <1>1, <1>3, <1>4, AwayTags
<1>6. Away' \subseteq Away
  BY <1>4 DEF Away
<1>7. /\ pc[p] = "flush" => f # 0
      /\ \A k \in Away : k.tag = r => k.call = use[r]
      /\ \A k \in ToSet(toserver) : k.tag = f => k.oldtag = r
      /\ Precedes(toserver, r, f) /\ Precedes(toclient, r, f)
  BY <1>2 DEF CallOK
<1>8. rpc'[p] = r /\ flushtag'[r] = f /\ use' = use /\ flushed' = flushed
      /\ TheRequest(p)' = TheRequest(p)
  BY DEF TheRequest
<1>9. done'[r] /\ reply'[r] = m /\ (pc'[p] \in {"write", "flush"} => pc'[p] = pc[p])
  OBVIOUS
<1> HIDE DEF r, f
<1> QED
  BY <1>1, <1>3, <1>4, <1>5, <1>6, <1>7, <1>8, <1>9 DEF CallOK

LEMMA MuxMsg ==
  ASSUME PlaceInv, MsgInv, PlaceTypeOK', NEW p \in Proc, Mux(p)
  PROVE  MsgInv'
<1> USE DEF MsgInv
<1> DEFINE r == rpc[p]
           m == reply[r]
<1>1. /\ pc[p] = "mux" /\ UNCHANGED <<ret, rpc, use, flushed, flushtag, flushbase, broken>>
      /\ UNCHANGED serverVars
  BY DEF Mux, alloc
<1>2. r \in Rpc /\ (\A x \in Proc \ {p} : rpc[x] # r) /\ ~done[r]
  BY <1>1, Caller DEF HeldInv
<1>3. /\ Held = {m} /\ \A x \in Proc \ {p} : pc[x] \notin {"mux", "give"}
  BY <1>1, HeldBy
<1>4. toserver' = toserver /\ toclient' = toclient /\ pending' = pending
  BY <1>1 DEF serverVars
<1>5. CASE /\ pc' = [pc EXCEPT ![p] = "read"] /\ UNCHANGED <<done, give>>
           /\ reply' = [reply EXCEPT ![r] = NoReply]
  <2>1. /\ pc'[p] = "read" /\ \A x \in Proc \ {p} : pc'[x] = pc[x]
        /\ \A q \in Rpc \ {r} : reply'[q] = reply[q]
        /\ reply' \in [Rpc -> {NoReply} \cup Reply \cup Flushed]
    BY <1>2, <1>5 DEF PlaceInv, PlaceTypeOK, TypeOK
  <2>2. Held' = {} /\ Less
    BY <1>1, <1>3, <2>1 DEF Held, Less
  <2>3. \A x \in Proc : (Live(x)' <=> Live(x)) /\ (InCall(x)' <=> InCall(x))
    BY <1>1, <2>1 DEF Live, InCall
  <2>4. TypeOK'
    BY <1>1, <1>4, <1>5, <2>1 DEF TypeOK, ServerTypeOK
  <2>5. OnceInv' /\ FlushInv' /\ HeldInv' /\ OwnerInv'
    <3>1. OnceInv'
      BY <2>2, LessOnce
    <3>2. FlushInv'
      BY <1>1, <2>2, LessAway DEF FlushInv
    <3>3. HeldInv'
      BY <1>3, <2>1, <2>2 DEF HeldInv
    <3>4. OwnerInv'
      BY <1>1, <1>4, <2>2, <2>3, LessAway DEF OwnerInv
    <3> QED
      BY <3>1, <3>2, <3>3, <3>4
  <2>6. CallInv'
    <3> SUFFICES ASSUME NEW x \in Proc, Live(x)' PROVE CallOK(x)'
      BY DEF CallInv
    <3>1. Live(x) /\ CallOK(x) /\ rpc[x] \in Rpc
      BY <2>3, Caller DEF CallInv, Live
    <3>2. Untouched(x)
      BY <1>1, <1>2, <1>5, <2>1, <3>1 DEF Untouched
    <3> QED
      BY <2>2, <3>1, <3>2, CallStays, LessUndisturbed
  <2> QED
    BY <2>4, <2>5, <2>6
<1>6. CASE /\ pc' = [pc EXCEPT ![p] = "read"] /\ UNCHANGED <<reply, give>>
           /\ done' = [done EXCEPT ![r] = TRUE] /\ Matches(r, m)
  <2>1. /\ pc'[p] = "read" /\ \A x \in Proc \ {p} : pc'[x] = pc[x]
        /\ done'[r] /\ \A q \in Rpc \ {r} : done'[q] = done[q]
    BY <1>2, <1>6 DEF PlaceInv, PlaceTypeOK
  <2>2. Held' = {} /\ Less
    BY <1>1, <1>3, <2>1 DEF Held, Less
  <2>3. \A x \in Proc : (Live(x)' <=> Live(x)) /\ (InCall(x)' <=> InCall(x))
    BY <1>1, <2>1 DEF Live, InCall
  <2>4. TypeOK'
    BY <1>1, <1>4, <1>6 DEF TypeOK, ServerTypeOK
  <2>5. OnceInv' /\ FlushInv' /\ HeldInv' /\ OwnerInv'
    <3>1. OnceInv'
      BY <2>2, LessOnce
    <3>2. FlushInv'
      BY <1>1, <2>2, LessAway DEF FlushInv
    <3>3. HeldInv'
      BY <1>3, <2>1, <2>2 DEF HeldInv
    <3>4. OwnerInv'
      BY <1>1, <1>4, <2>2, <2>3, LessAway DEF OwnerInv
    <3> QED
      BY <3>1, <3>2, <3>3, <3>4
  <2>6. CallInv'
    <3> SUFFICES ASSUME NEW x \in Proc, Live(x)' PROVE CallOK(x)'
      BY DEF CallInv
    <3>1. Live(x) /\ CallOK(x) /\ rpc[x] \in Rpc
      BY <2>3, Caller DEF CallInv, Live
    <3>2. CASE x = p
      <4>1. reply'[r] = m
        BY <1>6
      <4> QED
        BY <1>1, <1>3, <1>6, <2>1, <2>2, <3>1, <3>2, <4>1, Completed
    <3>3. CASE x # p
      <4>1. Untouched(x)
        BY <1>1, <1>2, <1>6, <2>1, <3>1, <3>3 DEF Untouched
      <4> QED
        BY <2>2, <3>1, <4>1, CallStays, LessUndisturbed
    <3> QED
      BY <3>2, <3>3
  <2> QED
    BY <2>4, <2>5, <2>6
<1>7. CASE /\ pc' = [pc EXCEPT ![p] = "give"] /\ UNCHANGED <<reply, done>>
           /\ \E i \in DOMAIN queue :
                /\ Matches(queue[i], m) /\ give' = [give EXCEPT ![p] = queue[i]]
  <2>1. /\ pc'[p] = "give" /\ \A x \in Proc \ {p} : pc'[x] = pc[x]
        /\ Matches(give'[p], m)
    BY <1>7 DEF PlaceInv, PlaceTypeOK
  <2>2. Held' = Held /\ Less
    <3>1. Held' = {m}
      BY <1>1, <1>3, <1>7, <2>1 DEF Held
    <3> QED
      BY <1>1, <1>3, <3>1 DEF Less
  <2>3. \A x \in Proc : (Live(x)' <=> Live(x)) /\ (InCall(x)' <=> InCall(x))
    BY <1>1, <2>1 DEF Live, InCall
  <2>4. TypeOK'
    BY <1>1, <1>4, <1>7 DEF TypeOK, ServerTypeOK
  <2>5. OnceInv' /\ FlushInv' /\ HeldInv' /\ OwnerInv'
    <3>1. OnceInv'
      BY <2>2, LessOnce
    <3>2. FlushInv'
      BY <1>1, <2>2, LessAway DEF FlushInv
    <3>3. HeldInv'
      BY <1>1, <1>2, <1>3, <1>7, <2>1, <2>2 DEF HeldInv, Matches
    <3>4. OwnerInv'
      BY <1>1, <1>4, <2>2, <2>3, LessAway DEF OwnerInv
    <3> QED
      BY <3>1, <3>2, <3>3, <3>4
  <2>6. CallInv'
    <3> SUFFICES ASSUME NEW x \in Proc, Live(x)' PROVE CallOK(x)'
      BY DEF CallInv
    <3>1. Live(x) /\ CallOK(x)
      BY <2>3 DEF CallInv
    <3>2. Untouched(x)
      BY <1>1, <1>7, <2>1 DEF Untouched
    <3> QED
      BY <2>2, <3>1, <3>2, CallStays, LessUndisturbed
  <2> QED
    BY <2>4, <2>5, <2>6
<1> QED
  BY <1>5, <1>6, <1>7 DEF Mux

LEMMA GiveMsg ==
  ASSUME PlaceInv, MsgInv, PlaceTypeOK', NEW p \in Proc, Give(p)
  PROVE  MsgInv'
<1> USE DEF MsgInv
<1> DEFINE r == rpc[p]
           q == give[p]
           m == reply[r]
<1>1. /\ pc[p] = "give" /\ UNCHANGED <<rpc, give, use, flushed, flushtag, flushbase, broken>>
      /\ UNCHANGED serverVars /\ pc' = [pc EXCEPT ![p] = "wake"] /\ ret' = [ret EXCEPT ![p] = "read"]
      /\ reply' = [reply EXCEPT ![q] = m, ![r] = NoReply] /\ done' = [done EXCEPT ![q] = TRUE]
  BY DEF Give, Goto, alloc, mnt
<1>2. /\ r \in Rpc /\ (\A x \in Proc \ {p} : rpc[x] # r) /\ ~done[r]
      /\ q \in Rpc /\ q # r /\ Matches(q, m)
  BY <1>1, Caller DEF HeldInv, PlaceInv, GiveInv, PlaceTypeOK
<1>3. /\ Held = {m} /\ \A x \in Proc \ {p} : pc[x] \notin {"mux", "give"}
      /\ m \in Reply \cup Flushed
  BY <1>1, HeldBy DEF HeldInv
<1>4. toserver' = toserver /\ toclient' = toclient /\ pending' = pending
  BY <1>1 DEF serverVars
<1>5. /\ pc'[p] = "wake" /\ ret'[p] = "read"
      /\ \A x \in Proc \ {p} : pc'[x] = pc[x] /\ ret'[x] = ret[x]
      /\ done'[q] /\ \A k \in Rpc \ {q} : done'[k] = done[k]
      /\ reply'[q] = m /\ \A k \in Rpc \ {q, r} : reply'[k] = reply[k]
  BY <1>1, <1>2 DEF PlaceInv, PlaceTypeOK, TypeOK
<1>6. Held' = {} /\ Less
  BY <1>1, <1>3, <1>5 DEF Held, Less
<1>7. \A x \in Proc : (Live(x)' <=> Live(x)) /\ (InCall(x)' <=> InCall(x))
  BY <1>1, <1>5 DEF Live, InCall
<1>8. TypeOK'
  <2>1. reply' \in [Rpc -> {NoReply} \cup Reply \cup Flushed]
    BY <1>1, <1>2, <1>3 DEF TypeOK
  <2> HIDE DEF m, q, r
  <2> QED
    BY <1>1, <1>4, <2>1 DEF TypeOK, ServerTypeOK
<1>9. OnceInv' /\ FlushInv' /\ HeldInv' /\ OwnerInv'
  <2>1. OnceInv'
    BY <1>6, LessOnce
  <2>2. FlushInv'
    BY <1>1, <1>6, LessAway DEF FlushInv
  <2>3. HeldInv'
    BY <1>3, <1>5, <1>6 DEF HeldInv
  <2>4. OwnerInv'
    BY <1>1, <1>4, <1>6, <1>7, LessAway DEF OwnerInv
  <2> QED
    BY <2>1, <2>2, <2>3, <2>4
<1>10. CallInv'
  <2> SUFFICES ASSUME NEW x \in Proc, Live(x)' PROVE CallOK(x)'
    BY DEF CallInv
  <2>1. Live(x) /\ CallOK(x) /\ rpc[x] \in Rpc
    BY <1>7, Caller DEF CallInv, Live
  <2>2. CASE rpc[x] = q
    <3>1. /\ Held = {m} /\ Matches(rpc[x], m) /\ Held' = {} /\ x # p
          /\ done'[rpc[x]] /\ reply'[rpc[x]] = m /\ pc'[x] = pc[x]
      BY <1>2, <1>3, <1>5, <1>6, <2>2
    <3> HIDE DEF m
    <3> QED
      BY <1>1, <2>1, <3>1, Completed
  <2>3. CASE rpc[x] # q
    <3>1. Untouched(x)
      BY <1>1, <1>2, <1>5, <2>1, <2>3 DEF Untouched
    <3> QED
      BY <1>6, <2>1, <3>1, CallStays, LessUndisturbed
  <2> QED
    BY <2>2, <2>3
<1> QED
  BY <1>8, <1>9, <1>10

-----------------------------------------------------------------------------
(* A call begins, fails, ends. *)

LEMMA FlushErrorMsg ==
  ASSUME GivenMayFail = FALSE, PlaceInv, MsgInv, PlaceTypeOK', NEW p \in Proc, FlushError(p)
  PROVE  MsgInv'
<1> USE DEF MsgInv
<1> DEFINE r == rpc[p]
<1>1. /\ pc[p] = "flush" /\ broken /\ ~BeingGiven(r)
      /\ UNCHANGED <<rpc, give, use, flushtag, reply, flushbase, broken>>
      /\ UNCHANGED serverVars
      /\ done' = [done EXCEPT ![r] = TRUE] /\ flushed' = [flushed EXCEPT ![r] = FALSE]
      /\ pc' = [pc EXCEPT ![p] = IF ret[p] = "read" THEN "release" ELSE "free"]
      /\ ret' = [ret EXCEPT ![p] = "free"]
  BY DEF FlushError, alloc
<1>2. r \in Rpc /\ \A x \in Proc \ {p} : rpc[x] # r
  BY <1>1, Caller
<1>3. /\ pc'[p] \in {"release", "free"} /\ ret'[p] = "free"
      /\ \A x \in Proc \ {p} : pc'[x] = pc[x] /\ ret'[x] = ret[x]
      /\ \A k \in Rpc \ {r} : done'[k] = done[k] /\ flushed'[k] = flushed[k]
  BY <1>1, <1>2 DEF PlaceInv, PlaceTypeOK, TypeOK
<1>4. toserver' = toserver /\ toclient' = toclient /\ pending' = pending
  BY <1>1 DEF serverVars
<1>5. Held' \subseteq Held /\ Less
  <2>1. Held' \subseteq Held
    BY <1>1, <1>3, HeldStays
  <2> QED
    BY <1>1, <2>1 DEF Less
<1>6. \A x \in Proc : Live(x)' => Live(x) /\ x # p
  BY <1>1, <1>3 DEF Live
<1>7. TypeOK'
  BY <1>1, <1>2, <1>4 DEF TypeOK, ServerTypeOK
<1>8. OnceInv' /\ FlushInv'
  <2>1. OnceInv'
    BY <1>5, LessOnce
  <2>2. FlushInv'
    BY <1>1, <1>5, LessAway DEF FlushInv
  <2> QED
    BY <2>1, <2>2
<1>9. HeldInv'
  <2> SUFFICES ASSUME NEW x \in Proc, pc'[x] \in {"mux", "give"}
               PROVE  ~done'[rpc[x]] /\ (pc'[x] = "give" => Matches(give[x], reply[rpc[x]])')
    BY <1>1, <1>5 DEF HeldInv
  <2>1. /\ x # p /\ pc'[x] = pc[x] /\ rpc[x] \in Rpc \ {r}
    BY <1>2, <1>3, Caller
  <2>2. pc[x] = "give" => give[x] \in Rpc \ {r}
    BY <1>1 DEF BeingGiven, PlaceInv, PlaceTypeOK, GiveInv
  <2> QED
    BY <1>1, <1>3, <2>1, <2>2 DEF HeldInv, Matches
<1>10. OwnerInv'
  BY <1>1, <1>4 DEF OwnerInv
<1>11. CallInv'
  <2> SUFFICES ASSUME NEW x \in Proc, Live(x)' PROVE CallOK(x)'
    BY DEF CallInv
  <2>1. Live(x) /\ CallOK(x) /\ x # p /\ rpc[x] \in Rpc \ {r}
    BY <1>2, <1>6, Caller DEF CallInv, Live
  <2>2. Untouched(x)
    BY <1>1, <1>3, <2>1 DEF Untouched
  <2> QED
    BY <1>5, <2>1, <2>2, CallStays, LessUndisturbed
<1> QED
  BY <1>7, <1>8, <1>9, <1>10, <1>11

LEMMA MntFreeMsg ==
  ASSUME PlaceInv, MsgInv, PlaceTypeOK', NEW p \in Proc, MntFree(p)
  PROVE  MsgInv'
<1> USE DEF MsgInv
<1> DEFINE r == rpc[p]
<1>1. /\ pc[p] \in {"done", "free"} /\ UNCHANGED <<give, use, done, flushbase, broken>>
      /\ UNCHANGED serverVars
      /\ pc' = [pc EXCEPT ![p] = "out"] /\ ret' = [ret EXCEPT ![p] = "out"]
      /\ rpc' = [rpc EXCEPT ![p] = 0]
      /\ flushed' = [flushed EXCEPT ![r] = FALSE] /\ flushtag' = [flushtag EXCEPT ![r] = 0]
      /\ reply' = [reply EXCEPT ![r] = NoReply]
  BY DEF MntFree, mnt
<1>2. r \in Rpc /\ (\A x \in Proc \ {p} : rpc[x] # r) /\ done[r]
  BY <1>1, Caller DEF PlaceInv, DoneInv
<1>3. /\ pc'[p] = "out"
      /\ \A x \in Proc \ {p} : pc'[x] = pc[x] /\ ret'[x] = ret[x] /\ rpc'[x] = rpc[x]
      /\ \A k \in Rpc \ {r} : /\ flushed'[k] = flushed[k] /\ flushtag'[k] = flushtag[k]
                              /\ reply'[k] = reply[k]
      /\ flushtag'[r] = 0
  BY <1>1, <1>2 DEF PlaceInv, PlaceTypeOK, TypeOK
<1>4. toserver' = toserver /\ toclient' = toclient /\ pending' = pending
  BY <1>1 DEF serverVars
<1>5. Held' \subseteq Held /\ Less
  <2>1. \A x \in Proc : pc'[x] \in {"mux", "give"} =>
          pc[x] \in {"mux", "give"} /\ reply'[rpc'[x]] = reply[rpc[x]]
    <3> SUFFICES ASSUME NEW x \in Proc, pc'[x] \in {"mux", "give"}
                 PROVE  pc[x] \in {"mux", "give"} /\ reply'[rpc'[x]] = reply[rpc[x]]
      OBVIOUS
    <3>1. x # p /\ pc[x] = pc'[x] /\ rpc[x] \in Rpc \ {r}
      BY <1>2, <1>3, Caller
    <3> QED
      BY <1>3, <3>1
  <2>2. Held' \subseteq Held
    BY <2>1, HeldStays
  <2> QED
    BY <1>1, <2>2 DEF Less
<1>6. \A x \in Proc : x # p => (Live(x)' <=> Live(x)) /\ (InCall(x)' <=> InCall(x))
  BY <1>1, <1>3 DEF Live, InCall
<1>7. TypeOK'
  BY <1>1, <1>2, <1>4 DEF TypeOK, ServerTypeOK
<1>8. OnceInv' /\ FlushInv'
  <2>1. OnceInv'
    BY <1>5, LessOnce
  <2>2. \A k \in Rpc : flushtag'[k] = 0 \/ (flushtag'[k] = flushtag[k] /\ k # r)
    BY <1>3
  <2>3. \A k \in Rpc : flushtag'[k] = 0 \/ \E x \in Proc : rpc'[x] = k
    BY <1>3, <2>2 DEF FlushInv
  <2>4. /\ Tagfls + flushbase >= 0 /\ flushbase' = flushbase
        /\ \A t \in TagsOf(Away)' : t <= Tagfls + flushbase
    BY <1>1, <1>5, LessAway, TagNumbers DEF FlushInv, TypeOK
  <2>5. /\ \A k \in Rpc : flushtag'[k] <= Tagfls + flushbase
        /\ \A k, q \in Rpc : flushtag'[k] = flushtag'[q] => k = q \/ flushtag'[k] = 0
    BY <2>2, <2>4 DEF FlushInv
  <2> QED
    BY <2>1, <2>3, <2>4, <2>5 DEF FlushInv
<1>9. HeldInv'
  <2> SUFFICES ASSUME NEW x \in Proc, pc'[x] \in {"mux", "give"}
               PROVE  ~done'[rpc'[x]] /\ (pc'[x] = "give" => Matches(give[x], reply[rpc[x]])')
    BY <1>1, <1>5 DEF HeldInv
  <2>1. /\ x # p /\ pc'[x] = pc[x] /\ rpc'[x] = rpc[x] /\ rpc[x] \in Rpc \ {r}
    BY <1>2, <1>3, Caller
  <2>2. pc[x] = "give" => give[x] \in Rpc \ {r}
    BY <1>2 DEF PlaceInv, PlaceTypeOK, GiveInv
  <2> QED
    BY <1>1, <1>3, <2>1, <2>2 DEF HeldInv, Matches
<1>10. OwnerInv'
  <2>1. CASE broken
    BY <1>1, <1>4, <2>1 DEF OwnerInv
  <2>2. CASE ~broken
    <3>1. Live(p) /\ r \notin TagsOf(Away)
      BY <1>1, <1>2, <2>2 DEF OwnerInv, InCall, CallInv, CallOK
    <3>2. \A k \in Rpc \cap TagsOf(Away)' : \E x \in Proc : rpc'[x] = k
      BY <1>3, <1>5, <2>2, <3>1, LessAway DEF OwnerInv
    <3>3. \A x \in Proc : InCall(x)' => Live(x)'
      BY <1>3, <1>6, <2>2 DEF OwnerInv, InCall
    <3> QED
      BY <1>1, <2>2, <3>2, <3>3 DEF OwnerInv
  <2> QED
    BY <2>1, <2>2
<1>11. CallInv'
  <2> SUFFICES ASSUME NEW x \in Proc, Live(x)' PROVE CallOK(x)'
    BY DEF CallInv
  <2>1. x # p
    BY <1>3 DEF Live
  <2>2. Live(x) /\ CallOK(x) /\ rpc[x] \in Rpc \ {r}
    BY <1>2, <1>6, <2>1, Caller DEF CallInv, Live
  <2>3. Untouched(x)
    BY <1>1, <1>3, <2>1, <2>2 DEF Untouched
  <2> QED
    BY <1>5, <2>2, <2>3, CallStays, LessUndisturbed
<1> QED
  BY <1>7, <1>8, <1>9, <1>10, <1>11

LEMMA MntCallMsg ==
  ASSUME PlaceInv, MsgInv, PlaceTypeOK', NEW p \in Proc, MntCall(p)
  PROVE  MsgInv'
<1> USE DEF MsgInv
<1>1. PICK r \in Rpc :
        /\ \A x \in Proc : rpc[x] # r
        /\ rpc' = [rpc EXCEPT ![p] = r] /\ done' = [done EXCEPT ![r] = FALSE]
        /\ flushed' = [flushed EXCEPT ![r] = FALSE]
        /\ reply' = [reply EXCEPT ![r] = NoReply]
        /\ use' = [use EXCEPT ![r] = (@ + 1) % Calls]
  <2>1. PICK r \in Rpc : (\A x \in Proc : rpc[x] # r) /\ rpc' = [rpc EXCEPT ![p] = r]
    BY Taken DEF PlaceInv
  <2>2. PICK q : /\ rpc' = [rpc EXCEPT ![p] = q] /\ done' = [done EXCEPT ![q] = FALSE]
                 /\ flushed' = [flushed EXCEPT ![q] = FALSE]
                 /\ reply' = [reply EXCEPT ![q] = NoReply]
                 /\ use' = [use EXCEPT ![q] = (@ + 1) % Calls]
    BY DEF MntCall
  <2>3. rpc'[p] = r /\ rpc'[p] = q
    BY <2>1, <2>2 DEF PlaceInv, PlaceTypeOK
  <2>4. r = q
    BY <2>3
  <2> QED
    BY <2>1, <2>2, <2>4
<1>2. /\ pc[p] = "out" /\ pc' = [pc EXCEPT ![p] = "write"]
      /\ UNCHANGED <<ret, give, flushtag, flushbase, broken>> /\ UNCHANGED serverVars
  BY DEF MntCall, Goto
<1>3. /\ pc'[p] = "write" /\ rpc'[p] = r
      /\ \A x \in Proc \ {p} : pc'[x] = pc[x] /\ ret'[x] = ret[x] /\ rpc'[x] = rpc[x]
      /\ \A k \in Rpc \ {r} : /\ done'[k] = done[k] /\ flushed'[k] = flushed[k]
                              /\ use'[k] = use[k] /\ reply'[k] = reply[k]
      /\ ~done'[r] /\ ~flushed'[r] /\ flushtag[r] = 0
  BY <1>1, <1>2 DEF PlaceInv, PlaceTypeOK, TypeOK, FlushInv
<1>4. toserver' = toserver /\ toclient' = toclient /\ pending' = pending
  BY <1>2 DEF serverVars
<1>5. Held' \subseteq Held /\ Less
  <2>1. \A x \in Proc : pc'[x] \in {"mux", "give"} =>
          pc[x] \in {"mux", "give"} /\ reply'[rpc'[x]] = reply[rpc[x]]
    <3> SUFFICES ASSUME NEW x \in Proc, pc'[x] \in {"mux", "give"}
                 PROVE  pc[x] \in {"mux", "give"} /\ reply'[rpc'[x]] = reply[rpc[x]]
      OBVIOUS
    <3>1. x # p /\ pc[x] = pc'[x] /\ rpc[x] \in Rpc \ {r}
      BY <1>1, <1>3, Caller
    <3> QED
      BY <1>3, <3>1
  <2>2. Held' \subseteq Held
    BY <2>1, HeldStays
  <2> QED
    BY <1>2, <2>2 DEF Less
<1>6. \A x \in Proc : x # p => (Live(x)' <=> Live(x)) /\ (InCall(x)' <=> InCall(x))
  BY <1>2, <1>3 DEF Live, InCall
<1>7. TypeOK'
  <2>1. use' \in [Rpc -> Call]
    <3>1. Calls \in Nat \ {0} /\ Call = 0..Calls - 1
      BY TagAssumption
    <3>2. use[r] \in Nat
      BY <1>1, <3>1 DEF TypeOK
    <3>3. (use[r] + 1) % Calls \in Call
      BY <3>1, <3>2
    <3> QED
      BY <1>1, <3>3 DEF TypeOK
  <2> QED
    BY <1>1, <1>2, <1>4, <2>1 DEF TypeOK, ServerTypeOK
<1>8. OnceInv' /\ FlushInv'
  <2>1. OnceInv'
    BY <1>5, LessOnce
  <2>2. \A k \in Rpc : flushtag[k] = 0 \/ \E x \in Proc : rpc'[x] = k
    <3> SUFFICES ASSUME NEW k \in Rpc, flushtag[k] # 0 PROVE \E x \in Proc : rpc'[x] = k
      OBVIOUS
    <3>1. PICK x \in Proc : rpc[x] = k
      BY DEF FlushInv
    <3>2. x # p
      BY <1>2, <3>1, RpcNumbers DEF PlaceInv, AllocInv, InCall
    <3> QED
      BY <1>3, <3>1, <3>2
  <2>3. FlushInv'
    BY <1>2, <1>5, <2>2, LessAway DEF FlushInv
  <2> QED
    BY <2>1, <2>3
<1>9. HeldInv'
  <2> SUFFICES ASSUME NEW x \in Proc, pc'[x] \in {"mux", "give"}
               PROVE  ~done'[rpc'[x]] /\ (pc'[x] = "give" => Matches(give[x], reply[rpc[x]])')
    BY <1>2, <1>5 DEF HeldInv
  <2>1. /\ x # p /\ pc'[x] = pc[x] /\ rpc'[x] = rpc[x] /\ rpc[x] \in Rpc \ {r}
    BY <1>1, <1>3, Caller
  <2>2. pc[x] = "give" => give[x] \in Rpc \ {r}
    BY <1>1 DEF PlaceInv, PlaceTypeOK, GiveInv
  <2> QED
    BY <1>2, <1>3, <2>1, <2>2 DEF HeldInv, Matches
<1>10. OwnerInv'
  <2>1. CASE broken
    BY <1>2, <1>4, <2>1 DEF OwnerInv
  <2>2. CASE ~broken
    <3>1. \A k \in Rpc \cap TagsOf(Away)' : \E x \in Proc : rpc'[x] = k
      <4> SUFFICES ASSUME NEW k \in Rpc \cap TagsOf(Away) PROVE \E x \in Proc : rpc'[x] = k
        BY <1>5, LessAway
      <4>1. PICK x \in Proc : rpc[x] = k
        BY <2>2 DEF OwnerInv
      <4>2. x # p
        BY <1>2, <4>1, RpcNumbers DEF PlaceInv, AllocInv, InCall
      <4> QED
        BY <1>3, <4>1, <4>2
    <3>2. \A x \in Proc : InCall(x)' => Live(x)'
      BY <1>2, <1>3, <1>6, <2>2 DEF OwnerInv, InCall, Live
    <3> QED
      BY <1>2, <2>2, <3>1, <3>2 DEF OwnerInv
  <2> QED
    BY <2>1, <2>2
<1>11. Live(p)' => CallOK(p)'
  <2>1. SUFFICES ASSUME ~broken PROVE CallOK(p)'
    BY <1>2, <1>3 DEF Live
  <2>2. r \notin TagsOf(Away)'
    BY <1>1, <1>5, <2>1, LessAway DEF OwnerInv
  <2>3. 0 \notin TagsOf(Away)'
    <3>1. 0 \notin TagsOf(Away)
      BY Typed, TagNumbers DEF TagsOf
    <3> QED
      BY <1>5, <3>1, LessAway
  <2>4. /\ 0 \notin Carries(toserver') \cup Carries(toclient') \cup TagsOf(Held')
        /\ \A k \in ToSet(toserver') : k.tag # 0
        /\ \A k \in Away' : k.tag # r
    BY <2>2, <2>3, AwayTags DEF Carries, TagsOf
  <2>5. Precedes(toserver', r, 0) /\ Precedes(toclient', r, 0)
    <3>1. \A s : \A i \in DOMAIN s : s[i].tag \in Carries(s)
      BY DEF Carries, TagsOf, ToSet
    <3> QED
      BY <2>4, <3>1 DEF Precedes
  <2> QED
    BY <1>2, <1>3, <2>2, <2>4, <2>5 DEF CallOK
<1>12. CallInv'
  <2> SUFFICES ASSUME NEW x \in Proc \ {p}, Live(x)' PROVE CallOK(x)'
    BY <1>11 DEF CallInv
  <2>1. Live(x) /\ CallOK(x) /\ rpc[x] \in Rpc \ {r}
    BY <1>1, <1>6, Caller DEF CallInv, Live
  <2>2. Untouched(x)
    BY <1>2, <1>3, <2>1 DEF Untouched
  <2> QED
    BY <1>5, <2>1, <2>2, CallStays, LessUndisturbed
<1> QED
  BY <1>7, <1>8, <1>9, <1>10, <1>12

-----------------------------------------------------------------------------
(* The whole invariant, and what follows from it. *)

LEMMA MsgInit == Init => MsgInv
<1> SUFFICES ASSUME Init PROVE MsgInv
  OBVIOUS
<1> USE DEF Init, ServerInit
<1>1. /\ Held = {} /\ Away = {} /\ Carries(toserver) = {} /\ Carries(toclient) = {}
      /\ TagsOf(pending) = {} /\ TagsOf(Held) = {} /\ TagsOf(Away) = {}
  BY DEF Held, Away, Carries, TagsOf, ToSet
<1>2. \A p \in Proc : ~InCall(p) /\ ~Live(p)
  BY DEF InCall, Live
<1>3. TypeOK
  <2>1. PlaceTypeOK
    BY InitInv DEF PlaceInv
  <2>2. 0 \in Call /\ 0 \in 0..MaxFlush
    BY TagAssumption
  <2>3. ServerTypeOK
    BY DEF ServerTypeOK
  <2> QED
    BY <2>1, <2>2, <2>3 DEF TypeOK
<1>4. OnceInv
  BY <1>1 DEF OnceInv, Single
<1>5. FlushInv
  BY <1>1, TagNumbers DEF FlushInv
<1>6. HeldInv
  BY <1>1 DEF HeldInv
<1>7. OwnerInv
  BY <1>1, <1>2 DEF OwnerInv
<1>8. CallInv
  BY <1>2 DEF CallInv
<1> QED
  BY <1>3, <1>4, <1>5, <1>6, <1>7, <1>8 DEF MsgInv

LEMMA MsgStep ==
  ASSUME GivenMayFail = FALSE, PlaceInv, MsgInv, PlaceTypeOK', [Next]_vars
  PROVE  MsgInv'
<1>1. CASE Server
  BY <1>1, ReadRequestKeeps, ReadFlushKeeps, AnswerKeeps DEF Server, ServerNext
<1>2. CASE Break
  BY <1>2, BreakMsg
<1>3. ASSUME NEW p \in Proc, MntCall(p) PROVE MsgInv'
  BY <1>3, MntCallMsg
<1>4. ASSUME NEW p \in Proc, Step(p) PROVE MsgInv'
  BY <1>4, QuietMsg, WriteMsg, ReadMsg, MuxMsg, GiveMsg, FlushWriteMsg, FlushErrorMsg,
     MntFreeMsg DEF Step
<1>5. ASSUME NEW p \in Proc, Error(p) PROVE MsgInv'
  BY <1>5, ErrorMsg, QuietMsg DEF Error
<1>6. CASE UNCHANGED vars
  <2>1. /\ UNCHANGED <<pc, ret, rpc, give, use, done, flushed, flushtag, reply, flushbase, broken>>
        /\ UNCHANGED serverVars
    BY <1>6 DEF vars, alloc, rpcs, mnt
  <2>2. /\ \A x \in Proc : Live(x)' <=> Live(x)
        /\ \A x \in Proc : InCall(x)' <=> InCall(x)
        /\ Less
    BY <2>1 DEF Live, InCall, Less, Held
  <2>3. /\ broken' \in BOOLEAN /\ (~broken' => \A x \in Proc : InCall(x)' => Live(x)')
        /\ broken' => toserver' = <<>> /\ toclient' = <<>> /\ pending' = {}
    BY <2>1, <2>2 DEF MsgInv, TypeOK, OwnerInv, serverVars
  <2> QED
    BY <2>1, <2>2, <2>3, PlacesMsg
<1> QED
  BY <1>1, <1>2, <1>3, <1>4, <1>5, <1>6 DEF Next

LEMMA IndInductive == ASSUME GivenMayFail = FALSE PROVE Spec => []IndInv
<1>1. Init => IndInv
  BY InitInv, MsgInit DEF IndInv
<1>2. ASSUME IndInv, [Next]_vars PROVE IndInv'
  <2>1. PlaceInv /\ MsgInv
    BY <1>2 DEF IndInv
  <2>2. PlaceInv'
    BY <1>2, <2>1, InductiveStep
  <2>3. PlaceTypeOK'
    BY <2>2 DEF PlaceInv
  <2>4. MsgInv'
    BY <1>2, <2>1, <2>3, MsgStep
  <2> QED
    BY <2>2, <2>4 DEF IndInv
<1> QED
  BY <1>1, <1>2, PTL DEF Spec

(* mountio, mntrpcread, mountmux and mntflush: a call that ends without an *)
(* error has its own reply, or the answer to its flush, and nothing of it  *)
(* is under way when its Mntrpc and tag are used again.                    *)
THEOREM OwnReplies == ASSUME GivenMayFail = FALSE PROVE Spec => []OwnReply
<1>1. ASSUME IndInv PROVE OwnReply
  <2> SUFFICES ASSUME NEW p \in Proc, pc[p] = "done"
               PROVE  LET m == reply[rpc[p]] IN
                      /\ m \in {[TheRequest(p) EXCEPT !.type = "R"],
                                [type |-> "Rflush", tag |-> flushtag[rpc[p]]]}
                      /\ TheRequest(p) \notin ToSet(toserver) \cup pending
                      /\ [TheRequest(p) EXCEPT !.type = "R"] \notin ToSet(toclient)
    BY DEF OwnReply
  <2>1. Live(p) /\ done[rpc[p]]
    BY <1>1 DEF IndInv, PlaceInv, DoneInv, Live
  <2>2. CallOK(p)
    BY <1>1, <2>1 DEF IndInv, MsgInv, CallInv
  <2>3. /\ TheRequest(p).tag = rpc[p] /\ [TheRequest(p) EXCEPT !.type = "R"].tag = rpc[p]
    BY DEF TheRequest
  <2>4. rpc[p] \notin TagsOf(Away)
    BY <2>1, <2>2 DEF CallOK
  <2>5. \A m \in ToSet(toserver) \cup pending \cup ToSet(toclient) : m.tag # rpc[p]
    BY <2>4 DEF TagsOf, Away
  <2>6. reply[rpc[p]] \in {[TheRequest(p) EXCEPT !.type = "R"],
                           [type |-> "Rflush", tag |-> flushtag[rpc[p]]]}
    BY <2>1, <2>2 DEF CallOK
  <2> QED
    BY <2>3, <2>5, <2>6
<1> QED
  BY <1>1, IndInductive, PTL

(* The types of the mount driver's state and of the messages it exchanges. *)
THEOREM TypeCorrect == ASSUME GivenMayFail = FALSE PROVE Spec => []TypeOK
<1>1. IndInv => TypeOK
  BY DEF IndInv, MsgInv
<1> QED
  BY <1>1, IndInductive, PTL
=============================================================================
