------------------------------- MODULE RWLock -------------------------------
(***************************************************************************)
(* The reader/writer lock of emu/lock.c, the lock of every name space      *)
(* (Pgrp.ns): cmount and cunmount take it to write, domount, undomount,    *)
(* walk and createdir to read.  Each process is either outside, or at a    *)
(* control point inside rlock, runlock, wlock or wunlock, or in the        *)
(* section the lock protects ("reading", "writing").                       *)
(***************************************************************************)
EXTENDS Integers, FiniteSets, Rendezvous, QLock, Queues

VARIABLES
  x,            \* RWlock.x: mutual exclusion of the entry protocol
  k,            \* RWlock.k: held by the writer, or by the readers together
  readers,      \* RWlock.readers
  l             \* RWlock.l: the process that holds the spin lock, or NoProc

rwVars == <<ht, x, k, readers, l, pc>>

RWLabels == {"out", "rxwait", "rx", "rux", "reading", "rul",
             "wxwait", "wx", "wkwait", "writing", "wuk"}

RWInit ==
  /\ RendezvousInit
  /\ x = QLockFree
  /\ k = QLockFree
  /\ readers = 0
  /\ l = NoProc
  /\ pc = [p \in Procs |-> "out"]

(* qunlock after the structure changed: meet the process the lock went to. *)
WakeHead(p, q) ==
  IF q.queue # <<>> THEN Meet(p, Head(q.queue)) ELSE UNCHANGED ht

-----------------------------------------------------------------------------
(* Entry to the protocol: qlock(&l->x), for a reader and for a writer. *)
EnterX(p, wait, got) ==
  /\ Move(p, "out", IF x.locked THEN wait ELSE got)
  /\ x' = QLockTake(x, p)
  /\ UNCHANGED <<ht, k, readers, l>>

RLock(p) == EnterX(p, "rxwait", "rx")

WLock(p) == EnterX(p, "wxwait", "wx")

(* The rendezvous at the end of a qlock that had to queue. *)
Await(p) ==
  /\ \/ Move(p, "rxwait", "rx")
     \/ Move(p, "wxwait", "wx")
     \/ Move(p, "wkwait", "writing")
  /\ Meet(p, p)
  /\ UNCHANGED <<x, k, readers, l>>

(***************************************************************************)
(* rlock with x held: count the reader and try to shut the writers out.    *)
(* The result of canqlock is ignored.  canqlock also gives up when it      *)
(* finds k's spin lock taken, by a process about to release or to take k.  *)
(***************************************************************************)
TouchesK(o) == Running(o) /\ pc[o] \in {"wx", "wuk"}

RLockCount(p) ==
  /\ Move(p, "rx", "rux")
  /\ l = NoProc
  /\ readers' = readers + 1
  /\ \/ k' = QLockTry(k)
     \/ /\ \E o \in Procs : TouchesK(o)
        /\ k' = k
  /\ UNCHANGED <<ht, x, l>>

RLockDone(p) ==
  /\ Move(p, "rux", "reading")
  /\ x' = QLockPass(x)
  /\ WakeHead(p, x)
  /\ UNCHANGED <<k, readers, l>>

(* Mutant: the last reader keeps k. *)
RUnlockKeepK(p) ==
  /\ l = NoProc
  /\ readers' = readers - 1
  /\ Move(p, "reading", "out")
  /\ UNCHANGED <<ht, x, k, l>>

(* runlock; the last reader passes k on, holding l until that is done. *)
RUnlock(p) ==
  /\ l = NoProc
  /\ readers' = readers - 1
  /\ IF readers = 1
     THEN /\ Move(p, "reading", "rul")
          /\ l' = p
          /\ k' = QLockPass(k)
          /\ WakeHead(p, k)
     ELSE /\ Move(p, "reading", "out")
          /\ UNCHANGED <<ht, k, l>>
  /\ UNCHANGED x

RUnlockDone(p) ==
  /\ Move(p, "rul", "out")
  /\ l' = NoProc
  /\ UNCHANGED <<ht, x, k, readers>>

(* wlock with x held: qlock(&l->k). *)
WLockK(p) ==
  /\ Move(p, "wx", IF k.locked THEN "wkwait" ELSE "writing")
  /\ k' = QLockTake(k, p)
  /\ UNCHANGED <<ht, x, readers, l>>

(* wunlock: x first, then k. *)
WUnlock(p) ==
  /\ Move(p, "writing", "wuk")
  /\ x' = QLockPass(x)
  /\ WakeHead(p, x)
  /\ UNCHANGED <<k, readers, l>>

WUnlockK(p) ==
  /\ Move(p, "wuk", "out")
  /\ k' = QLockPass(k)
  /\ WakeHead(p, k)
  /\ UNCHANGED <<x, readers, l>>

-----------------------------------------------------------------------------
(* The steps a process takes on its own once it is inside a call. *)
RWProceed(p) ==
  \/ Await(p)
  \/ RLockCount(p) \/ RLockDone(p) \/ RUnlock(p) \/ RUnlockDone(p)
  \/ WLockK(p) \/ WUnlock(p) \/ WUnlockK(p)

RWNext == \E p \in Procs : RLock(p) \/ WLock(p) \/ RWProceed(p)

(***************************************************************************)
(* Host threads are scheduled fairly and the sections under the lock end;  *)
(* a process may stay outside for ever.  lock(&l->l) spins, so a process   *)
(* that needs l gets it only if the host scheduler is strongly fair to it. *)
(***************************************************************************)
RWFairness ==
  \A p \in Procs :
    /\ WF_rwVars(RWProceed(p))
    /\ SF_rwVars(RLockCount(p) \/ RUnlock(p))

RWSpec == RWInit /\ [][RWNext]_rwVars /\ RWFairness

-----------------------------------------------------------------------------
(* The processes at a control point, those still in a rendezvous left out. *)
InSection(label) == {p \in Procs : pc[p] = label /\ Running(p)}

RWTypeOK ==
  /\ RendezvousTypeOK
  /\ x \in QLockType(Procs)
  /\ k \in QLockType(Procs)
  /\ readers \in Nat
  /\ l \in Procs \union {NoProc}
  /\ pc \in [Procs -> RWLabels]

(***************************************************************************)
(* At most one writer is in the section wlock protects: cmount and         *)
(* cunmount never edit the mount table together.                           *)
(***************************************************************************)
OneWriter == Cardinality(InSection("writing")) <= 1

(***************************************************************************)
(* What the declaration of Pgrp.ns promises ("n read/one write lock"): a   *)
(* reader and a writer are never in the section together.                  *)
(***************************************************************************)
ReadersExcludeWriter == InSection("reading") = {} \/ InSection("writing") = {}

(***************************************************************************)
(* When every process has left, the lock is as free as it was at the       *)
(* start: no call leaves x or k taken or a process queued.                 *)
(***************************************************************************)
QuiescentFree ==
  InSection("out") = Procs => x = QLockFree /\ k = QLockFree /\ readers = 0

(***************************************************************************)
(* Every rlock and every wlock returns: no process stays queued for ever   *)
(* on x or k, although the queue of x mixes readers and writers.           *)
(***************************************************************************)
EveryCallReturns ==
  \A p \in Procs :
    /\ pc[p] \in {"rxwait", "rx"} ~> p \in InSection("reading")
    /\ pc[p] \in {"wxwait", "wx", "wkwait"} ~> p \in InSection("writing")

-----------------------------------------------------------------------------
(* The inductive invariant.                                                *)

(* p is in the queue of x, or in that of k, or about to be given the lock. *)
AwaitsX(p) ==
  pc[p] \in {"rxwait", "wxwait"} \/ (pc[p] \in {"rx", "wx"} /\ ht[p] = p)
AwaitsK(p) == pc[p] = "wkwait" \/ (pc[p] = "writing" /\ ht[p] = p)

(* The lock has been passed on to p, which is yet to come to the meeting. *)
Passed(p) == ht[p] \notin {p, NoProc}

HasX(p) ==
  \/ pc[p] \in {"rux", "wkwait", "writing"}
  \/ pc[p] \in {"rx", "wx"} /\ ht[p] # p
  \/ AwaitsX(p) /\ Passed(p)

HasK(p) ==
  \/ pc[p] = "wuk"
  \/ pc[p] = "writing" /\ ht[p] # p
  \/ AwaitsK(p) /\ Passed(p)

(* Who waits under whose tag: a process for its turn, or one that has      *)
(* passed x or k on to it.                                                 *)
LockWaitOK(t) ==
  ht[t] # NoProc =>
    \/ ht[t] = t /\ pc[t] \in {"rx", "wx", "writing"}
    \/ ht[t] # t /\ pc[ht[t]] \in {"reading", "wuk"} /\ AwaitsX(t) /\ t \notin Members(x.queue)
    \/ ht[t] # t /\ pc[ht[t]] \in {"rul", "out"} /\ AwaitsK(t) /\ t \notin Members(k.queue)

LockWaits ==
  /\ \A t \in Procs : LockWaitOK(t)
  /\ \A t, u \in Procs : ht[t] = ht[u] => t = u \/ ht[t] = NoProc

(* Both queues have each process once. *)
LockQueues ==
  /\ Distinct(x.queue) /\ \A p \in Members(x.queue) : AwaitsX(p)
  /\ Distinct(k.queue) /\ \A p \in Members(k.queue) : AwaitsK(p)

(* x is held by one, as long as it is locked. *)
XInv ==
  /\ \A p, q \in Procs : HasX(p) /\ HasX(q) => p = q
  /\ x.locked <=> \E p \in Procs : HasX(p)
  /\ ~x.locked => x.queue = <<>>

(* k is locked only while a writer holds it or there are readers; that     *)
(* there are some does not mean that it is locked.                         *)
KInv ==
  /\ k.locked => readers > 0 \/ \E p \in Procs : HasK(p)
  /\ ~k.locked => k.queue = <<>>

Readers == {p \in Procs : pc[p] \in {"rux", "reading"}}

ReadersInv == IsFiniteSet(Readers) /\ readers = Cardinality(Readers)

RWIndInv == RWTypeOK /\ LockWaits /\ LockQueues /\ XInv /\ KInv /\ ReadersInv
=============================================================================
