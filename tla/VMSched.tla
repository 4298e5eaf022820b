------------------------------ MODULE VMSched -------------------------------
(***************************************************************************)
(* How the host threads of the emulator share the one Dis machine          *)
(* (emu/dis.c): interpreters, which run vmachine, and other kernel         *)
(* processes pass it on with release, acquire, iyield and startup.  The    *)
(* spin lock isched.l makes each change of the fields of isched one step;  *)
(* the rendezvous that follows, the Wakeup and the Sleep on isched.irend   *)
(* are steps of their own.  A process in a rendezvous has its pc where it  *)
(* will go on and is not Running.                                          *)
(*                                                                         *)
(* The progs themselves (module DisSched) are reduced to nrun, how many    *)
(* are on the run queue, out of at most MaxProgs.                          *)
(***************************************************************************)
EXTENDS Integers, FiniteSets, Rendezvous, Queues

CONSTANTS
  Interps,      \* threads that run vmachine; not all exist at first
  First,        \* the thread that ran disinit
  MaxProgs,     \* bound: Dis progs
  MaxYield      \* bound: isched.yield, which has none in the code

ASSUME VMAssumption ==
  /\ Interps \subseteq Procs
  /\ First \in Interps
  /\ MaxProgs \in Nat \ {0}
  /\ MaxYield \in Nat \ {0}

VARIABLES
  idle,         \* isched.idle
  yield,        \* isched.yield
  vmq,          \* isched.vmq .. isched.vmqt
  nrun,         \* length of the run queue isched.runhd ..
  irend,        \* isched.irend.p: the interpreter asleep, or NoProc
  irendl,       \* isched.irend.l: who holds it across a step, or NoProc
  to            \* the process p is going to meet in release or iyield

vars == <<ht, idle, yield, vmq, nrun, irend, irendl, pc, to>>

sched == <<idle, yield, vmq>>

Init ==
  /\ RendezvousInit
  /\ idle = TRUE
  /\ yield = 0
  /\ vmq = <<>>
  /\ nrun = 1
  /\ irend = NoProc
  /\ irendl = NoProc
  /\ pc = [p \in Procs |-> IF p = First THEN "start"
                           ELSE IF p \in Interps THEN "unborn" ELSE "out"]
  /\ to = [p \in Procs |-> NoProc]

At(p, label) == Running(p) /\ pc[p] = label

Goto(p, label) == pc' = [pc EXCEPT ![p] = label]

(***************************************************************************)
(* Dis progs that are ready or released; a kernel process inside has its   *)
(* pseudo-prog at the head of the run queue.                               *)
(***************************************************************************)
ActiveProgs ==
  nrun + Cardinality({p \in Interps :
                        pc[p] \in {"out", "wakeup", "unlock", "meet", "got", "relmeet"}})
       - Cardinality({p \in Procs : pc[p] = "in"})

tready == nrun # 0 \/ yield # 0

-----------------------------------------------------------------------------
(* acquire() *)

(* isched.idle: the machine is free. *)
AcquireIdle(p) ==
  /\ At(p, "out")
  /\ idle
  /\ idle' = FALSE
  /\ Goto(p, "got")
  /\ UNCHANGED <<ht, yield, vmq, nrun, irend, irendl, to>>

(* Mutant: only the first to ask counts. *)
AcquireQueueFirst(p) ==
  /\ At(p, "out")
  /\ ~idle
  /\ yield' = 1
  /\ vmq' = <<p>> \o vmq
  /\ Goto(p, IF yield = 0 THEN "wakeup" ELSE "meet")
  /\ UNCHANGED <<ht, idle, nrun, irend, irendl, to>>

(* Otherwise p goes to the front of vmq; the first to ask wakes the owner. *)
AcquireQueue(p) ==
  /\ At(p, "out")
  /\ ~idle
  /\ yield < MaxYield
  /\ yield' = yield + 1
  /\ vmq' = <<p>> \o vmq
  /\ Goto(p, IF yield = 0 THEN "wakeup" ELSE "meet")
  /\ UNCHANGED <<ht, idle, nrun, irend, irendl, to>>

(* Mutant: the sleeper stays in irend. *)
WakeupIrendKeep(p) ==
  /\ At(p, "wakeup")
  /\ irendl = NoProc
  /\ IF irend = NoProc
     THEN Goto(p, "meet") /\ UNCHANGED <<ht, irendl>>
     ELSE Meet(p, irend) /\ irendl' = p /\ Goto(p, "unlock")
  /\ UNCHANGED <<sched, nrun, irend, to>>

(* Wakeup(&isched.irend), holding its lock across the rendezvous. *)
WakeupIrend(p) ==
  /\ At(p, "wakeup")
  /\ irendl = NoProc
  /\ IF irend = NoProc
     THEN /\ Goto(p, "meet")
          /\ UNCHANGED <<ht, irend, irendl>>
     ELSE /\ Meet(p, irend)
          /\ irend' = NoProc
          /\ irendl' = p
          /\ Goto(p, "unlock")
  /\ UNCHANGED <<sched, nrun, to>>

WakeupDone(p) ==
  /\ At(p, "unlock")
  /\ irendl' = NoProc
  /\ Goto(p, "meet")
  /\ UNCHANGED <<ht, sched, nrun, irend, to>>

(* rendezvous(up): wait for whoever hands the machine over. *)
AcquireMeet(p) ==
  /\ At(p, "meet")
  /\ Meet(p, p)
  /\ Goto(p, "got")
  /\ UNCHANGED <<sched, nrun, irend, irendl, to>>

(* The prog of p goes to the head of the run queue. *)
AcquireDone(p) ==
  /\ At(p, "got")
  /\ nrun' = nrun + 1
  /\ Goto(p, IF p \in Interps THEN "run" ELSE "in")
  /\ UNCHANGED <<ht, sched, irend, irendl, to>>

-----------------------------------------------------------------------------
(* release() and releasex() *)

(* Mutant: vmq is not looked at. *)
GiveIdleAlways ==
  /\ idle' = TRUE
  /\ UNCHANGED <<vmq, to>>

(* Nobody waits: the machine becomes idle and kproc starts a vmachine. *)
GiveIdle ==
  /\ vmq = <<>>
  /\ idle' = TRUE
  /\ UNCHANGED <<vmq, to>>

(* Hand the machine to the head of vmq. *)
GiveHead(p) ==
  /\ vmq # <<>>
  /\ vmq' = Tail(vmq)
  /\ to' = [to EXCEPT ![p] = Head(vmq)]
  /\ UNCHANGED idle

(***************************************************************************)
(* p leaves with its prog, from a built-in or from a kernel process, and   *)
(* will be at label when the machine is handed over.                       *)
(***************************************************************************)
GiveUp(p, handing, label) ==
  /\ nrun' = nrun - 1
  /\ \/ /\ GiveIdle
        /\ \E n \in Interps :
             /\ pc[n] = "unborn"
             /\ pc' = [pc EXCEPT ![p] = label, ![n] = "start"]
     \/ /\ GiveHead(p)
        /\ Goto(p, handing)
  /\ UNCHANGED <<ht, yield, irend, irendl>>

Release(p) ==
  /\ At(p, "run") \/ At(p, "in")
  /\ GiveUp(p, "relmeet", "out")

(* disfault: the prog is broken, the thread that faulted ends. *)
Fault(p) ==
  /\ At(p, "run")
  /\ GiveUp(p, "diemeet", "unborn")

ReleaseMeet(p) ==
  /\ \/ At(p, "relmeet") /\ Goto(p, "out")
     \/ At(p, "diemeet") /\ Goto(p, "unborn")
  /\ Meet(p, to[p])
  /\ to' = [to EXCEPT ![p] = NoProc]
  /\ UNCHANGED <<sched, nrun, irend, irendl>>

-----------------------------------------------------------------------------
(* vmachine() *)

(* startup: take the idle machine, or wait for it at the tail of vmq. *)
Startup(p) ==
  /\ At(p, "start")
  /\ \/ /\ idle
        /\ idle' = FALSE
        /\ Goto(p, "loop")
        /\ UNCHANGED vmq
     \/ /\ ~idle
        /\ vmq' = Append(vmq, p)
        /\ Goto(p, "startmeet")
        /\ UNCHANGED idle
  /\ UNCHANGED <<ht, yield, nrun, irend, irendl, to>>

StartupMeet(p) ==
  /\ At(p, "startmeet")
  /\ Meet(p, p)
  /\ Goto(p, "loop")
  /\ UNCHANGED <<sched, nrun, irend, irendl, to>>

(* The top of the loop: with nothing to do, on to Sleep(&isched.irend). *)
Loop(p) ==
  /\ At(p, "loop")
  /\ Goto(p, IF tready THEN "yield?" ELSE "sleep")
  /\ UNCHANGED <<ht, sched, nrun, irend, irendl, to>>

(* Sleep, under the lock of irend: look again, then leave up in irend. *)
Sleep(p) ==
  /\ At(p, "sleep")
  /\ irendl = NoProc
  /\ IF tready
     THEN Goto(p, "yield?") /\ UNCHANGED irend
     ELSE Goto(p, "asleep") /\ irend' = p
  /\ UNCHANGED <<ht, sched, nrun, irendl, to>>

SleepMeet(p) ==
  /\ At(p, "asleep")
  /\ Meet(p, p)
  /\ Goto(p, "yield?")
  /\ UNCHANGED <<sched, nrun, irend, irendl, to>>

(* Mutant: the owner yields only when it has nothing to run. *)
IYieldLazy(p) ==
  /\ At(p, "yield?")
  /\ IF yield = 0 \/ vmq = <<>> \/ nrun # 0
     THEN Goto(p, "disp") /\ UNCHANGED <<yield, vmq, to>>
     ELSE /\ yield' = yield - 1
          /\ vmq' = Append(Tail(vmq), p)
          /\ to' = [to EXCEPT ![p] = Head(vmq)]
          /\ Goto(p, "yieldmeet")
  /\ UNCHANGED <<ht, idle, nrun, irend, irendl>>

(***************************************************************************)
(* iyield, if isched.yield asks for it: the head of vmq gets the machine,  *)
(* p joins the tail.                                                       *)
(***************************************************************************)
IYield(p) ==
  /\ At(p, "yield?")
  /\ IF yield = 0
     THEN Goto(p, "disp") /\ UNCHANGED <<yield, vmq, to>>
     ELSE /\ yield' = yield - 1
          /\ IF vmq = <<>>
             THEN Goto(p, "disp") /\ UNCHANGED <<vmq, to>>
             ELSE /\ vmq' = Append(Tail(vmq), p)
                  /\ to' = [to EXCEPT ![p] = Head(vmq)]
                  /\ Goto(p, "yieldmeet")
  /\ UNCHANGED <<ht, idle, nrun, irend, irendl>>

(* Mutant: iyield does not wait for its turn. *)
IYieldOn(p) ==
  /\ At(p, "yieldmeet")
  /\ Meet(p, to[p])
  /\ to' = [to EXCEPT ![p] = NoProc]
  /\ Goto(p, "disp")
  /\ UNCHANGED <<sched, nrun, irend, irendl>>

IYieldMeet(p) ==
  /\ At(p, "yieldmeet")
  /\ Meet(p, to[p])
  /\ to' = [to EXCEPT ![p] = NoProc]
  /\ Goto(p, "yielded")
  /\ UNCHANGED <<sched, nrun, irend, irendl>>

IYieldWait(p) ==
  /\ At(p, "yielded")
  /\ Meet(p, p)
  /\ Goto(p, "disp")
  /\ UNCHANGED <<sched, nrun, irend, irendl, to>>

(* Run the head of the run queue, if there is one. *)
Dispatch(p) ==
  /\ At(p, "disp")
  /\ Goto(p, IF nrun # 0 THEN "run" ELSE "loop")
  /\ UNCHANGED <<ht, sched, nrun, irend, irendl, to>>

(* xec returns: the quantum is over, or the prog blocked or ended. *)
XecDone(p) ==
  /\ At(p, "run")
  /\ nrun' \in {nrun, nrun - 1}
  /\ Goto(p, "loop")
  /\ UNCHANGED <<ht, sched, irend, irendl, to>>

(* The prog or the kernel process inside readies another prog. *)
Ready(p) ==
  /\ At(p, "run") \/ At(p, "in")
  /\ ActiveProgs < MaxProgs
  /\ nrun' = nrun + 1
  /\ UNCHANGED <<ht, sched, irend, irendl, pc, to>>

-----------------------------------------------------------------------------
(* The steps a process takes whatever the others do. *)
Proceed(p) ==
  \/ WakeupIrend(p) \/ WakeupDone(p) \/ AcquireMeet(p) \/ AcquireDone(p)
  \/ Release(p) \/ Fault(p) \/ ReleaseMeet(p)
  \/ Startup(p) \/ StartupMeet(p) \/ Loop(p) \/ Sleep(p) \/ SleepMeet(p)
  \/ IYield(p) \/ IYieldMeet(p) \/ IYieldWait(p) \/ Dispatch(p) \/ XecDone(p)

Next ==
  \E p \in Procs : AcquireIdle(p) \/ AcquireQueue(p) \/ Ready(p) \/ Proceed(p)

(***************************************************************************)
(* Every thread the host has started runs on.  A thread outside need never *)
(* come back.  lock(&r->l) in Sleep and Wakeup is never held by a process  *)
(* that waits for the one spinning on it, so weak fairness is enough.      *)
(***************************************************************************)
Spec == Init /\ [][Next]_vars /\ \A p \in Procs : WF_vars(Proceed(p))

-----------------------------------------------------------------------------
Labels == {"unborn", "start", "startmeet", "loop", "sleep", "asleep", "yield?",
           "yieldmeet", "yielded", "disp", "run", "in", "out", "wakeup",
           "unlock", "meet", "got", "relmeet", "diemeet"}

TypeOK ==
  /\ RendezvousTypeOK
  /\ idle \in BOOLEAN
  /\ yield \in 0..MaxYield
  /\ vmq \in Seq(Procs)
  /\ nrun \in Nat
  /\ irend \in Interps \union {NoProc}
  /\ irendl \in Procs \union {NoProc}
  /\ pc \in [Procs -> Labels]
  /\ to \in [Procs -> Procs \union {NoProc}]

(***************************************************************************)
(* p may touch the run queue, the channels and the registers R.  An        *)
(* interpreter asleep on irend is inside: it still owns the machine.       *)
(***************************************************************************)
Inside(p) ==
  \/ Running(p) /\ pc[p] \in {"loop", "sleep", "asleep", "yield?", "disp",
                              "run", "in", "got"}
  \/ ~Running(p) /\ pc[p] = "yield?"

(***************************************************************************)
(* At most one host thread is inside the Dis machine, which has no other   *)
(* lock: release, acquire, iyield and startup hand it from one to one.     *)
(***************************************************************************)
OneInside == \A p, q \in Procs : Inside(p) /\ Inside(q) => p = q

(* While the machine is idle nobody is inside and nobody is left in vmq. *)
IdleMeansFree == idle => vmq = <<>> /\ \A p \in Procs : ~Inside(p)

(***************************************************************************)
(* Sleep never panics: no other interpreter is asleep on isched.irend when *)
(* one goes to sleep there.                                                *)
(***************************************************************************)
NoSleepPanic == \A p \in Procs : At(p, "sleep") => irend = NoProc

(* The processes in vmq that called acquire, as opposed to spare vmachines. *)
Asking == {i \in DOMAIN vmq : pc[vmq[i]] \in {"wakeup", "unlock", "meet", "got"}}

(***************************************************************************)
(* isched.yield is never too small: while somebody waits in acquire the    *)
(* owner sees yield # 0 and will call iyield.  (It may be too large,       *)
(* release does not count down.)                                           *)
(***************************************************************************)
YieldCoversQueue == Cardinality(Asking) <= yield

(* p is somewhere in an acquire that found the machine taken. *)
InAcquire(p) == pc[p] \in {"wakeup", "unlock", "meet"} \/ (pc[p] = "got" /\ ~Running(p))

(***************************************************************************)
(* No wake-up is lost: a process that asks for the machine while no other  *)
(* process asks gets it, even if the owner was going to sleep.             *)
(***************************************************************************)
AcquireServed ==
  \A p \in Procs :
    InAcquire(p) ~> ~InAcquire(p) \/ \E q \in Procs \ {p} : InAcquire(q)

-----------------------------------------------------------------------------
(* The inductive invariant.                                                *)

Queued == Members(vmq)

(* Threads that do not run Dis programs are in acquire, release or inside. *)
HostLabels == {"out", "wakeup", "unlock", "meet", "got", "in", "relmeet"}

(* Inside, told from pc and from whether p waits under its own tag. *)
Owns(p) ==
  \/ pc[p] \in {"sleep", "asleep", "yield?", "run", "in"}
  \/ pc[p] \in {"got", "loop", "disp"} /\ ht[p] # p

(* p needs a rendezvous under its own tag before it is inside. *)
Awaits(p) ==
  \/ pc[p] \in {"wakeup", "unlock", "meet", "startmeet", "yieldmeet", "yielded"}
  \/ pc[p] \in {"got", "loop", "disp"} /\ ht[p] = p

(* p is about to meet to[p], to whom it has given the machine. *)
Gives(p) == pc[p] \in {"relmeet", "diemeet", "yieldmeet"}

(* p has been given the machine: its rendezvous is yet to come. *)
Given(p) ==
  \/ \E q \in Procs : Gives(q) /\ to[q] = p
  \/ Awaits(p) /\ ht[p] \notin {p, NoProc}

Has(p) == Owns(p) \/ Given(p)

(* Who waits in a rendezvous, under whose tag: a process for its turn, one *)
(* that gave the machine away, or one that wakes a sleeping interpreter.   *)
WaitOK(t) ==
  ht[t] # NoProc =>
    \/ ht[t] = t /\ pc[t] \in {"got", "loop", "disp", "yield?"}
    \/ /\ ht[t] # t /\ pc[ht[t]] \in {"out", "unborn", "yielded"}
       /\ Awaits(t) /\ t \notin Queued
    \/ ht[t] # t /\ pc[ht[t]] = "unlock" /\ pc[t] = "asleep"

WaitInv ==
  /\ \A t \in Procs : WaitOK(t)
  /\ \A t, u \in Procs : ht[t] = ht[u] => t = u \/ ht[t] = NoProc

(* vmq has each process once, and only such as wait for their turn. *)
QueueInv ==
  /\ Distinct(vmq)
  /\ \A p \in Queued : Awaits(p)

(* The machine is given to somebody who waits and is off the queue. *)
GiveInv ==
  \A p \in Procs : Gives(p) =>
    /\ to[p] \in Procs \ {p} /\ to[p] \notin Queued
    /\ Awaits(to[p]) /\ ht[to[p]] \in {to[p], NoProc}

(* One has the machine, and one hands it over. *)
OneHas ==
  /\ \A p, q \in Procs : Has(p) /\ Has(q) => p = q
  /\ \A p, q \in Procs : Gives(p) /\ Gives(q) => p = q
  /\ idle => vmq = <<>> /\ \A p \in Procs : ~Has(p)

(* Who is left in isched.irend sleeps there or is about to. *)
SleeperInv ==
  irend # NoProc => \/ pc[irend] = "asleep" /\ ht[irend] = NoProc
                    \/ pc[irend] = "yield?" /\ ht[irend] = irend

KindInv ==
  \A p \in Procs : /\ p \notin Interps => pc[p] \in HostLabels
                   /\ pc[p] \in {"run", "in"} => nrun > 0

IndInv == /\ TypeOK /\ WaitInv /\ QueueInv /\ GiveInv
          /\ OneHas /\ SleeperInv /\ KindInv

(* Whoever asks for the machine is among the first in vmq, as many as yield*)
(* counts: it goes to the front, and iyield takes one off the front.       *)
Asks(p) == pc[p] \in {"wakeup", "unlock", "meet", "got"}
AskInv == \A i \in DOMAIN vmq : Asks(vmq[i]) => i <= yield
=============================================================================
