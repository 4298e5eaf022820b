---------------------------- MODULE SleepWakeup -----------------------------
(***************************************************************************)
(* Sleep, Wakeup and swiproc of emu/proc.c, with osenter and osleave: how  *)
(* one process waits on a Rendez for a condition, how others wake it, and  *)
(* how killprog interrupts it there or in a host system call.  A lock held *)
(* across a step, because its holder waits in a rendezvous, is a variable. *)
(***************************************************************************)
EXTENDS Rendezvous

CONSTANTS
  Sleeper,      \* the process that sleeps on the Rendez r
  Wakers,       \* processes that make the condition true and call Wakeup(r)
  Killers       \* processes that call swiproc(Sleeper)

ASSUME SleepAssumption ==
  /\ Sleeper \in Procs
  /\ Wakers \subseteq Procs \ {Sleeper}
  /\ Killers \subseteq Procs \ {Sleeper}

VARIABLES
  cond,         \* the condition: f(arg) of Sleep
  r_p,          \* r->p # nil
  r_l,          \* who holds r->l across a step, or NoProc
  up_r,         \* up->r = r
  swipend,      \* Proc.swipend of the sleeper
  syscall,      \* Proc.syscall of the sleeper
  intwait       \* Proc.intwait of the sleeper

sleepVars == <<ht, cond, r_p, r_l, up_r, swipend, syscall, intwait, pc>>

rend == <<r_p, r_l, up_r>>
sys == <<syscall, intwait>>

SleepInit ==
  /\ RendezvousInit
  /\ cond = FALSE
  /\ r_p = FALSE
  /\ r_l = NoProc
  /\ up_r = FALSE
  /\ swipend = FALSE
  /\ syscall = FALSE
  /\ intwait = FALSE
  /\ pc = [p \in Procs |-> "out"]

-----------------------------------------------------------------------------
(* Sleep(r, f, arg) by the sleeper. *)

SleepEnter ==
  /\ Move(Sleeper, "out", "sleep")
  /\ up_r' = TRUE
  /\ UNCHANGED <<ht, cond, r_p, r_l, swipend, sys>>

(* Mutant: the condition is not looked at under the lock. *)
SleepBlind ==
  /\ r_l = NoProc
  /\ Move(Sleeper, "sleep", "wait")
  /\ swipend' = FALSE
  /\ r_p' = TRUE
  /\ UNCHANGED <<ht, cond, r_l, up_r, sys>>

(* lock(&r->l): look at the condition, leave up in r or return. *)
SleepLook ==
  /\ r_l = NoProc
  /\ IF cond
     THEN /\ Move(Sleeper, "sleep", "woken")
          /\ up_r' = FALSE
          /\ UNCHANGED <<r_p, swipend>>
     ELSE /\ Move(Sleeper, "sleep", "wait")
          /\ swipend' = FALSE
          /\ r_p' = TRUE
          /\ UNCHANGED up_r
  /\ UNCHANGED <<ht, cond, r_l, sys>>

SleepWait ==
  /\ Move(Sleeper, "wait", "after")
  /\ Meet(Sleeper, Sleeper)
  /\ UNCHANGED <<cond, rend, swipend, sys>>

(* Sleep returns, or raises Eintr if the process was interrupted. *)
SleepAfter ==
  /\ Move(Sleeper, "after", IF swipend THEN "out" ELSE "woken")
  /\ swipend' = FALSE
  /\ UNCHANGED <<ht, cond, rend, sys>>

(***************************************************************************)
(* The callers of Sleep look at the condition again in a loop; the one     *)
(* that finds it true uses it up.                                          *)
(***************************************************************************)
Woken ==
  /\ Move(Sleeper, "woken", "out")
  /\ cond' = FALSE
  /\ UNCHANGED <<ht, rend, swipend, sys>>

-----------------------------------------------------------------------------
(* osenter and osleave by the sleeper, around a host system call. *)

OsEnter ==
  /\ Move(Sleeper, "out", "syscall")
  /\ syscall' = TRUE
  /\ UNCHANGED <<ht, cond, rend, swipend, intwait>>

(***************************************************************************)
(* The handler of the signal, note or exception that oshostintr sends; as  *)
(* far as it goes, os-Linux-orig.c, os-Solaris.c and the others are alike. *)
(* os-Linux.c cancels the thread instead: it then stays in the call, or in *)
(* osleave, for ever, which is why nothing obliges Trap and OsLeave.       *)
(***************************************************************************)
Trap ==
  /\ intwait
  /\ intwait' = FALSE
  /\ UNCHANGED <<ht, cond, rend, swipend, syscall, pc>>

(* Mutant: an interrupt that came during the call stays pending. *)
OsLeavePending ==
  /\ Move(Sleeper, "syscall", "spin")
  /\ syscall' = FALSE
  /\ UNCHANGED <<ht, cond, rend, swipend, intwait>>

(* osleave under sysio, then it spins until the handler has run. *)
OsLeave ==
  /\ Move(Sleeper, "syscall", "spin")
  /\ swipend' = FALSE
  /\ syscall' = FALSE
  /\ UNCHANGED <<ht, cond, rend, intwait>>

OsLeft ==
  /\ Move(Sleeper, "spin", "out")
  /\ ~intwait
  /\ UNCHANGED <<ht, cond, rend, swipend, sys>>

-----------------------------------------------------------------------------
(* A waker makes the condition true, then calls Wakeup(r). *)

SetCond(w) ==
  /\ Move(w, "out", "wakeup")
  /\ cond' = TRUE
  /\ UNCHANGED <<ht, rend, swipend, sys>>

(* The part Wakeup and swiproc share: take the sleeper out of r and meet it. *)
PullOut(p) ==
  /\ r_p' = FALSE
  /\ up_r' = FALSE
  /\ r_l' = p
  /\ Meet(p, Sleeper)

Wakeup(w) ==
  /\ r_l = NoProc
  /\ IF r_p
     THEN Move(w, "wakeup", "unlock") /\ PullOut(w)
     ELSE Move(w, "wakeup", "out") /\ UNCHANGED <<ht, rend>>
  /\ UNCHANGED <<cond, swipend, sys>>

Unlock(p) ==
  /\ Move(p, "unlock", "out")
  /\ r_l' = NoProc
  /\ UNCHANGED <<ht, cond, r_p, up_r, swipend, sys>>

-----------------------------------------------------------------------------
(* swiproc(Sleeper), called by killprog. *)

(* r = p->r is read without a lock. *)
Swiproc(k) ==
  /\ Move(k, "out", IF up_r THEN "pull" ELSE "hostintr")
  /\ UNCHANGED <<ht, cond, rend, swipend, sys>>

(* lock(&r->l), look again. *)
SwiprocPull(k) ==
  /\ r_l = NoProc
  /\ IF up_r
     THEN /\ Move(k, "pull", "unlock")
          /\ PullOut(k)
          /\ swipend' = TRUE
     ELSE /\ Move(k, "pull", "out")
          /\ UNCHANGED <<ht, rend, swipend>>
  /\ UNCHANGED <<cond, sys>>

(* Under sysio: if the process is in a system call, post the interrupt. *)
SwiprocHost(k) ==
  /\ Move(k, "hostintr", "out")
  /\ IF syscall /\ ~intwait
     THEN intwait' = TRUE /\ swipend' = TRUE
     ELSE UNCHANGED <<intwait, swipend>>
  /\ UNCHANGED <<ht, cond, rend, syscall>>

-----------------------------------------------------------------------------
SleeperProceeds ==
  SleepLook \/ SleepWait \/ SleepAfter \/ Woken

OtherProceeds(p) ==
  \/ Unlock(p)
  \/ p \in Wakers /\ Wakeup(p)
  \/ p \in Killers /\ (SwiprocPull(p) \/ SwiprocHost(p))

SleepNext ==
  \/ SleepEnter \/ SleeperProceeds
  \/ OsEnter \/ Trap \/ OsLeave \/ OsLeft
  \/ \E w \in Wakers : SetCond(w)
  \/ \E k \in Killers : Swiproc(k)
  \/ \E p \in Wakers \union Killers : OtherProceeds(p)

(***************************************************************************)
(* Threads run on once they are in Sleep, Wakeup or swiproc; a call of the *)
(* host may never return, even if it is interrupted.  lock(&r->l) spins: a *)
(* process gets it if the host is strongly fair.                           *)
(***************************************************************************)
SleepFairness ==
  /\ WF_sleepVars(SleeperProceeds) /\ SF_sleepVars(SleepLook)
  /\ \A p \in Wakers \union Killers : SF_sleepVars(OtherProceeds(p))

SleepSpec == SleepInit /\ [][SleepNext]_sleepVars /\ SleepFairness

-----------------------------------------------------------------------------
SleepLabels == {"out", "sleep", "wait", "after", "woken", "syscall", "spin",
                "wakeup", "unlock", "pull", "hostintr"}

SleepTypeOK ==
  /\ RendezvousTypeOK
  /\ cond \in BOOLEAN /\ r_p \in BOOLEAN /\ up_r \in BOOLEAN
  /\ swipend \in BOOLEAN /\ syscall \in BOOLEAN /\ intwait \in BOOLEAN
  /\ r_l \in Wakers \union Killers \union {NoProc}
  /\ pc \in [Procs -> SleepLabels]
  /\ pc[Sleeper] \in {"out", "sleep", "wait", "after", "woken", "syscall", "spin"}
  /\ \A p \in Wakers \union Killers :
       pc[p] \in {"out", "wakeup", "unlock", "pull", "hostintr"}

(* The sleeper waits in Sleep, or is about to without looking again. *)
Asleep == pc[Sleeper] = "wait" \/ (pc[Sleeper] = "after" /\ ~Running(Sleeper))

(***************************************************************************)
(* No wake-up is lost between the look at the condition and the wait: a    *)
(* sleeper is never left asleep with the condition true.                   *)
(***************************************************************************)
WakeupNotLost == cond /\ Asleep ~> ~Asleep

(***************************************************************************)
(* An interrupt belongs to the call it was posted for: outside Sleep and   *)
(* system calls none is pending that would fail the next one with Eintr.   *)
(***************************************************************************)
NoStaleInterrupt == pc[Sleeper] = "out" => ~swipend /\ ~intwait

(***************************************************************************)
(* swiproc is to "Pull out of emu Sleep" the process: once it has decided  *)
(* to, it meets it and returns.                                            *)
(***************************************************************************)
SwiprocReturns == \A k \in Killers : pc[k] = "unlock" ~> pc[k] # "unlock"

-----------------------------------------------------------------------------
(* The inductive invariant.                                                *)

Others == Wakers \union Killers

(* A tag under which somebody waits is the sleeper's; who has r->l across  *)
(* a step has pulled the sleeper out and is about to unlock.               *)
MeetInv ==
  /\ \A t \in Procs \ {Sleeper} : ht[t] = NoProc
  /\ \A p \in Others : pc[p] = "unlock" <=> r_l = p

(* As long as up is in r nobody has come to meet the sleeper; afterwards   *)
(* the one who pulled it out waits for it, or they have met.               *)
UpInv ==
  /\ r_p => up_r /\ pc[Sleeper] # "sleep"
  /\ up_r  => \/ pc[Sleeper] \in {"sleep", "wait"} /\ ht[Sleeper] = NoProc
              \/ pc[Sleeper] = "after" /\ ht[Sleeper] = Sleeper
  /\ ~up_r => \/ pc[Sleeper] \in {"sleep", "wait"} /\ ht[Sleeper] = r_l /\ r_l # NoProc
              \/ pc[Sleeper] \notin {"sleep", "wait"} /\ ht[Sleeper] = NoProc

(* Where the sleeper is while it is interrupted: in Sleep, if it was in r; *)
(* in the system call, and until it leaves as the signal is on its way.    *)
IntrInv ==
  /\ swipend => \/ pc[Sleeper] \in {"wait", "after", "syscall"}
                \/ pc[Sleeper] = "sleep" /\ ~up_r
  /\ syscall <=> pc[Sleeper] = "syscall"
  /\ intwait => pc[Sleeper] \in {"syscall", "spin"}

SleepIndInv == SleepTypeOK /\ MeetInv /\ UpInv /\ IntrInv
=============================================================================
