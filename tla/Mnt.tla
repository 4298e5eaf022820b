-------------------------------- MODULE Mnt ---------------------------------
(***************************************************************************)
(* The mount driver, emu/devmnt.c: how the processes that use files of a   *)
(* mounted server share one connection.  A call queues a Mntrpc on the     *)
(* mount point and writes its request; then one of the waiting processes,  *)
(* the reader (rip), reads replies for all of them until its own arrives,  *)
(* and passes the gate on.  A call that is interrupted sends a flush and   *)
(* goes on waiting, for either answer.                                     *)
(*                                                                         *)
(* A Mntrpc is a number, which is also its tag: the tag of a structure     *)
(* never changes, and structures are reused from a free list.  The lists   *)
(* that go through Mntrpc.list are sequences.  Between two steps of a      *)
(* process lie the points where another can see what it has done: the      *)
(* locks m->r.l and mntalloc.l, the device, Sleep and Wakeup.              *)
(***************************************************************************)
EXTENDS StyxServer, FiniteSets, SequencesExt

CONSTANTS
  Proc,           \* processes that use the mount point
  NoProc,
  Calls,          \* bound: calls with one tag are told apart modulo Calls
  MaxFlush,       \* bound: number of flushes
  GivenMayFail    \* a call may fail, and free its Mntrpc, while the reader
                  \* is about to complete it

ASSUME ProcAssumption  == NoProc \notin Proc /\ IsFiniteSet(Proc)

Rpc     == 1..Cardinality(Proc)
Tagfls  == 100

\* The tags the mount driver chooses: those of requests lie below those of
\* flushes, of which the code takes 2^15 before it takes one again.  Call tells
\* apart the calls that use a tag one after the other.
ASSUME TagAssumption == /\ MaxFlush \in Nat /\ Calls \in Nat \ {0} /\ GivenMayFail \in BOOLEAN
                        /\ Tag = Rpc /\ Cardinality(Proc) <= Tagfls
                        /\ FlushTag = (Tagfls + 1)..(Tagfls + MaxFlush)
                        /\ Call = 0..Calls - 1

NoReply == [type |-> "none", tag |-> 0]

VARIABLES
  pc,         \* of a process: the point in the call it has reached
  ret,        \* where it goes from mntflush, and from Wakeup
  rpc,        \* its Mntrpc
  give,       \* the Mntrpc it completes or wakes
  nrpc,       \* number of Mntrpcs there are (mntalloc.rpctag)
  rpcfree,    \* mntalloc.rpcfree
  queue,      \* Mnt.queue
  rip,        \* Mnt.rip, the process that reads
  flushbase,  \* Mnt.flushtag: flushes sent
  done,       \* Mntrpc.done
  flushed,    \* Mntrpc.flushed
  flushtag,   \* Mntrpc.flushtag
  reply,      \* Mntrpc.reply
  use,        \* which of its calls a Mntrpc serves, modulo Calls
  broken,     \* the connection raises errors
  asked       \* history: processes with a message of this call sent

alloc  == <<nrpc, rpcfree, use>>
rpcs   == <<done, flushed, flushtag, reply>>
mnt    == <<queue, rip, flushbase>>
vars   == <<pc, ret, rpc, give, alloc, rpcs, mnt, broken, asked, serverVars>>

Init ==
  /\ pc = [p \in Proc |-> "out"]
  /\ ret = [p \in Proc |-> "out"]
  /\ rpc = [p \in Proc |-> 0]
  /\ give = [p \in Proc |-> 0]
  /\ nrpc = 0 /\ rpcfree = <<>> /\ use = [r \in Rpc |-> 0]
  /\ queue = <<>> /\ rip = NoProc /\ flushbase = 0
  /\ done = [r \in Rpc |-> FALSE]
  /\ flushed = [r \in Rpc |-> FALSE]
  /\ flushtag = [r \in Rpc |-> 0]
  /\ reply = [r \in Rpc |-> NoReply]
  /\ broken = FALSE /\ asked = {}
  /\ ServerInit

InCall(p) == pc[p] # "out"

Goto(p, from, to) == pc[p] = from /\ pc' = [pc EXCEPT ![p] = to]

----------------------------------------------------------------------------
(* A call, from mntralloc to mntfree.                                      *)

(* Mutant: done is not cleared. *)
MntCallStale(p) ==
  /\ Goto(p, "out", "write")
  /\ LET r == IF rpcfree # <<>> THEN Head(rpcfree) ELSE nrpc + 1 IN
       /\ nrpc'    = IF rpcfree # <<>> THEN nrpc ELSE nrpc + 1
       /\ rpcfree' = IF rpcfree # <<>> THEN Tail(rpcfree) ELSE rpcfree
       /\ use'     = [use EXCEPT ![r] = (@ + 1) % Calls]
       /\ rpc'     = [rpc EXCEPT ![p] = r]
       /\ flushed' = [flushed EXCEPT ![r] = FALSE]
       /\ reply'   = [reply EXCEPT ![r] = NoReply]
       /\ queue'   = <<r>> \o queue
  /\ UNCHANGED <<ret, give, done, flushtag, rip, flushbase, broken, asked, serverVars>>

\* mntralloc takes a Mntrpc from the free list or makes one with a new tag;
\* mountio puts it at the head of the queue.
MntCall(p) ==
  /\ Goto(p, "out", "write")
  /\ LET r == IF rpcfree # <<>> THEN Head(rpcfree) ELSE nrpc + 1 IN
       /\ nrpc'    = IF rpcfree # <<>> THEN nrpc ELSE nrpc + 1
       /\ rpcfree' = IF rpcfree # <<>> THEN Tail(rpcfree) ELSE rpcfree
       /\ use'     = [use EXCEPT ![r] = (@ + 1) % Calls]
       /\ rpc'     = [rpc EXCEPT ![p] = r]
       /\ done'    = [done EXCEPT ![r] = FALSE]
       /\ flushed' = [flushed EXCEPT ![r] = FALSE]
       /\ reply'   = [reply EXCEPT ![r] = NoReply]
       /\ queue'   = <<r>> \o queue
  /\ UNCHANGED <<ret, give, flushtag, rip, flushbase, broken, asked, serverVars>>

Send(p, m) == /\ toserver' = Append(toserver, m) /\ UNCHANGED <<toclient, pending>>
              /\ asked' = asked \cup {p}

TheRequest(p) == [type |-> "T", tag |-> rpc[p], call |-> use[rpc[p]]]

\* mountio writes the request.
Write(p) ==
  /\ ~broken
  /\ Goto(p, "write", "gate")
  /\ Send(p, TheRequest(p))
  /\ UNCHANGED <<ret, rpc, give, alloc, rpcs, mnt, broken>>

\* An error that reaches the handlers of mountio and mntrpcread: an interrupt,
\* or one of a broken connection.  mntflush takes a new tag for the flush, and
\* if that can be sent the process goes on at "to".  Bound: a call sends one
\* flush.  killprog interrupts a prog once; a second interrupt, which exflush
\* and exshutdown may send, is followed where it falls on the flush.
Flushing(p, to) ==
  /\ pc' = [pc EXCEPT ![p] = "flush"]
  /\ ret' = [ret EXCEPT ![p] = to]
  /\ flushed' = [flushed EXCEPT ![rpc[p]] = TRUE]
  /\ IF broken
       THEN UNCHANGED <<flushbase, flushtag>>
       ELSE /\ ~flushed[rpc[p]] /\ flushbase < MaxFlush
            /\ flushbase' = flushbase + 1
            /\ flushtag' = [flushtag EXCEPT ![rpc[p]] = Tagfls + flushbase + 1]
  /\ UNCHANGED <<rpc, give, alloc, done, reply, queue, rip, broken>>

\* The write is interrupted, before or after the request went out, or fails.
WriteError(p) ==
  /\ pc[p] = "write"
  /\ Flushing(p, "gate")
  /\ UNCHANGED <<serverVars, asked>> \/ (~broken /\ Send(p, TheRequest(p)))

\* One reader at a time: the gate is open, or wait.
Gate(p) ==
  /\ IF rip = NoProc
       THEN Goto(p, "gate", "read") /\ rip' = p
       ELSE Goto(p, "gate", "sleep") /\ UNCHANGED rip
  /\ UNCHANGED <<ret, rpc, give, alloc, rpcs, queue, flushbase, broken, asked, serverVars>>

rpcattn(p) == done[rpc[p]] \/ rip = NoProc

\* Sleep looks at the condition under the lock of the Rendez.
Sleep(p) ==
  /\ pc[p] = "sleep"
  /\ pc' = [pc EXCEPT ![p] = IF rpcattn(p) THEN "woken" ELSE "asleep"]
  /\ UNCHANGED <<ret, rpc, give, alloc, rpcs, mnt, broken, asked, serverVars>>

\* It is interrupted.
SleepError(p) ==
  /\ pc[p] \in {"sleep", "asleep"} /\ ~flushed[rpc[p]]
  /\ Flushing(p, "gate")
  /\ UNCHANGED <<serverVars, asked>>

Woken(p) ==
  /\ pc[p] = "woken"
  /\ pc' = [pc EXCEPT ![p] = IF done[rpc[p]] THEN "done" ELSE "gate"]
  /\ UNCHANGED <<ret, rpc, give, alloc, rpcs, mnt, broken, asked, serverVars>>

\* The reader has its own reply: to mntgate.
ReadDone(p) ==
  /\ Goto(p, "read", "release") /\ done[rpc[p]]
  /\ ret' = [ret EXCEPT ![p] = "done"]
  /\ UNCHANGED <<rpc, give, alloc, rpcs, mnt, broken, asked, serverVars>>

\* mntrpcread: a reply, whosever it is.
Read(p) ==
  /\ Goto(p, "read", "mux") /\ ~done[rpc[p]]
  /\ ~broken /\ toclient # <<>>
  /\ reply' = [reply EXCEPT ![rpc[p]] = Head(toclient)]
  /\ toclient' = Tail(toclient)
  /\ UNCHANGED <<ret, rpc, give, alloc, done, flushed, flushtag, mnt, broken, asked, toserver, pending>>

\* The read is interrupted or fails.
ReadError(p) ==
  /\ pc[p] = "read" /\ ~done[rpc[p]]
  /\ Flushing(p, "read")
  /\ UNCHANGED <<serverVars, asked>>

\* The read returns 0 twice: mntrpcread raises an error with no handler left
\* but that of the caller, which frees the Mntrpc.
Hangup(p) ==
  /\ Goto(p, "read", "free") /\ ~done[rpc[p]]
  /\ UNCHANGED <<ret, rpc, give, alloc, rpcs, mnt, broken, asked, serverVars>>

Matches(q, m) == m.tag = q \/ (flushed[q] /\ flushtag[q] = m.tag)

\* mountmux: the first request the reply fits leaves the queue.
Mux(p) ==
  /\ pc[p] = "mux"
  /\ LET r       == rpc[p]
         Fits(i) == Matches(queue[i], reply[r])
     IN  \/ /\ \A i \in DOMAIN queue : ~Fits(i)
            /\ pc' = [pc EXCEPT ![p] = "read"]
            /\ reply' = [reply EXCEPT ![r] = NoReply]
            /\ UNCHANGED <<queue, done, give>>
         \/ \E i \in DOMAIN queue :
            /\ Fits(i) /\ \A j \in 1..(i - 1) : ~Fits(j)
            /\ queue' = RemoveAt(queue, i)
            /\ UNCHANGED reply
            /\ IF queue[i] = r
                 THEN /\ done' = [done EXCEPT ![r] = TRUE]
                      /\ pc'   = [pc EXCEPT ![p] = "read"]
                      /\ UNCHANGED give
                 ELSE /\ give' = [give EXCEPT ![p] = queue[i]]
                      /\ pc'   = [pc EXCEPT ![p] = "give"]
                      /\ UNCHANGED done
  /\ UNCHANGED <<ret, rpc, alloc, flushed, flushtag, rip, flushbase, broken, asked, serverVars>>

\* The reply goes to the process it is for.  The lock is no longer held.
Give(p) ==
  /\ Goto(p, "give", "wake")
  /\ reply' = [reply EXCEPT ![give[p]] = reply[rpc[p]], ![rpc[p]] = NoReply]
  /\ done'  = [done EXCEPT ![give[p]] = TRUE]
  /\ ret'   = [ret EXCEPT ![p] = "read"]
  /\ UNCHANGED <<rpc, give, alloc, flushed, flushtag, mnt, broken, asked, serverVars>>

\* Wakeup(&q->r)
Wake(p) ==
  /\ pc[p] = "wake"
  /\ pc' = [x \in Proc |-> IF x = p THEN ret[p]
                           ELSE IF rpc[x] = give[p] /\ pc[x] = "asleep" THEN "woken"
                           ELSE pc[x]]
  /\ give' = [give EXCEPT ![p] = 0]
  /\ ret'  = [ret EXCEPT ![p] = "out"]
  /\ UNCHANGED <<rpc, alloc, rpcs, mnt, broken, asked, serverVars>>

Asleep(q) == \E x \in Proc : rpc[x] = q /\ pc[x] = "asleep"

(* Mutant: the gate is opened and nobody told. *)
MntGateSilent(p) ==
  /\ Goto(p, "release", ret[p])
  /\ rip' = NoProc
  /\ ret' = [ret EXCEPT ![p] = "out"]
  /\ UNCHANGED <<rpc, give, alloc, rpcs, queue, flushbase, broken, asked, serverVars>>

\* mntgate: opens the gate and wakes a process that waits for it.
MntGate(p) ==
  /\ pc[p] = "release"
  /\ rip' = NoProc
  /\ LET Waits(i) == ~done[queue[i]] /\ Asleep(queue[i]) IN
       \/ /\ \A i \in DOMAIN queue : ~Waits(i)
          /\ pc'  = [pc EXCEPT ![p] = ret[p]]
          /\ ret' = [ret EXCEPT ![p] = "out"]
          /\ UNCHANGED give
       \/ \E i \in DOMAIN queue :
          /\ Waits(i) /\ \A j \in 1..(i - 1) : ~Waits(j)
          /\ give' = [give EXCEPT ![p] = queue[i]]
          /\ pc'   = [pc EXCEPT ![p] = "wake"]
          /\ UNCHANGED ret
  /\ UNCHANGED <<rpc, alloc, rpcs, queue, flushbase, broken, asked, serverVars>>

BeingGiven(q) == \E p \in Proc : pc[p] = "give" /\ give[p] = q

TheFlush(p) == [type |-> "Tflush", tag |-> flushtag[rpc[p]], oldtag |-> rpc[p]]

\* mntflush writes the flush,
FlushWrite(p) ==
  /\ ~broken
  /\ Goto(p, "flush", ret[p])
  /\ ret' = [ret EXCEPT ![p] = "out"]
  /\ Send(p, TheFlush(p))
  /\ UNCHANGED <<rpc, give, alloc, rpcs, mnt, broken>>

\* or is interrupted before the flush is out: mntflush takes any Eintr for a
\* flush that was sent.
FlushInterrupted(p) ==
  /\ ~broken
  /\ Goto(p, "flush", ret[p])
  /\ ret' = [ret EXCEPT ![p] = "out"]
  /\ UNCHANGED <<rpc, give, alloc, rpcs, mnt, broken, asked, serverVars>>

\* mntqrm: the request leaves the queue, if it is still there.
Unqueue(r) ==
  \/ r \notin ToSet(queue) /\ UNCHANGED queue
  \/ \E i \in DOMAIN queue :
       /\ queue[i] = r /\ \A j \in 1..(i - 1) : queue[j] # r
       /\ queue' = RemoveAt(queue, i)

(* Mutant: the reader leaves and keeps the gate shut. *)
FlushErrorGate(p) ==
  /\ broken
  /\ pc[p] = "flush"
  /\ BeingGiven(rpc[p]) => GivenMayFail
  /\ done'    = [done EXCEPT ![rpc[p]] = TRUE]
  /\ flushed' = [flushed EXCEPT ![rpc[p]] = FALSE]
  /\ Unqueue(rpc[p])
  /\ pc'  = [pc EXCEPT ![p] = "free"]
  /\ ret' = [ret EXCEPT ![p] = "free"]
  /\ UNCHANGED <<rpc, give, alloc, flushtag, reply, rip, flushbase, broken, asked, serverVars>>

(* Mutant: the request stays on the queue. *)
FlushErrorKeep(p) ==
  /\ broken
  /\ pc[p] = "flush"
  /\ BeingGiven(rpc[p]) => GivenMayFail
  /\ done'    = [done EXCEPT ![rpc[p]] = TRUE]
  /\ flushed' = [flushed EXCEPT ![rpc[p]] = FALSE]
  /\ pc'  = [pc EXCEPT ![p] = IF ret[p] = "read" THEN "release" ELSE "free"]
  /\ ret' = [ret EXCEPT ![p] = "free"]
  /\ UNCHANGED <<rpc, give, alloc, flushtag, reply, mnt, broken, asked, serverVars>>

\* or fails: mntqrm takes the request off the queue, the reader opens the
\* gate, and the call ends with an error.
FlushError(p) ==
  /\ broken
  /\ pc[p] = "flush"
  /\ BeingGiven(rpc[p]) => GivenMayFail
  /\ done'    = [done EXCEPT ![rpc[p]] = TRUE]
  /\ flushed' = [flushed EXCEPT ![rpc[p]] = FALSE]
  /\ Unqueue(rpc[p])
  /\ pc'  = [pc EXCEPT ![p] = IF ret[p] = "read" THEN "release" ELSE "free"]
  /\ ret' = [ret EXCEPT ![p] = "free"]
  /\ UNCHANGED <<rpc, give, alloc, flushtag, reply, rip, flushbase, broken, asked, serverVars>>

\* mountrpc has looked at the reply, or the call failed: mntfree.  What the
\* structure still holds is not used again.
MntFree(p) ==
  /\ pc[p] \in {"done", "free"}
  /\ pc' = [pc EXCEPT ![p] = "out"]
  /\ rpcfree' = <<rpc[p]>> \o rpcfree
  /\ rpc' = [rpc EXCEPT ![p] = 0]
  /\ flushed'  = [flushed EXCEPT ![rpc[p]] = FALSE]
  /\ flushtag' = [flushtag EXCEPT ![rpc[p]] = 0]
  /\ reply'    = [reply EXCEPT ![rpc[p]] = NoReply]
  /\ ret'      = [ret EXCEPT ![p] = "out"]
  /\ asked'    = asked \ {p}
  /\ UNCHANGED <<give, nrpc, use, done, mnt, broken, serverVars>>

\* The connection breaks: from now on writes and reads fail.
Break ==
  /\ ~broken
  /\ broken' = TRUE
  /\ Cut
  /\ UNCHANGED <<pc, ret, rpc, give, alloc, rpcs, mnt, asked>>

clientVars == <<pc, ret, rpc, give, alloc, rpcs, mnt, broken, asked>>

Server == ServerNext /\ UNCHANGED clientVars

\* What a process does of itself once it is in a call,
Step(p) ==
  \/ Write(p) \/ Gate(p) \/ Sleep(p) \/ Woken(p) \/ ReadDone(p) \/ Read(p) \/ Mux(p)
  \/ Give(p) \/ Wake(p) \/ MntGate(p) \/ FlushWrite(p) \/ FlushError(p) \/ MntFree(p)
\* and what an interrupt or a broken connection does to it.
Error(p) == WriteError(p) \/ SleepError(p) \/ ReadError(p) \/ FlushInterrupted(p)

Next == Server \/ Break \/ \E p \in Proc : MntCall(p) \/ Step(p) \/ Error(p)

Spec == Init /\ [][Next]_vars

Fairness ==
  /\ \A p \in Proc : WF_vars(Step(p) \/ (broken /\ (WriteError(p) \/ ReadError(p))))
  /\ WF_vars((ReadRequest \/ ReadFlush) /\ UNCHANGED clientVars)
  /\ \A m \in Request : WF_vars(Answer(m) /\ UNCHANGED clientVars)

FairSpec == Spec /\ Fairness

\* With connections that end: a read returns 0.
HangupSpec == Init /\ [][Next \/ \E p \in Proc : Hangup(p)]_vars

----------------------------------------------------------------------------
(* Properties.                                                             *)

\* The part of the types that says where the processes and the Mntrpcs are.
PlaceTypeOK ==
  /\ pc \in [Proc -> {"out", "write", "gate", "sleep", "asleep", "woken", "read", "mux",
                      "give", "wake", "release", "flush", "done", "free"}]
  /\ ret \in [Proc -> {"out", "gate", "read", "done", "free"}]
  /\ rpc \in [Proc -> Rpc \cup {0}]
  /\ give \in [Proc -> Rpc \cup {0}]
  /\ nrpc \in Rpc \cup {0} /\ rpcfree \in Seq(Rpc)
  /\ queue \in Seq(Rpc) /\ rip \in Proc \cup {NoProc}
  /\ done \in [Rpc -> BOOLEAN] /\ asked \subseteq Proc

TypeOK ==
  /\ PlaceTypeOK
  /\ use \in [Rpc -> Call] /\ flushbase \in 0..MaxFlush
  /\ flushed \in [Rpc -> BOOLEAN]
  /\ flushtag \in [Rpc -> {0} \cup FlushTag]
  /\ reply \in [Rpc -> {NoReply} \cup Reply \cup Flushed]
  /\ broken \in BOOLEAN
  /\ ServerTypeOK

\* A Mntrpc is in exactly one place: on the free list once, or with one
\* process; and it is on the queue once, exactly while its call is not
\* completed.  So no two calls ever use one tag, and no reply is delivered
\* through a structure that has been freed.

QueueInv ==
  /\ \A p, x \in Proc : InCall(p) /\ InCall(x) /\ p # x => rpc[p] # rpc[x]
  /\ IsInjective(rpcfree) /\ \A p \in Proc : InCall(p) => rpc[p] \notin ToSet(rpcfree)
  /\ IsInjective(queue)
  /\ \A r \in Rpc : r \in ToSet(queue) <=>
       \E p \in Proc : InCall(p) /\ rpc[p] = r /\ ~done[r] /\ ~BeingGiven(r)

\* The gate is held by a process that reads, and only by one.
GateHeld ==
  \A p \in Proc : rip = p <=> \/ pc[p] \in {"read", "mux", "give", "release"}
                              \/ pc[p] \in {"wake", "flush"} /\ ret[p] = "read"

\* A call that ends without an error of the connection has the reply to what
\* it asked, never one to an earlier call with the same tag, or it was
\* interrupted and has the answer to its flush; and its request is no longer
\* on its way or with the server, so that its tag can be used again.
OwnReply ==
  \A p \in Proc : pc[p] = "done" =>
    LET m == reply[rpc[p]] IN
      /\ m \in {[TheRequest(p) EXCEPT !.type = "R"],
                [type |-> "Rflush", tag |-> flushtag[rpc[p]]]}
      /\ TheRequest(p) \notin ToSet(toserver) \cup pending
      /\ [TheRequest(p) EXCEPT !.type = "R"] \notin ToSet(toclient)

\* The call waits for an answer although nothing was sent for it: it was
\* interrupted before its request was out, and again before its flush was.
Unasked(p) == InCall(p) /\ pc[p] \notin {"write", "flush"} /\ p \notin asked

\* Every call returns, through all other interrupts, as long as the connection
\* lasts.
EveryCallReturns ==
  \A p \in Proc : InCall(p) ~> (pc[p] = "out" \/ broken \/ Unasked(p))

----------------------------------------------------------------------------
(* What makes QueueInv and GateHeld inductive, if no call fails while the  *)
(* reader is about to complete it.                                         *)

\* The Mntrpcs made so far are free, or each with the process in a call that
\* took it.
AllocInv ==
  /\ \A p \in Proc : rpc[p] = 0 <=> ~InCall(p)
  /\ \A p, x \in Proc : rpc[p] = rpc[x] => p = x \/ rpc[p] = 0
  /\ IsInjective(rpcfree) /\ \A p \in Proc : rpc[p] \notin ToSet(rpcfree)
  /\ \A r \in 1..nrpc : r \in ToSet(rpcfree) \/ \E p \in Proc : rpc[p] = r
  /\ \A p \in Proc : rpc[p] <= nrpc
  /\ \A r \in ToSet(rpcfree) : r <= nrpc

\* Where a process goes on says whether it is the reader.
RetInv ==
  \A p \in Proc : /\ pc[p] = "wake" => ret[p] \in {"read", "done", "free"}
                  /\ pc[p] = "flush" => ret[p] \in {"gate", "read"}
                  /\ pc[p] = "release" => ret[p] \in {"done", "free"}

\* The reader completes a call of another process, that still waits.
GiveInv ==
  \A p \in Proc : pc[p] = "give" =>
    /\ give[p] # rpc[p] /\ give[p] # 0 /\ ~done[give[p]]
    /\ \E x \in Proc : rpc[x] = give[p]

\* Who is leaving has a completed call.
DoneInv ==
  \A p \in Proc :
    \/ pc[p] \in {"done", "free", "release"}
    \/ pc[p] = "wake" /\ ret[p] # "read"
    => done[rpc[p]]

PlaceInv == PlaceTypeOK /\ AllocInv /\ QueueInv /\ GateHeld /\ RetInv /\ GiveInv /\ DoneInv

----------------------------------------------------------------------------
(* What makes OwnReply inductive.                                          *)

TagsOf(M)  == {m.tag : m \in M}
Carries(s) == TagsOf(ToSet(s))

\* What the reader has read and not yet given or dropped.
Held == {reply[rpc[x]] : x \in {y \in Proc : pc[y] \in {"mux", "give"}}}
Away == ToSet(toserver) \cup pending \cup ToSet(toclient) \cup Held

Single(s, t)      == \A i, j \in DOMAIN s : s[i].tag = t /\ s[j].tag = t => i = j
Precedes(s, t, f) == \A i, j \in DOMAIN s : s[i].tag = t /\ s[j].tag = f => i < j

\* A request or its reply is in one place.
OnceInv ==
  \A r \in Rpc :
    /\ Single(toserver, r) /\ Single(toclient, r)
    /\ \A m, n \in pending : m.tag = r /\ n.tag = r => m = n
    /\ r \in Carries(toserver) => r \notin TagsOf(pending) \cup Carries(toclient) \cup TagsOf(Held)
    /\ r \in TagsOf(pending) => r \notin Carries(toclient) \cup TagsOf(Held)
    /\ r \in Carries(toclient) => r \notin TagsOf(Held)

\* Tags of flushes are new, and a Mntrpc that is free has none.
FlushInv ==
  /\ \A t \in TagsOf(Away) : t <= Tagfls + flushbase
  /\ \A r \in Rpc : flushtag[r] <= Tagfls + flushbase
  /\ \A r, q \in Rpc : flushtag[r] = flushtag[q] => r = q \/ flushtag[r] = 0
  /\ \A r \in Rpc : flushtag[r] = 0 \/ \E p \in Proc : rpc[p] = r

\* What the reader holds fits the call it completes.
HeldInv ==
  /\ Held \subseteq Reply \cup Flushed
  /\ \A p \in Proc : pc[p] \in {"mux", "give"} => ~done[rpc[p]]
  /\ \A p \in Proc : pc[p] = "give" => Matches(give[p], reply[rpc[p]])

\* The call may still end without an error.
Live(p) == /\ pc[p] \notin {"out", "free"}
           /\ pc[p] \in {"wake", "release"} => ret[p] # "free"
           /\ broken => pc[p] \notin {"write", "flush"}

\* As long as the connection lasts every call may, and a message under way
\* belongs to one; when it breaks nothing is left under way.
OwnerInv ==
  IF broken THEN toserver = <<>> /\ toclient = <<>> /\ pending = {}
            ELSE /\ \A p \in Proc : InCall(p) => Live(p)
                 /\ \A r \in Rpc \cap TagsOf(Away) : \E p \in Proc : rpc[p] = r

\* Of a call that may: before its request is written and after it is
\* completed no message has its tag; every message that has it is its own;
\* and the answer to its flush comes after that to its request.
CallOK(p) ==
  LET r == rpc[p]  f == flushtag[r] IN
    /\ pc[p] = "write" => ~done[r] /\ ~flushed[r] /\ f = 0
    /\ pc[p] = "flush" => f # 0
    /\ pc[p] = "write" \/ done[r] => r \notin TagsOf(Away)
    /\ done[r] => \/ reply[r] = [TheRequest(p) EXCEPT !.type = "R"]
                  \/ flushed[r] /\ reply[r] = [type |-> "Rflush", tag |-> f]
    /\ \A m \in Away : m.tag = r => m.call = use[r]
    /\ \A m \in ToSet(toserver) : m.tag = f => m.oldtag = r
    /\ Precedes(toserver, r, f) /\ Precedes(toclient, r, f)
    /\ f \in Carries(toclient) => r \notin Carries(toserver) \cup TagsOf(pending)
    /\ f \in TagsOf(Held) => r \notin TagsOf(Away)

CallInv == \A p \in Proc : Live(p) => CallOK(p)

MsgInv == TypeOK /\ OnceInv /\ FlushInv /\ HeldInv /\ OwnerInv /\ CallInv

IndInv == PlaceInv /\ MsgInv
=============================================================================
