# A verification of the Inferno emulator's core

This directory holds TLA+ modules that model the parts of the hosted Inferno
(`src/emu`, `src/interp`) where concurrency, failures and long sequences of calls
decide correctness: the scheduler of the Dis virtual machine and its channels, the
way host threads share the machine, the locks and wake-ups everything rests on, the
garbage collector, the mount driver, the export of name spaces, and name spaces
themselves. TLC checks the modules on small instances; TLAPS proves theorems about
them for every instance.

## The system and its hard parts

| part | state | operations | talks to | what is hard |
|---|---|---|---|---|
| Dis run queue (`emu/dis.c`) | `isched.runhd`, `Prog.state`, `kill`, `addrun` | `newprog`, `addrun`, `delrun`, `killprog`, `progexit`, `vmachine` | channels, built-ins, `/prog` | kill in every state, the machine given up in mid-exit |
| Dis channels (`interp/xec.c`, `interp/alt.c`) | `send`, `recv` lists, `sendalt`, `recvalt` | `isend`, `irecv`, `alt`, `nbalt` | run queue | an alt registered on many channels, freed progs |
| kernel use of channels (`emu/inferno.c`) | a Prog on a channel list, asleep on a Rendez | `ccom`, `csend`, `crecv` | channels, Sleep | interrupt against communication |
| sharing of the machine (`emu/dis.c`) | `idle`, `yield`, `vmq`, `irend` | `acquire`, `release`, `iyield`, `startup`, `releasex` | host threads | hand-over outside the lock, lost wake-ups |
| locks (`emu/lock.c`) | `QLock`, `RWlock` | `qlock`, `canqlock`, `rlock`, `wlock`, ... | rendezvous | order of the two locks, ignored result |
| sleep and interrupt (`emu/proc.c`) | `Rendez.p`, `Proc.r`, `swipend`, `syscall`, `intwait` | `Sleep`, `Wakeup`, `swiproc`, `osenter`, `osleave` | rendezvous, signals | missed wake-up, stale interrupt, deadlock |
| host threads (`emu/os-Linux.c`, `emu/os-Linux-orig.c`) | rendezvous hash table | `rendezvous`, `kproc`, `trapUSR1` | everything above | |
| collector (`interp/gc.c`, `interp/heap.c`) | colours, `ptr`, `visit`, reference counts | `rungc`, `markheap`, `destroy`; `movp`, `cons`, `slicea`, `new` | run queue, instructions | the program moves pointers between two steps of a pass |
| mount driver (`emu/devmnt.c`) | `Mnt.queue`, `rip`, `Mntrpc`, tags | `mountrpc`, `mountio`, `mountmux`, `mntgate`, `mntflush` | remote server, Sleep | passing the reader's gate on, flush against a late answer |
| export (`emu/exportfs.c`) | `exq`, `Export.r`, `work`, `Fid` | `exportproc`, `exslave`, `exflush`, `exshutdown`, `Ex...` | remote client, name space | slaves, flush, failed requests, reference counts |
| name space (`emu/chan.c`, `emu/sysfile.c`, `emu/main.c`) | `Mhead`, `Mount`, `Chan.r`, `Pgrp` | `cmount`, `cunmount`, `namec`, `walk`, `unionread`, `pgrpcpy`, `cclose` | devices, RWlock | channels derived from a union outlive it, groups are shared |
| process device (`emu/devprog.c`) | debug lists, wait queues | `kill`, `killgrp`, debugger | run queue | debugger against scheduler |
| queues (`emu/qio.c`) | `Queue` | `qbread`, `qbwrite`, `qhangup`, ... | devices, Sleep | flow-control flags |
| the rest | loader, JITs, Tk, draw, keyring, devices, allocator, Limbo compiler, native kernel, applications | | | see "Not modelled" |

What each part must guarantee: a prog is on the run queue exactly when it may run;
a blocked prog is exactly on the lists it has to be on, and a freed one on none;
communication is synchronous and nobody who could communicate is left waiting; a
prog killed in a built-in executes nothing more; one thread is inside the machine; no
wake-up and no request is lost; writers of a name space are alone; what the program can reach is
not freed; a call over a mount point returns with the answer to itself; every request
to an export is answered once; a fid lives as long as its uses; a channel is closed
when the last holder lets go, and not before; a name space shows the unions its binds
made; no call waits for ever.

## Modules

* `Rendezvous`: the host primitive. The first of two callers on a tag waits for the
  second. A process in a rendezvous is not `Running`.
* `QLock`, `RWLock`: `emu/lock.c`. A QLock is a record of its flag and queue; the
  steps of a process between two blocking points are one action; `pc` names the
  point. The spin lock `l` of the RWlock is a variable because `runlock` keeps it
  across a rendezvous.
* `SleepWakeup`: `emu/proc.c`. One sleeper, wakers and killers on one Rendez. The
  interrupt of a host system call is that of the hosts that send a signal (`trapUSR1` in
  `emu/os-Linux-orig.c` and its like). `oshostintr` of `emu/os-Linux.c` cancels the
  thread instead, so that the call may never return, and nothing in the module obliges
  it to.
* `HostSync`: `RWLock` and `SleepWakeup` by the same processes. They wait under the
  same tags, the addresses of their Proc, in one table of rendezvous: an entry that a
  lock left behind would be met by a wake-up.
* `VMSched`: `isched.l`, `idle`, `yield`, `vmq` and `irend`. The progs are a number.
  A thread that is to be born is `unborn`, `kproc` makes it go to `startup`.
* `DisSched`: what happens inside the machine: run queue, channels, alt, spawn,
  exit, kill, built-ins that release and acquire, and kernel processes that use
  channels. Because only one thread is inside (`OneInside` of `VMSched`), code
  between two hand-overs is one action. Variables are named in the module with the
  C fields they stand for; `last` and `sel` remember with whom a prog communicated
  and which entry its alt reported, what the program itself would see. A prog is
  outside the machine for a built-in (it is in `builtin`), after which `mcall` looks at
  `kill`, or for an instruction that loads a module (`iload`) or destroys the last
  reference to an open file or a file2chan (`freeFD`, `freeFileIO`), after which nobody
  does: a prog that was killed there goes on, also with the hook `addrun` that a cblock
  left behind.
* `SyncChan`: what channels promise, without queues: offers, meetings,
  cancellations. `DisSched` is shown to implement it (`ImplementsSyncChan`), with
  the offers read off the lists and the alts of blocked progs. A prog makes an offer
  (`Offer`) only if it has none; what it offers is left open.
* `GC`: the heap as a row of blocks, with the colours, the walk of `rungc` in steps
  of one block, and the instructions that move pointers between frames and blocks.
  `destroy` takes a block apart in steps, as its recursion does, but no instruction
  runs in between.
* `StyxServer`: what a file server promises at its end of a connection: each request
  answered at most once, a flush takes a request back. It is the server in `Mnt`, and
  the abstract specification of `Export`.
* `Mnt`: `emu/devmnt.c`. A Mntrpc is its tag; processes step between the points where
  `m->r.l` or `mntalloc.l` is given up, a device is called or a Rendez waited on.
  A write that fails is one on a broken connection, or is interrupted: a flush that is
  interrupted before it is out (`FlushInterrupted`) counts as sent, as `mntflush` has it.
  `asked` remembers whether anything was sent for a call. `HangupSpec` adds the end of
  file of the connection.
* `Export`: `emu/exportfs.c`, requests: `exportproc` of each connection, the list
  `exq`, the slaves with the queue of `exq.qwait`, flush and shutdown, and who frees
  the Export. `ImplementsServer` says that each connection is a `StyxServer`.
* `ExportFid`: `emu/exportfs.c`, fids: the `Ex` requests with their references, the
  list of fids, `attached` and `chan`. A create in a union (`CreateFails`) and a walk to
  `..` (`UpFails`) may fail after they have closed the fid's channel. The history
  variables `torn`, `lost` and `harmed` remember the fids this happened to, the channels
  that no fid got, and whether a stale channel was used or closed since: what the device
  or the new owner of the Chan makes of that is not modelled. `FaultSpec` adds devices
  that refuse to clone or to remove.
* `NameSpace`: `emu/chan.c`, `emu/sysfile.c` and the part of `emu/main.c` about Pgrp:
  bind, unmount, open, close, read of union directories, chdir and pctl(FORKNS), with
  name resolution step by step, shared by several progs. Channels, mounts and heads
  are cells of bounded tables with their reference counts and free list.
* `Unions`: what a name space promises: each directory has a sequence of directories
  it shows, and bind, unmount and fork change it at once. `NameSpace` is shown to
  implement it (`ImplementsUnions`), reading the sequences off the mount lists.
* `Queues`: what the invariants say about queues.
* `MC*`: instances for TLC.
* `DisSchedProofs`, `MntProofs`, `ExportProofs`, `ExportFidProofs`, `GCProofs`: theorems.
  `RendezvousProofs` has those of the modules that build on `Rendezvous`: `RWLock`,
  `SleepWakeup` and `VMSched`, whose names are told apart for it (`RWSpec`, `SleepSpec`,
  `Spec`). `NameSpaceProofs` has those of `NameSpace`; the lemmas on its operators and
  on the calls other than fork are in `NameSpaceCalls`. The lemmas on queues are stated
  in each module that needs them.

Operators whose comment begins with "Mutant" are plausible mistakes in the
definition that follows. No action uses them; replacing the definition by one must
break the property PROJECT.json names, which shows that the property depends on
that code.

## Runs

Passing runs:

| run | instance | shows |
|---|---|---|
| `host_sync` | 3 processes that lock; one of them sleeps and makes system calls, two wake and kill it | `OneWriter`, `QuiescentFree`, `EveryCallReturns`, `WakeupNotLost`, `NoStaleInterrupt` |
| `vmsched` | 3 interpreters, 1 kernel process, 2 progs, yield up to 3 | `OneInside`, `IdleMeansFree`, `NoSleepPanic`, `YieldCoversQueue`, `AcquireServed` |
| `dis_sched` | 2 Dis progs, 1 kernel process, 2 channels, crossed alts with an array, a nil and repeated channels | `TypeOK`, `RunqInv`, `WaitInv`, `AltInv`, `AltRecorded`, `KilledNeverRuns`, `AltResult`, `ImplementsSyncChan` |
| `gc` | 3 blocks, 1 slot, 2 blocks a call, counts up to 2 | `TypeOK`, `ReachableUsed`, `CountCovers`, `EpochClean` |
| `mnt` | 2 processes, tags used twice in turn, 2 flushes, writes, sleeps and flushes that are interrupted, a connection that breaks | `QueueInv`, `GateHeld`, `OwnReply`, `EveryCallReturns` |
| `export` | 2 connections, 2 slaves, one request and its flush at a time on each, connections that end | `RequestHeld`, `RefCount`, `SlaveAwake`, `ImplementsServer`, `EveryRequestAnswered` |
| `export_fid` | 2 fids, 3 slaves, 3 channels, failing creates and walks | `TypeOK`, `FidHeld`, `ChanOpen`, `NoChanLeak`, `ClientAgrees` |
| `name_space` | 2 progs with 2 calls each, 4 directories, 3 groups | `RefsExact`, `CopyInOrder`, `ImplementsUnions` |

Runs that find a disagreement of the code with what it says of itself (the quoted
lines are under "findings" in PROJECT.json):

| run | what happens |
|---|---|
| `rwlock_exclusion` | `wunlock` opens the entry before it gives the lock back: a reader and the next writer are in the section together |
| `export_fid_faults` | a remove that the device refuses leaves the fid attached, although the client has given it up |
| `export_flush` | a client flushes its request: `exflush` answers the request or interrupts it, and never the flush, which the manual says must be answered immediately (`FlushesAnswered`: each connection is a `StyxServer` with `AnswersFlush = TRUE`) |
| `name_space_stale` | bind, open, unmount, read: `unionread` clones the channel of the mount that is gone before it looks whether it is, and `cclose` panics |

### Further counterexamples

These configurations lie beside the runs. Each lets happen what a run excludes, by a
constant of the module, another specification or a stronger property, and TLC answers
with the behaviour. They are the reason for the exclusion. Where one shows what a
document rules out, that is said.

| configuration | what it lets happen | what TLC shows |
|---|---|---|
| `DisRebind` | a channel variable is set again while a prog waits (`StoreSpec`) | `killprog` looks for the prog on the wrong channel; it stays on a list after it is freed |
| `DisSharedAlt` | two progs have one channel in their alts | the second registration replaces the first: `AltRecorded` fails |
| `DisKilled` | `KilledStops`: no killed prog executes an instruction, be it back from a built-in or not (prog(3): "Kill the process") | after `iload` or a finaliser nobody looks at `kill` |
| `DisLostKill` | a kill between `release` and `Sleep` in `cblock` (prog(3) again) | the kill has no effect |
| `DisReady` | fairness of the machine only | two communicating progs keep a ready third one off the processor |
| `SwiprocDeadlock` | liveness of `swiproc` | it holds the lock its victim needs to get to the meeting |
| `GCSlice` | `SliceInHeap = TRUE`: the destination of `slicea` is in the heap | a reachable block is freed: `slicea` does not mark |
| `MntFlush` | `AnswersFlush = FALSE`: a server that, like `exflush`, answers the request and never the flush | a call interrupted before its request is written waits for the Rflush for ever; `export_flush` is the finding about the server |
| `MntHangup` | end of file (`HangupSpec`) | nobody opens the gate again |
| `ExportFidTorn` | `NeverHarmed`: a fid that a failed create or walk tore is not used again | it is clunked, and its closed channel is closed again |
| `ExportTail` | `TailRemoved = TRUE`: the last of several requests is unlinked | `exq.tail` points to freed memory, the next request is lost |
| `NameSpaceDot` | `DotRace = TRUE`: `kchdir` beside another prog's name resolution | a channel is closed twice |
| `NameSpaceCopy` | `CopyTogether = TRUE`: two forks of one group | they overwrite `m->copy` of each other: `CopyInOrder` fails |
| `NameSpaceUp` | a name that goes to `..` and is not found | `undomount` has closed the channel already: `RefsExact` fails |

`GivenMayFail = TRUE` of `Mnt` (a call fails while the reader is about to complete it)
and `ReuseEarly = TRUE` of `ExportFid` (a client makes a fid again with a number that
requests it sent before the clunk still use) are excluded too: in `Mnt` because what
happens then depends on who gets the freed memory, in `ExportFid` because it needs a
client that no part of this repository is.
`UnmountInUse = FALSE` of the run `name_space` excludes what `name_space_stale` shows:
only that run speaks of open directories whose mount is gone.
`EveryCallReturns` of `Mnt` excepts a call for which nothing was sent, because it was
interrupted before its request was out and again before its flush was (`Unasked`): it
waits for an answer that cannot come, until it is interrupted once more.

### Bounds

Three processes are the least with a holder, a waiter and an overtaker of
a lock; a fourth adds no new kind of queue. In `VMSched` the sleeping owner, a
caller at the front of `vmq`, a caller behind it and a spare interpreter can exist
together; `MaxYield` cuts off behaviours with more than three outstanding requests,
`MaxProgs` limits how long the run queue is, and a `release` that would start one
more interpreter than `Interps` has is not taken. In `DisSched` three progs are a
pair that communicates and one that kills or waits; two channels are what an alt
needs.

In `GC` three blocks make a cycle with a block outside it, and a slice whose root
lies before or behind it; the colours turn round and round, and `ColorView` identifies
states in which only their numbers differ. `MaxRef` bounds counts: a pointer that would
take one further is not copied. In `Mnt` two processes are a reader and one who waits
for it to pass the gate on; `Calls` tells a call from the one before it with the same
tag; `MaxFlush` bounds flushes. In `Export` two slaves and two connections let a flush,
the end of a connection and the requests of another meet; with one tag a client has a
request and its flush on the way at once. In `ExportFid` three slaves are two users of a
fid and the clunk that ends it, and a free channel is left for two fids unless failed
calls lost some; the constraint `Followed` ends a behaviour once a stale channel was
used. In `NameSpace` the bounds `NChan` and `NMount` are more than the calls of the run
can use (a call is not begun if it might need more than there are: `Enough`), `Group` has one
group more than there are forks at once, and two calls of each prog are a change of the
table and a use of what was opened before it; 427,837 states, 45 steps deep. The
counterexample `name_space_stale` needs four calls of one prog.

`CHECK_DEADLOCK FALSE` stands where the system really may stop: in `DisSched` all progs
may block on channels for good or the machine may halt; in `HostSync` a killer and
its victim may wait for each other (`SwiprocDeadlock`); in `Mnt` the connection may have
broken; in `Export` both connections may have ended; in `ExportFid` the slaves may wait
for a client; in `NameSpace` the progs have made their calls.

### Fairness

The host schedules every thread (weak fairness of what a process does
inside a call). A spin lock is got by a process that tries again and again (strong
fairness of the actions that take one): `lock` calls `osyield` between attempts,
and the pthread scheduler starves no thread for ever. Nobody is obliged to call
anything. In `FairSpec` of `DisSched` the machine goes on dispatching, a prog's
quantum ends, and a thread that waits for the machine gets it in the end.
`EveryCallReturns` of `RWLock` also needs sections under the lock to end. Nothing
obliges a host system call, or the signal that interrupts it. In `Mnt` the
server reads what is sent and answers every request it has read, in any order, and
processes go on once they are in a call; a broken connection fails writes and reads.
In `Export` the processes go on, which includes that the calls of the devices return;
this takes a host that interrupts a call by a signal, since a slave that `emu/os-Linux.c`
cancels leaves its request unanswered.

## Theorems

All are for any sets of processes, progs, channels, fids, slaves and so on. They assume
the named ASSUMEs of the modules and, where it says so, one of six conditions: no two
progs share an end of a channel in their alts (`UnsharedAlts`; `MCDisSched` has TLC
evaluate that the programs of the run are such), the last of several waiting requests is
not removed from the list of `Export` (`TailRemoved = FALSE`), no call of `Mnt` fails
while it is being completed (`GivenMayFail = FALSE`), a client of `ExportFid` waits
before it uses a fid number again (`ReuseEarly = FALSE`), a program does not assign
a slice of a global or of a field to that variable itself (`SliceInHeap = FALSE`), and
the progs of a name space keep out of each other's way where its code does not
(`Orderly` of `NameSpace`: no mount is removed that is still followed, no two forks of
one group at once, no use of the current directory while it is changed, and `..` is
always found). The code guarantees none of them; the runs that pass have them too, and
for each but `GivenMayFail` and `ReuseEarly` a `.cfg` shows what fails without it.
`Orderly` leaves open what happens to an open directory whose mount is removed; no
theorem speaks of it.

* `DisSchedProofs!TypeCorrect`: `Spec => []TypeOK`. One lemma per action, and lemmas
  on the helpers: removing a prog from a list (`RemoveFirst`) leaves a list of progs,
  and leaves it non-empty if the head is another one (the killer stays at the head of
  the run queue); marking and unmarking keep alt pointers progs or nil. `TypeOK` is
  inductive as it stands.
* `DisSchedProofs!RunqCorrect`, `ListsCorrect`, `AltsCorrect`, `KilledInBuiltin`:
  `RunqInv`, `WaitInv`, `AltInv` and `KilledNeverRuns` are invariants. They follow from
  `Inductive`, that is `Spec => []IndInv`. `IndInv` adds to the first three what they
  need of each other:
  - `HostInv`: the fields of a prog agree: who has a host thread at work, and that a
    hook belongs to a cblock or to a prog that a kill pulled out of one.
  - `KillInv`, which is `KilledNeverRuns`: a prog killed in a built-in is on the run
    queue only as the caller inside, and blocked on no channel. A prog killed in a
    module load or a finaliser is like any other; the parts of `RunqInv` and `WaitInv`
    that say that *all* are queued or listed are about the rest, because such a prog may
    come with a stale hook, which swallows its next wake-up.
  - `VmInv`: whoever is inside is the head of the queue.
  - `AtInv`: a prog blocked in `isend` or `irecv` is on the list of the channel its
    operand holds, which is where `killprog` looks. `Store` breaks it, and then
    `WaitInv` (`DisRebind.cfg`); this is why `Spec` has no `Store`.
  The proof has four layers: what append, tail, cons, rotation and removal do to a
  list without repetitions; what leaving, rotating and joining the run queue preserve
  (`Departs`, `Rotates`, `Joins`); what gaining or losing one prog does to lists and
  alt pointers (`ListsGain`, `ListsLose`, `AltsLose`); and one lemma per action, where
  `TransferPartner` shows that a communication removes exactly one partner, and
  `NoSelfMeeting` that an alt that passed altrdy's check never meets itself.
  `AltInv` holds even if progs share channels in their alts; `AltRecorded`, its
  converse, does not (`DisSharedAlt.cfg`).
* `DisSchedProofs!AltsRecorded`, `AltResultCorrect`, `Refinement`, `NobodyMissed`:
  `AltRecorded`, `AltResult` and `ImplementsSyncChan`, assuming `UnsharedAlts`, from
  `Synchronised`, that is `Spec => []MeetInv`. `MeetInv` adds to `IndInv` the two
  properties themselves, `MemInv` (a blocked prog has stored nothing: its index and its
  last meeting are those of `NoSel` and `NoLast`) and that no two blocked progs have
  complementary offers. `Marks` are the channels that `altrdy` marks, those of an alt
  that breaks at a clash up to the entry before it (`Before`): if no other prog marks
  the same, `Mark` followed by `Unmark` gives back what was there. The refinement maps a
  prog to what it offers on which channels; a transfer is one `Meet`, whatever the
  partner was blocked in, and a kill or an interrupted `cblock` a withdrawal. What a
  killed prog still does needs no exception here.
  `Meetings` is `NoMissedMeeting` of `SyncChan`, inductive with `TypeOK` because only
  `Offer` adds offers and its guard `Unmatched` compares them with everybody's and with
  each other; `NobodyMissed` carries it over to the code.
* `RendezvousProofs!MachineExclusive`, `IdleIsFree`, `SleepSafe`: `OneInside`,
  `IdleMeansFree` and `NoSleepPanic` of `VMSched`, from `Inductive`. That one thread is inside is
  not inductive, because the machine is handed over by a rendezvous after `isched.l` is
  free; what is, is that at most one thread *has* it (`OneHas`): it is inside (`Owns`),
  or the machine is on the way to it (`Given`): its partner is about to meet it, or
  waits for it under its tag. `WaitInv` says under which tag a thread may wait and why,
  `QueueInv` that a queued thread waits and is queued once, `GiveInv` that a thread
  gives the machine to one that waits and has left the queue, `SleeperInv` who may be in `irend`,
  and `KindInv` that only interpreters run progs.
* `RendezvousProofs!YieldCovers`: `YieldCoversQueue`, from `IndInv` and `AskInv`: whoever
  has counted `yield` up and is still about to ask for the machine is among the first
  `yield` of `vmq`. It holds because `acquire` goes to the front of the queue and
  `iyield` takes one off the front for each one it counts down.
* `RendezvousProofs!WritersExclude`, `LeavesFree`: `OneWriter` and `QuiescentFree` of
  `RWLock`, from `RWInductive`. A writer keeps `x` until it leaves, so what excludes writers is `XInv`:
  one process has `x` (inside the entry, writing, or the one `x` was passed on to and
  that is yet to come to the rendezvous), and it is locked exactly then. Of `k` only the
  weaker `KInv` holds: it may be free while there are readers, the finding
  `rwlock_exclusion`; it is locked only while a writer has it or there are readers,
  which with `readers = Cardinality(Readers)` makes it free when all have left.
  These, and the next, are about `RWLock` and `SleepWakeup` each by itself; that they
  share a table of rendezvous is checked by `host_sync` only.
* `RendezvousProofs!InterruptsMatch`: `NoStaleInterrupt` of `SleepWakeup`, from
  `SleepIndInv`, which says where the sleeper is while `up->r` is set, while somebody waits under its tag, and
  while an interrupt is pending: `swiproc` that pulls a process out of `Sleep` before it
  has looked at the condition leaves it pending at a process that never goes on (the
  deadlock of `SwiprocDeadlock.cfg`), so it does not reach the next call either.
* `MntProofs!QueueCorrect`, `GateCorrect`: `QueueInv` and `GateHeld`, from `Inductive`,
  assuming `GivenMayFail = FALSE`. `AllocInv` accounts for the Mntrpcs: those made are
  free, or each with the one process in a call that took it; so, by counting
  (`RoomForOne`), a process that finds the free list empty makes one that `Rpc` has.
  `RetInv` says which processes come back to reading after `mntflush` and `Wakeup`,
  `DoneInv` that who leaves has a completed call, and `GiveInv` that the call the reader
  is completing is another's and still there: without the assumption its process could
  fail, free the Mntrpc and have it back on the queue before the reader writes to it.
  This part is `Spec => []PlaceInv`, and assumes nothing of the server.
* `MntProofs!OwnReplies`, `TypeCorrect`: `OwnReply` and `TypeOK`, under the same
  assumption, from `Spec => []IndInv`, where `IndInv` is `PlaceInv /\ MsgInv`; TLC has
  checked all of it on the instance of the run. `MsgInv` follows the messages:
  `OnceInv` says that a request, or the reply to it, is in one place (on the way, at the
  server, on the way back, or held by the reader); `FlushInv` that the tags of flushes
  are new and distinct; `HeldInv` that what the reader holds fits the call it completes;
  `OwnerInv` that every message belongs to a call, and that none is left when the
  connection has broken; `CallInv` that nothing with a call's tag is under way before
  its request is written and after it has ended, that what is under way in between is
  its own, and that the answer to its flush comes behind the one to its request. The
  last is the order that `StyxServer` keeps. `TagAssumption` gives fewer
  processes than tags below `Tagfls`, so tags of requests and flushes are apart, and
  `MaxFlush` keeps flushes below the wrap at `Tagend`.
* `ExportFidProofs!TypeCorrect`, `FidsHeld`, `ChannelsOpen`, `NothingLeaks`,
  `ClientAndServerAgree`: the five properties of the run `export_fid`. `IndInv` ties the
  place of a slave in its request to what it holds (`HoldInv`), a new fid to the one
  slave that makes it (`MakeInv`), a fid without a channel to the slave that is about to
  set it (`ChanInv`), and the client's fids to `attached` and to the requests under way
  (`OwnInv`). `OpenInv` and `Distinct` leave out torn fids, and say nothing once a stale
  channel was used. The last three assume `ReuseEarly = FALSE`.
* `ExportProofs!TypeCorrect`, `InOnePlace`, `ExportCounted`, `Implements`: `TypeOK`,
  `RequestHeld`, `RefCount` and `ImplementsServer`, assuming `TailRemoved = FALSE`, from
  `IndInv`, which TLC has checked on the instance of the run. Where a request is follows
  from where the slaves and `exportproc` are (`JobInv`, `EqInv`); a slave in `exq.qwait`
  waits for nothing else (`QwaitInv`), so the slave that `qunlock` lets in is not one
  that performs a request. The counts follow by adding and removing one element of the
  finite sets `Listed` and `Working` (`Recounted`). That a reply goes to the request it
  answers needs that tags are in use once (`TagInv`): on the way to the server, there, or
  on the way back, and only while the client waits. It is what ties the client, the
  connections and the server together, and the only part that speaks of messages.
  One lemma per action says what happens to `Accepted`, the requests read and not
  answered, and that is also the step of `StyxServer` the action is.
* `ExportProofs!NoneAsleep`: `SlaveAwake`, which needs no assumption: it is inductive
  with the places of the processes, since `exwork` looks at the list and sleeps in one
  step under the lock that `Wakeup` takes, and who adds a request is about to wake.

* `GCProofs!TypeCorrect`, `NothingLost`, `CountsCover`, `EpochsClean`: the four
  properties of the run `gc`, assuming `SliceInHeap = FALSE`, from `IndInv` of `GC`, which
  TLC has checked on the instance of the run. What the program can get at is the least
  set that is closed under pointers (`From`), so that no proof is by induction over
  paths: to bound it after a step, it is enough to exhibit a closed set. `Live` is what
  slots and blocks being destroyed lead to; it contains `Reachable`.
  - `CountInv`: what is live is used, and no count falls short of the pointers to it
    from slots, live blocks and blocks being destroyed. `NoCount` then shows that a block
    whose count falls to zero is not live. `Stores` says how these pointers change when
    an instruction stores in one place and in fresh blocks, `AssignsCounts` that the
    counts follow, `Shrinks` that clearing pointers adds none.
  - `SliceInv`: a slice has no elements of its own and its root is a whole array. It is
    why `markarray`, which marks the root and the elements of the root, marks all a
    block points to, and why an operand never addresses the inside of a slice.
  - `ColorInv`: what a slot or a scanned block points to is marked or scanned, and
    nothing live is to be swept. `Movp` and `Consp` keep it by `Setmark`, `SliceOfArray`
    because the pointer it moves was in a slot.
  - `PassInv` and `WalkInv`: what the walk has passed has been swept, and scanned unless
    `nprop` is set; destroying and walking do not overlap.
  At the end of an epoch (`AllScanned`) the scanned blocks that are live are closed under
  pointers and hold what the slots hold, so they are all that is live, and the colours
  may turn. `Visits` is what `Pass`, `Scan` and `ScanList` do to the colours.

* `NameSpaceProofs!EveryReference`, `NothingClosedTwice`, `CopiesInOrder`,
  `TypeCorrect`: `RefsExact`, `NoClosePanic`, `CopyInOrder` and `TypeOK`, assuming `Orderly`,
  from `Inductive`, that is `Spec => []IndInv`; TLC has
  checked `IndInv` on the instance of the run. A list of mounts is followed by a
  recursive function, of which the prover knows nothing; but it is determined by what
  is on it: `IsList` says that a sequence without repetitions begins at a mount, ends
  with nil and has each mount's `next` behind it, and `ListInIs` that following gives
  that sequence. So each step is described by sequences (`EditLists` for a bind and an
  unmount, `ForkLists` and `LeavesLists` for the two steps of a fork), and only these
  few lemmas know how `next` changes. `RefsExact` is a sum of sizes of finite sets, one
  for each kind of holder, and each step adds to some of them and takes from others
  (`Count` of the sequences that are opened and closed; `CloseAllIs` closes a sequence
  that the counts cover). What `IndInv` adds:
  - `ChanInv`: exactly the channels with count 0 are on the free list, so a channel just
    taken is nobody's.
  - `Private`: a channel of a call or of an open file has one reference, so that `walk`,
    which changes it, changes nothing that others have. It holds because calls clone
    what they are given and a group never gives out its own channels.
  - `ListInv`: the lists of the heads end, share nothing and have live mounts. This is
    why a mount is freed by one list only.
  - `GroupInv`, `CallInv`, `BetweenInv`: who uses a group or makes one, what a call has at
    each of its steps, and what no other call may do between two of them: the prog at
    `unclone` still finds the directory mounted on; one prog of a group forks or changes
    the directory at a time (from `Orderly`).
  - `IdInv` and `CopyInv`: the mounts of a group have different ids; while a group is being
    made, its lists are the copies of its parent's and `order` has those by their ids.
    With it `pgrpinsert` keeps a sorted sequence, and the ids given out in that order
    keep it: `CopyInOrder`.
  - `ShowsInv`: a channel derived from a union has the number of a mount in the table of
    its group, and its id. It is nearly what `UnmountInUse = FALSE` assumes, and serves
    only the refinement below: what a bind finds through `c->mnt` is a union that exists.
* `NameSpaceProofs!ShowsUnions`: `ImplementsUnions`, under `Orderly`: every step of
  `NameSpace` is one of `Unions` or shows nothing new (`StepShows`). `OthersLeave`: only
  bind, unmount and the two steps of a fork write the table; `SameShown`: with the table
  as it was nothing shows, since a channel that is mounted keeps its file (`FilesKept`,
  which each step's lemma proves with `IndInv`). `BindShows` needs `ShowsInv`: what a
  bind finds through `c->mnt` is the rest of a union of its own name space, so that what
  it adds is a member of `Bindable`. `UnmountShows`, `ForkShows` and `LeaveShows` are the
  other three.

Only model-checked: everything temporal under fairness; liveness is out of the prover's
reach. Each safety property and each refinement that a passing run checks has a theorem.

## Not modelled

Left out of modules that model the rest of their component:

* of `DisSched`: values sent, frames, the debugger (state `Pdebug` and the debug
  branches of `killprog` and `progexit`), `execatidle`, and assignment to channel
  variables in `Spec` (it is in `StoreSpec`). `killgrp` is a sequence of kills. A prog's
  slot is reused after it is freed, as memory is.
* of `GC`: `gclock` and the turn of `execatidle`; finalisers that release the machine;
  what the roots are beyond slots. The two quanta of `rungc` are one, `Quanta`.
* of `Mnt`: the device operations, which each make one call and are represented by it;
  the list of mounts, the exchange of versions, and the size of messages.
* of `Export` and `ExportFid`: what is read and written, offsets in directories,
  `Nsession` and `Nop`.
* of `NameSpace`: names that begin with `#`, `create` and `createdir`, the attach of
  `mount`, `NEWNS`, a prog that exits, devices that fail, and a last `..` in a name to
  mount on.

Components without a module, and why:

* `emu/devprog.c`: its `kill` and `killgrp` are `Kill` of `DisSched`; the wait files
  need `emu/qio.c` and the debugger its own states in `DisSched`.
* `emu/qio.c`: its blocks are split and concatenated, so a model has to tell bytes
  apart; planned.
* `emu/devsrv.c` (servers in Limbo): combines channels of `DisSched` with files of
  `NameSpace`, both at bounds that TLC does not reach together.
* `emu/alloc.c`: a best-fit tree under one lock, sequential.
* the interpreter's other instructions, the loader, the JIT compilers, Tk, drawing,
  prefab, cryptography, the Limbo compiler: sequential translation, arithmetic and
  layout; no state that several actors share beyond what is modelled.
* `os/` (the stand-alone kernels) repeats the scheduler and the drivers on another
  process layer; `utils/` has compilers, linkers and debuggers; `appl/` has programs.

These last make up nearly all of the 2,820 files, so that the lines PROJECT.json maps
are a small share of the repository, though most of the concurrent core of `emu`.

## Plan

1. Done: locks, Sleep, sharing of the machine, scheduler and channels, collector, mount
   driver, export, name spaces; the inductive invariants of the scheduler, of the
   sharing of the machine, of the locks, of Sleep, of the mount driver, of the export
   and of its fids, of the collector and of name spaces; the refinements of `SyncChan`,
   of `StyxServer` and of `Unions`.
2. Next theorems: those of `NameSpace` from less than `Orderly`, which they all assume
   whole. `CopyInOrder` should not need that the current directory stays as it is, nor
   `ImplementsUnions` that `..` is found.
3. Next modules: `Qio` (an abstract bounded stream and `emu/qio.c` against it), the wait
   files of `/prog`, the debugger and `execatidle` in `DisSched`.
4. Composition: `DisSched` with `VMSched`; two `Mnt` over an `Export`.
