------------------------------ MODULE DisSched ------------------------------
(***************************************************************************)
(* The Dis virtual machine as its programs see it: the run queue of        *)
(* emu/dis.c, the channel instructions of interp/xec.c and interp/alt.c,   *)
(* spawn, exit, kill, the built-in calls that leave the machine with       *)
(* release() and come back with acquire(), and the kernel processes that   *)
(* enter it to talk on a channel (csend, crecv) or to kill a prog.         *)
(*                                                                         *)
(* One host thread at a time is inside the machine (module VMSched is      *)
(* about how it gets there), so the code between two hand-overs is one     *)
(* step.  The prog whose code runs is always the head of the run queue.    *)
(*                                                                         *)
(* c->send and c->recv, the lists of blocked progs, are wait[c]["send"]    *)
(* and wait[c]["recv"]; c->sendalt and c->recvalt are altp[c]["send"] and  *)
(* altp[c]["recv"]: send and receive are the same code with the two        *)
(* directions exchanged.  What travels on a channel is left out; last[p]   *)
(* remembers with whom, where and which way p last communicated.           *)
(***************************************************************************)
EXTENDS Naturals, Sequences, FiniteSets, SequencesExt

CONSTANTS
  Progs,        \* Dis progs, and the pseudo-progs of kernel processes
  KProgs,       \* the pseudo-progs: Proc.prog of a process that is no vmachine
  NoProg,       \* the nil Prog pointer
  Root,         \* the prog disinit schedules
  Chans,        \* channels; never freed here, other references exist
  H,            \* the nil channel of Dis
  Globals,      \* channel variables of the module data
  Slot0,        \* the channel each variable holds at first
  AltsOf,       \* AltsOf[p]: the alt statements in the code p runs
  KChans        \* channels csend and crecv are used on (file2chan, Tk)

Dirs == {"send", "recv"}

Dual(d) == IF d = "send" THEN "recv" ELSE "send"

(***************************************************************************)
(* An Alt: the channels of the send entries, then the receive entries, an  *)
(* entry being a channel (a sequence of one) or an array of channels.      *)
(***************************************************************************)
AltStructs == [snd : Seq(Chans), rcv : Seq(Seq(Chans \union {H}))]

NoAlt == [snd |-> <<>>, rcv |-> <<>>]

ASSUME ProgAssumption ==
  /\ KProgs \subseteq Progs
  /\ Root \in Progs \ KProgs
  /\ NoProg \notin Progs
ASSUME ChanAssumption ==
  /\ H \notin Chans
  /\ KChans \subseteq Chans
  /\ Slot0 \in [Globals -> Chans]
ASSUME AltAssumption == AltsOf \in [Progs -> SUBSET AltStructs]

VARIABLES
  runq,         \* isched.runhd .. isched.runtl
  vm,           \* "switch": top of vmachine's loop or between two owners of
                \* the machine; "run": in xec; "call": in a built-in or kernel
                \* process after acquire; "halt": cleanexit
  state,        \* Prog.state, "none" for a prog that does not exist
  kill,         \* Prog.kill
  hook,         \* Prog.addrun # nil (cwakeme)
  host,         \* what the host thread of a released prog is doing
  builtin,      \* progs out of xec for a built-in, in mcall, and those that
                \* were killed there
  wait,         \* Channel.send, Channel.recv
  altp,         \* Channel.sendalt, Channel.recvalt
  slot,         \* the channel variables of the module data
  at,           \* the operand of the instruction p blocked in: R.d or R.s
  alt,          \* the Alt of p's last alt instruction: R.s
  sel,          \* the entry p's last alt stored: index, index in the array
  last          \* peer, channel and direction of p's last communication

vars == <<runq, vm, state, kill, hook, host, builtin, wait, altp, slot, at, alt, sel, last>>

chanvars == <<wait, altp>>
memvars == <<slot, at, alt, sel, last>>

NoSel == <<0, 0>>
NoLast == <<NoProg, H, "send">>

Init ==
  /\ runq = <<Root>>
  /\ vm = "switch"
  /\ state = [p \in Progs |-> IF p = Root THEN "Pready"
                              ELSE IF p \in KProgs THEN "Prelease" ELSE "none"]
  /\ kill = [p \in Progs |-> FALSE]
  /\ hook = [p \in Progs |-> FALSE]
  /\ host = [p \in Progs |-> IF p \in KProgs THEN "work" ELSE "none"]
  /\ builtin = {}
  /\ wait = [c \in Chans |-> [d \in Dirs |-> <<>>]]
  /\ altp = [c \in Chans |-> [d \in Dirs |-> NoProg]]
  /\ slot = Slot0
  /\ at = [p \in Progs |-> H]
  /\ alt = [p \in Progs |-> NoAlt]
  /\ sel = [p \in Progs |-> NoSel]
  /\ last = [p \in Progs |-> NoLast]

-----------------------------------------------------------------------------
(* The run queue. *)

Current(p) == runq # <<>> /\ Head(runq) = p

(* p executes Dis instructions. *)
InXec(p) == vm = "run" /\ Current(p)

(* p is in a built-in or kernel process that has called acquire. *)
InCall(p) == vm = "call" /\ Current(p)

(***************************************************************************)
(* After xec returns vmachine moves the head of the run queue to its tail, *)
(* whether or not it is the prog that ran.                                 *)
(***************************************************************************)
Rotate(q) == IF Len(q) > 1 THEN Append(Tail(q), Head(q)) ELSE q

(* addrun(q): with a hook, run that instead of queueing q. *)
AddRun(q) ==
  IF hook[q]
  THEN /\ hook' = [hook EXCEPT ![q] = FALSE]
       /\ UNCHANGED <<runq, state>>
  ELSE /\ state' = [state EXCEPT ![q] = "Pready"]
       /\ runq' = Append(runq, q)
       /\ UNCHANGED hook

(* release(): the running prog leaves the queue and the machine. *)
Leave(p, activity) ==
  /\ runq' = Tail(runq)
  /\ state' = [state EXCEPT ![p] = "Prelease"]
  /\ host' = [host EXCEPT ![p] = activity]
  /\ vm' = "switch"

(* p goes on: registers are reused, the results of its last instruction read. *)
Forget(p) ==
  /\ at' = [at EXCEPT ![p] = H]
  /\ alt' = [alt EXCEPT ![p] = NoAlt]
  /\ sel' = [sel EXCEPT ![p] = NoSel]
  /\ last' = [last EXCEPT ![p] = NoLast]

(* The prog blocks in the instruction; its quantum ends. *)
Block(s, p) ==
  /\ state' = [state EXCEPT ![p] = s]
  /\ runq' = Rotate(Tail(runq))
  /\ vm' = "switch"

-----------------------------------------------------------------------------
(* Channels. *)

(* Mutant: progs that wait in an alt are overlooked. *)
WaitingListed(c, d) == wait[c][d] # <<>>

(* Somebody waits on c in direction d, in a list or in an alt. *)
Waiting(c, d) == wait[c][d] # <<>> \/ altp[c][d] # NoProg

(* The entries of an alt in one direction, numbered from 1. *)
Items(a, d) ==
  IF d = "send"
  THEN {<<a.snd[n], n, 1>> : n \in DOMAIN a.snd}
  ELSE UNION {{<<a.rcv[n][k], Len(a.snd) + n, k>> : k \in DOMAIN a.rcv[n]} :
                n \in DOMAIN a.rcv}

ChansOf(a, d) == {i[1] : i \in Items(a, d)} \ {H}

(* Mutant: nil is stored as H, the nil of Dis. *)
UnmarkH(ap, a, p) ==
  [c \in Chans |-> [d \in Dirs |->
     IF c \in ChansOf(a, d) /\ ap[c][d] = p THEN H ELSE ap[c][d]]]

(* Mutant: the send entries are skipped. *)
UnmarkRecv(ap, a, p) ==
  [c \in Chans |-> [d \in Dirs |->
     IF d = "recv" /\ c \in ChansOf(a, d) /\ ap[c][d] = p THEN NoProg ELSE ap[c][d]]]

(* altdone: take p out of the channels of its alt that still name it. *)
Unmark(ap, a, p) ==
  [c \in Chans |-> [d \in Dirs |->
     IF c \in ChansOf(a, d) /\ ap[c][d] = p THEN NoProg ELSE ap[c][d]]]

(* Mutant: the entries are numbered from 0. *)
SelectedFromZero(a, c, d) ==
  LET i == CHOOSE i \in Items(a, d) : i[1] = c IN <<i[2] - 1, i[3]>>

(* altdone: the first entry for channel c in direction d. *)
Selected(a, c, d) ==
  LET match == {i \in Items(a, d) : i[1] = c}
      i == CHOOSE i \in match :
             \A j \in match : i[2] < j[2] \/ (i[2] = j[2] /\ i[3] <= j[3])
  IN <<i[2], i[3]>>

(***************************************************************************)
(* The half of isend and irecv that finds a partner: p communicates on c   *)
(* in direction d with the prog waiting there in an alt, or else with the  *)
(* first of the list.  If p is itself in an alt then a is that alt, mine   *)
(* the entry it stores and marks the alt pointers altrdy has left; p's     *)
(* altdone follows.  Otherwise a is NoAlt.                                 *)
(***************************************************************************)
Transfer(p, c, d, a, mine, marks) ==
  LET e == Dual(d)
      inAlt == marks[c][e] # NoProg
      q == IF inAlt THEN marks[c][e] ELSE Head(wait[c][e])
  IN /\ IF inAlt
        THEN /\ altp' = Unmark(Unmark([marks EXCEPT ![c][e] = NoProg], alt[q], q), a, p)
             /\ wait' = wait
             /\ sel' = [sel EXCEPT ![p] = mine, ![q] = Selected(alt[q], c, e)]
        ELSE /\ altp' = Unmark(marks, a, p)
             /\ wait' = [wait EXCEPT ![c][e] = Tail(@)]
             /\ sel' = [sel EXCEPT ![p] = mine]
     /\ last' = [last EXCEPT ![p] = <<q, c, d>>, ![q] = <<p, c, e>>]
     /\ AddRun(q)

(* isend (d = "send") and irecv (d = "recv") on the channel variable g. *)
ISendRecv(p, g, d) ==
  LET c == slot[g] IN
  /\ InXec(p)
  /\ \/ /\ ~Waiting(c, Dual(d))
        /\ Block(IF d = "send" THEN "Psend" ELSE "Precv", p)
        /\ wait' = [wait EXCEPT ![c][d] = Append(@, p)]
        /\ at' = [at EXCEPT ![p] = g]
        /\ sel' = [sel EXCEPT ![p] = NoSel]
        /\ last' = [last EXCEPT ![p] = NoLast]
        /\ UNCHANGED <<hook, altp>>
     \/ /\ Waiting(c, Dual(d))
        /\ Transfer(p, c, d, NoAlt, NoSel, altp)
        /\ at' = [at EXCEPT ![p] = H]
        /\ UNCHANGED vm
  /\ alt' = [alt EXCEPT ![p] = NoAlt]
  /\ UNCHANGED <<kill, host, builtin, slot>>

ISend(p, g) == ISendRecv(p, g, "send")

IRecv(p, g) == ISendRecv(p, g, "recv")

-----------------------------------------------------------------------------
(* Alt. *)

(* progexit with an error message: p stays, broken, off the run queue. *)
Broken(p) ==
  /\ runq' = Tail(runq)
  /\ state' = [state EXCEPT ![p] = "Pbroken"]
  /\ vm' = "switch"

(* Mutant: only the receive channels are told. *)
MarkRecv(a, p, sends) ==
  [c \in Chans |-> [d \in Dirs |->
     IF d = "recv" /\ c \in ChansOf(a, "recv") THEN p ELSE altp[c][d]]]

(***************************************************************************)
(* altrdy: every receive channel and the channels of the send entries in   *)
(* sends now name p, whoever they named before.                            *)
(***************************************************************************)
Mark(a, p, sends) ==
  [c \in Chans |-> [d \in Dirs |->
     IF \/ d = "recv" /\ c \in ChansOf(a, "recv")
        \/ d = "send" /\ \E n \in sends : a.snd[n] = c
     THEN p ELSE altp[c][d]]]

(* Send entries whose channel the same alt receives from. *)
Clash(a) == {n \in DOMAIN a.snd : a.snd[n] \in ChansOf(a, "recv")}

(* The send entries that altrdy marks: those before the first clash. *)
Before(a) == {n \in DOMAIN a.snd : \A k \in Clash(a) : n < k}

(* The entries altrdy counts and altcomm chooses from, with their direction. *)
Ready(a) ==
  {r \in (Items(a, "send") \X {"send"}) \union (Items(a, "recv") \X {"recv"}) :
     r[1][1] # H /\ Waiting(r[1][1], Dual(r[2]))}

(* "alt send and receive on same chan": found after marking what precedes. *)
AltClash(p, a) ==
  /\ Clash(a) # {}
  /\ altp' = Unmark(Mark(a, p, Before(a)), a, p)
  /\ Broken(p)
  /\ sel' = [sel EXCEPT ![p] = NoSel]
  /\ last' = [last EXCEPT ![p] = NoLast]
  /\ UNCHANGED <<hook, wait>>

(* Nothing ready: alt blocks, nbalt stores the index after the last entry. *)
AltNone(p, a, block) ==
  LET marked == Mark(a, p, DOMAIN a.snd) IN
  /\ Clash(a) = {} /\ Ready(a) = {}
  /\ IF block
     THEN /\ altp' = marked
          /\ Block("Palt", p)
          /\ sel' = [sel EXCEPT ![p] = NoSel]
     ELSE /\ altp' = Unmark(marked, a, p)
          /\ sel' = [sel EXCEPT ![p] = <<Len(a.snd) + Len(a.rcv) + 1, 1>>]
          /\ UNCHANGED <<runq, state, vm>>
  /\ last' = [last EXCEPT ![p] = NoLast]
  /\ UNCHANGED <<hook, wait>>

(* Something ready: altcomm on an entry picked by xrand % nrdy, altdone. *)
AltSome(p, a) ==
  /\ Clash(a) = {}
  /\ \E r \in Ready(a) :
       Transfer(p, r[1][1], r[2], a, <<r[1][2], r[1][3]>>, Mark(a, p, DOMAIN a.snd))
  /\ UNCHANGED vm

(* The instructions alt (block) and nbalt: xecalt. *)
XecAlt(p, a, block) ==
  /\ InXec(p)
  /\ AltClash(p, a) \/ AltNone(p, a, block) \/ AltSome(p, a)
  /\ alt' = [alt EXCEPT ![p] = a]
  /\ at' = [at EXCEPT ![p] = H]
  /\ UNCHANGED <<kill, host, builtin, slot>>

-----------------------------------------------------------------------------
(* The other steps of the prog that runs. *)

(* vmachine picks the head of the run queue and enters xec. *)
Dispatch ==
  /\ vm = "switch" /\ runq # <<>>
  /\ vm' = "run"
  /\ UNCHANGED <<runq, state, kill, hook, host, builtin, chanvars, memvars>>

(* p computes until its quantum is over. *)
EndQuantum(p) ==
  /\ InXec(p)
  /\ runq' = Rotate(runq)
  /\ vm' = "switch"
  /\ Forget(p)
  /\ UNCHANGED <<state, kill, hook, host, builtin, chanvars, slot>>

(* newprog puts the new prog q at the tail of the run queue. *)
NewProg(q) ==
  /\ q \notin KProgs /\ state[q] = "none"
  /\ AddRun(q)

(* spawn, mspawn. *)
Spawn(p, q) ==
  /\ InXec(p)
  /\ NewProg(q)
  /\ UNCHANGED <<vm, kill, host, builtin, chanvars, memvars>>

(* An assignment to a channel variable of the module data (not in Next). *)
Store(p, g, c) ==
  /\ InXec(p)
  /\ slot' = [slot EXCEPT ![g] = c]
  /\ UNCHANGED <<runq, vm, state, kill, hook, host, builtin, chanvars, at, alt, sel, last>>

(* p's built-in is over; one that was killed in it stays in the set. *)
Over(p) == {q \in builtin : q = p => kill[q]}

(* A run-time error: progexit leaves the prog Pbroken. *)
Fault(p) ==
  /\ InXec(p) \/ InCall(p)
  /\ p \notin KProgs
  /\ Broken(p)
  /\ builtin' = Over(p)
  /\ Forget(p)
  /\ UNCHANGED <<kill, hook, host, chanvars, slot>>

(***************************************************************************)
(* progexit without a message (ret from the first frame, or kill found     *)
(* set when a built-in returns).  delprog takes p off the prog list and    *)
(* releases the machine to close its groups; ExitDone is the rest.         *)
(***************************************************************************)
Exit(p) ==
  /\ InXec(p) \/ InCall(p)
  /\ p \notin KProgs
  /\ Leave(p, "exit")
  /\ Forget(p)
  /\ UNCHANGED <<kill, hook, builtin, chanvars, slot>>

Listed(p) == p \notin KProgs /\ state[p] # "none" /\ host[p] # "exit"

(* What free and the next newprog make of the fields of p. *)
Free(p, act, act2) ==
  /\ state' = act
  /\ host' = act2
  /\ kill' = [kill EXCEPT ![p] = FALSE]
  /\ hook' = [hook EXCEPT ![p] = FALSE]
  /\ builtin' = builtin \ {p}
  /\ Forget(p)

ExitDone(p) ==
  /\ vm = "switch" /\ host[p] = "exit"
  /\ Free(p, [state EXCEPT ![p] = "none"], [host EXCEPT ![p] = "none"])
  /\ vm' = IF \E q \in Progs : Listed(q) THEN "switch" ELSE "halt"
  /\ UNCHANGED <<runq, chanvars, slot>>

-----------------------------------------------------------------------------
(* Built-ins and kernel processes. *)

(***************************************************************************)
(* A built-in that calls release() around host I/O; or another instruction *)
(* that does: iload, or one that destroys the last reference to an FD or a *)
(* FileIO.                                                                 *)
(***************************************************************************)
Release(p) ==
  /\ \/ InXec(p) /\ builtin' \in {builtin, builtin \cup {p}}
     \/ InCall(p) /\ UNCHANGED builtin
  /\ Leave(p, "work")
  /\ Forget(p)
  /\ UNCHANGED <<kill, hook, chanvars, slot>>

(***************************************************************************)
(* acquire(): p is put at the head of the run queue.  A process in cblock  *)
(* asks for the machine once its Sleep has returned, because cwakeme has   *)
(* run.                                                                    *)
(***************************************************************************)
Acquire(p) ==
  /\ vm = "switch"
  /\ host[p] = "work" \/ (host[p] \in {"block", "sleep"} /\ ~hook[p])
  /\ runq' = <<p>> \o runq
  /\ vm' = "call"
  /\ state' = [state EXCEPT ![p] = "Pready"]
  /\ host' = [host EXCEPT ![p] = "none"]
  /\ UNCHANGED <<kill, hook, builtin, chanvars, memvars>>

(* Mutant: mcall does not look at kill. *)
ReturnUnchecked(p) ==
  /\ InCall(p)
  /\ p \notin KProgs
  /\ runq' = Rotate(runq)
  /\ vm' = "switch"
  /\ builtin' = Over(p)
  /\ Forget(p)
  /\ UNCHANGED <<state, kill, hook, host, chanvars, slot>>

(***************************************************************************)
(* The instruction that left xec is done; irestore has set R.IC to 1, so   *)
(* this is the end of the quantum.  After a built-in mcall looks at kill,  *)
(* and a prog that has it set exits instead; nothing else looks.           *)
(***************************************************************************)
Return(p) ==
  /\ InCall(p)
  /\ p \notin KProgs /\ (p \in builtin => ~kill[p])
  /\ runq' = Rotate(runq)
  /\ vm' = "switch"
  /\ builtin' = Over(p)
  /\ Forget(p)
  /\ UNCHANGED <<state, kill, hook, host, chanvars, slot>>

(***************************************************************************)
(* csend and crecv.  Without a partner ccom queues p and cblock sets its   *)
(* hook and releases the machine; the Sleep that follows is a step of its  *)
(* own, and returns at once if the hook has run by then.  From xec only a  *)
(* built-in comes here; with kill set it is the last thing the prog does.  *)
(***************************************************************************)
CSendRecv(p, c, d) ==
  /\ InXec(p) \/ InCall(p)
  /\ \/ /\ ~Waiting(c, Dual(d))
        /\ builtin' = IF vm = "run" THEN builtin \cup {p} ELSE builtin
        /\ wait' = [wait EXCEPT ![c][d] = Append(@, p)]
        /\ hook' = [hook EXCEPT ![p] = TRUE]
        /\ Leave(p, "block")
        /\ Forget(p)
        /\ UNCHANGED altp
     \/ /\ Waiting(c, Dual(d))
        /\ Transfer(p, c, d, NoAlt, NoSel, altp)
        /\ builtin' = IF vm = "run" /\ kill[p] THEN builtin \cup {p} ELSE builtin
        /\ vm' = IF kill[p] THEN "call" ELSE vm
        /\ UNCHANGED <<host, at, alt>>
  /\ UNCHANGED <<kill, slot>>

CSend(p, c) == CSendRecv(p, c, "send")

CRecv(p, c) == CSendRecv(p, c, "recv")

CSleep(p) ==
  /\ host[p] = "block" /\ hook[p]
  /\ host' = [host EXCEPT ![p] = "sleep"]
  /\ UNCHANGED <<runq, vm, state, kill, hook, builtin, chanvars, memvars>>

(***************************************************************************)
(* swiproc(q's process): a process asleep in cblock is pulled out with     *)
(* Eintr; one not yet asleep, or already woken, is not.                    *)
(***************************************************************************)
Interrupted(q) ==
  [host EXCEPT ![q] = IF @ = "sleep" /\ hook[q] THEN "intr" ELSE @]

(* The error path of ccom: acquire, leave the channel's list, release. *)
Unqueue(p) ==
  /\ vm = "switch" /\ host[p] = "intr"
  /\ wait' = [c \in Chans |-> [d \in Dirs |-> RemoveFirst(wait[c][d], p)]]
  /\ state' = [state EXCEPT ![p] = "Prelease"]
  /\ host' = [host EXCEPT ![p] = "work"]
  /\ UNCHANGED <<runq, vm, kill, hook, builtin, altp, memvars>>

-----------------------------------------------------------------------------
(* killprog(q) by the prog or kernel process k that writes to /prog/q/ctl. *)

Kills(k) == InCall(k) /\ k \in builtin \cup KProgs

(* k is the head of the run queue: it finds out when the built-in returns. *)
KillSelf(k) ==
  /\ Kills(k) /\ Listed(k)
  /\ kill' = [kill EXCEPT ![k] = TRUE]
  /\ state' = [state EXCEPT ![k] = "Pexiting"]
  /\ UNCHANGED <<runq, vm, hook, host, builtin, chanvars, memvars>>

(* q is outside the machine: leave a note and try to interrupt it. *)
KillReleased(k, q) ==
  /\ Kills(k) /\ Listed(q)
  /\ q # k /\ state[q] = "Prelease"
  /\ kill' = [kill EXCEPT ![q] = TRUE]
  /\ state' = [state EXCEPT ![q] = "Pexiting"]
  /\ host' = Interrupted(q)
  /\ UNCHANGED <<runq, vm, hook, builtin, chanvars, memvars>>

(* Mutant: killprog clears alts but leaves the lists of channels alone. *)
DequeuedAlt(q) ==
  /\ altp' = IF state[q] = "Palt" THEN Unmark(altp, alt[q], q) ELSE altp
  /\ wait' = wait

(***************************************************************************)
(* q waits in a queue of the machine: take it out.  The list to look in is *)
(* that of the channel q's operand holds now.                              *)
(***************************************************************************)
Dequeued(q) ==
  LET d == IF state[q] = "Psend" THEN "send" ELSE "recv" IN
  /\ altp' = IF state[q] = "Palt" THEN Unmark(altp, alt[q], q) ELSE altp
  /\ wait' = IF state[q] \in {"Psend", "Precv"}
             THEN [wait EXCEPT ![slot[at[q]]][d] = RemoveFirst(@, q)]
             ELSE wait

(* Mutant: killprog forgets delrunq. *)
RunqKept(q) == runq

RunqWithout(q) == IF state[q] = "Pready" THEN RemoveFirst(runq, q) ELSE runq

(* q is freed; delprog makes k release and re-acquire the machine. *)
KillQueued(k, q) ==
  /\ Kills(k) /\ Listed(q)
  /\ q # k /\ state[q] \in {"Palt", "Psend", "Precv", "Pready", "Pbroken"}
  /\ ~hook[q]
  /\ Dequeued(q)
  /\ runq' = Tail(RunqWithout(q))
  /\ Free(q, [state EXCEPT ![q] = "none", ![k] = "Prelease"],
             [host EXCEPT ![q] = "none", ![k] = "work"])
  /\ vm' = "switch"
  /\ UNCHANGED slot

(***************************************************************************)
(* A hook left over from a cblock that a kill interrupted is run, and q    *)
(* stays: it had gone on, since the cblock was not in a built-in's call.   *)
(***************************************************************************)
KillHooked(k, q) ==
  /\ Kills(k) /\ Listed(q)
  /\ q # k /\ state[q] \in {"Palt", "Psend", "Precv", "Pready", "Pbroken"}
  /\ hook[q]
  /\ Dequeued(q)
  /\ runq' = RunqWithout(q)
  /\ kill' = [kill EXCEPT ![q] = TRUE]
  /\ hook' = [hook EXCEPT ![q] = FALSE]
  /\ UNCHANGED <<vm, state, host, builtin, memvars>>

Kill(k, q) ==
  \/ k = q /\ KillSelf(k)
  \/ KillReleased(k, q)
  \/ KillQueued(k, q)
  \/ KillHooked(k, q)

-----------------------------------------------------------------------------
Step(p) ==
  \/ \E g \in Globals : ISend(p, g) \/ IRecv(p, g)
  \/ \E a \in AltsOf[p], block \in BOOLEAN : XecAlt(p, a, block)
  \/ EndQuantum(p)
  \/ \E q \in Progs : Spawn(p, q)
  \/ Fault(p) \/ Exit(p) \/ ExitDone(p)
  \/ Release(p) \/ Acquire(p) \/ Return(p)
  \/ \E c \in KChans : CSend(p, c) \/ CRecv(p, c)
  \/ CSleep(p) \/ Unqueue(p)
  \/ \E q \in Progs : Kill(p, q)

Next == Dispatch \/ \E p \in Progs : Step(p)

Spec == Init /\ [][Next]_vars

(***************************************************************************)
(* The host runs every thread: a process in cblock reaches its Sleep, one  *)
(* that was interrupted or wants the machine gets it, and the vmachine     *)
(* that is inside goes on and does not only pass the machine around.       *)
(***************************************************************************)
Fairness ==
  /\ SF_vars(Dispatch)
  /\ \A p \in Progs :
       /\ WF_vars(CSleep(p))
       /\ SF_vars(Acquire(p)) /\ SF_vars(Unqueue(p)) /\ SF_vars(ExitDone(p))
       /\ WF_vars(EndQuantum(p) \/ Return(p) \/ Exit(p))

FairSpec == Spec /\ Fairness

(***************************************************************************)
(* Programs that assign to a channel variable while others communicate on  *)
(* what it held.  Spec is about programs whose channel variables are set   *)
(* once.                                                                   *)
(***************************************************************************)
StoreNext == Next \/ \E p \in Progs, g \in Globals, c \in Chans : Store(p, g, c)

StoreSpec == Init /\ [][StoreNext]_vars
-----------------------------------------------------------------------------
TypeOK ==
  /\ runq \in Seq(Progs)
  /\ vm \in {"switch", "run", "call", "halt"}
  /\ state \in [Progs -> {"none", "Palt", "Psend", "Precv", "Pready",
                         "Prelease", "Pexiting", "Pbroken"}]
  /\ kill \in [Progs -> BOOLEAN]
  /\ hook \in [Progs -> BOOLEAN]
  /\ host \in [Progs -> {"none", "work", "block", "sleep", "intr", "exit"}]
  /\ builtin \subseteq Progs
  /\ wait \in [Chans -> [Dirs -> Seq(Progs)]]
  /\ altp \in [Chans -> [Dirs -> Progs \union {NoProg}]]
  /\ slot \in [Globals -> Chans]
  /\ at \in [Progs -> Globals \union {H}]
  /\ alt \in [Progs -> AltStructs]

(* p is in a list; no prog is in it twice. *)
In(p, s) == \E i \in DOMAIN s : s[i] = p

Distinct(s) == \A i, j \in DOMAIN s : s[i] = s[j] => i = j

(* p is queued on a channel by a csend or crecv that has not ended. *)
InCblock(p) == hook[p] /\ host[p] \in {"block", "sleep", "intr"}

(* p may run: it is ready, or has just killed itself and has yet to find out. *)
MayRun(p) == state[p] = "Pready" \/ (state[p] = "Pexiting" /\ host[p] = "none")

(***************************************************************************)
(* The run queue holds progs that may run and no other, each once: a       *)
(* wake-up, a kill and a return from the host never leave a prog in it     *)
(* twice, which would close the linked list into a ring.  Of the progs     *)
(* nobody has killed it holds all; a killed one that goes on with a hook   *)
(* left over is lost when the hook is run.                                 *)
(***************************************************************************)
RunqInv ==
  /\ Distinct(runq)
  /\ \A p \in Progs : In(p, runq) => MayRun(p)
  /\ \A p \in Progs : MayRun(p) /\ ~kill[p] => In(p, runq)

(***************************************************************************)
(* The lists of the channels hold only progs blocked in isend, irecv,      *)
(* csend or crecv, each once and on one channel: no list keeps a prog that *)
(* was interrupted or freed, whose memory killprog gives back.  And they   *)
(* hold all that wait so, but for a prog that was killed and went on.      *)
(***************************************************************************)
WaitInv ==
  /\ \A c \in Chans, d \in Dirs : Distinct(wait[c][d])
  /\ \A p \in Progs, c, b \in Chans, d, e \in Dirs :
       In(p, wait[c][d]) /\ In(p, wait[b][e]) => c = b /\ d = e
  /\ \A p \in Progs, c \in Chans, d \in Dirs :
       In(p, wait[c][d]) => state[p] \in {"Psend", "Precv"} \/ InCblock(p)
  /\ \A p \in Progs :
       (state[p] \in {"Psend", "Precv"} /\ ~kill[p]) \/ InCblock(p)
         => \E c \in Chans, d \in Dirs : In(p, wait[c][d])
  /\ \A p \in Progs, c \in Chans :
       /\ state[p] = "Psend" => ~In(p, wait[c]["recv"])
       /\ state[p] = "Precv" => ~In(p, wait[c]["send"])

(***************************************************************************)
(* A channel's alt pointer names only a prog that is blocked in an alt     *)
(* with that channel in it: completing, losing or being killed in an alt   *)
(* leaves no pointer behind (altdone).                                     *)
(***************************************************************************)
AltInv ==
  \A c \in Chans, d \in Dirs :
    altp[c][d] # NoProg =>
      /\ state[altp[c][d]] = "Palt"
      /\ c \in ChansOf(alt[altp[c][d]], d)

(***************************************************************************)
(* altmark and altrdy: "Set each channel's alt pointer to the owning       *)
(* prog".  While p is blocked in an alt each of its channels names it, so  *)
(* that a partner can find it, unless p was killed and went on.            *)
(***************************************************************************)
AltRecorded ==
  \A p \in Progs :
    state[p] = "Palt" /\ ~kill[p] =>
      \A d \in Dirs : \A c \in ChansOf(alt[p], d) : altp[c][d] = p

(***************************************************************************)
(* A prog that is killed while it is in a built-in executes no other Dis   *)
(* instruction, and does not wait for one: whatever else happens to it     *)
(* before it is back, mcall finds out.                                     *)
(***************************************************************************)
KilledNeverRuns ==
  \A p \in builtin :
    kill[p] => /\ state[p] \notin {"Palt", "Psend", "Precv"}
               /\ In(p, runq) => InCall(p)

(* prog(3), "kill": "Kill the process."  No killed prog goes on. *)
KilledStops == vm = "run" => ~kill[Head(runq)]

(***************************************************************************)
(* prog(3), "kill": "Kill the process."  A prog that is killed while it    *)
(* waits in csend or crecv does not go on waiting there.                   *)
(***************************************************************************)
KillEndsCblock == \A p \in Progs : kill[p] /\ InCblock(p) ~> ~InCblock(p)

(***************************************************************************)
(* intro(2): threads "are scheduled independently".  A prog that is ready  *)
(* gets to run, whatever the others do to each other.                      *)
(***************************************************************************)
ReadyRuns == \A p \in Progs : state[p] = "Pready" ~> state[p] # "Pready" \/ InXec(p)

(***************************************************************************)
(* Where p can be met: <<c, d>> for a channel and a direction.             *)
(***************************************************************************)
Offers(p) == {cd \in Chans \X Dirs : \/ altp[cd[1]][cd[2]] = p
                                      \/ In(p, wait[cd[1]][cd[2]])}

(***************************************************************************)
(* The entry an alt reports is the one that was performed: its channel is  *)
(* the channel of the communication and it lies on the right side.         *)
(***************************************************************************)
AltResult ==
  \A p \in Progs :
    sel[p] # NoSel /\ last[p] # NoLast =>
      <<last[p][2], sel[p][1], sel[p][2]>> \in Items(alt[p], last[p][3])

(***************************************************************************)
(* The channels implement synchronous communication: see SyncChan.         *)
(***************************************************************************)
Sync == INSTANCE SyncChan WITH offers <- [p \in Progs |-> Offers(p)], NoChan <- H

ImplementsSyncChan == Sync!Spec

-----------------------------------------------------------------------------
(* What RunqInv, WaitInv, AltInv and KilledNeverRuns rest on. *)

(***************************************************************************)
(* The fields of a prog agree: a host thread is at work exactly for a prog *)
(* that is released or exiting; only a cblock, or a kill that interrupted  *)
(* one, leaves a hook; killprog sets kill only where somebody will look.   *)
(***************************************************************************)
HostInv ==
  \A p \in Progs :
    /\ host[p] # "none" => state[p] \in {"Prelease", "Pexiting"}
    /\ state[p] = "Prelease" => host[p] # "none"
    /\ state[p] = "none" => ~hook[p] /\ ~kill[p]
    /\ hook[p] => kill[p] \/ host[p] \in {"block", "sleep"}

(* What a killed prog does is seen by mcall. *)
KillInv == KilledNeverRuns

(* Whoever is inside the machine is the head of the run queue. *)
VmInv == vm \in {"run", "call"} => runq # <<>>

(* A prog blocked in isend or irecv is on the list killprog will look in. *)
AtInv ==
  \A p \in Progs :
    /\ state[p] \in {"Psend", "Precv"} => at[p] \in Globals
    /\ \A c \in Chans, d \in Dirs :
         state[p] \in {"Psend", "Precv"} /\ In(p, wait[c][d]) => c = slot[at[p]]

IndInv ==
  /\ TypeOK
  /\ RunqInv /\ WaitInv /\ AltInv
  /\ HostInv /\ KillInv /\ VmInv /\ AtInv

-----------------------------------------------------------------------------
(* What AltRecorded, AltResult and ImplementsSyncChan rest on besides. *)

(* The channels that altrdy marks for an alt, each with its direction. *)
Marks(a) == (ChansOf(a, "recv") \X {"recv"})
            \union ({a.snd[n] : n \in Before(a)} \X {"send"})

(***************************************************************************)
(* A channel has room for one prog in each direction of alts: altrdy takes *)
(* it whoever has it.  The programs that this is harmless to.              *)
(***************************************************************************)
UnsharedAlts ==
  \A p, q \in Progs : p # q =>
    \A a \in AltsOf[p], b \in AltsOf[q] : Marks(a) \cap Marks(b) = {}

(* What a prog has stored while it waits: nothing, until a partner comes. *)
MemInv ==
  /\ sel \in [Progs -> Nat \X Nat]
  /\ last \in [Progs -> (Progs \union {NoProg}) \X (Chans \union {H}) \X Dirs]
  /\ \A p \in Progs : state[p] = "Palt" => alt[p] \in AltsOf[p] /\ Clash(alt[p]) = {}
  /\ \A p \in Progs :
       (\E c \in Chans, d \in Dirs : altp[c][d] = p \/ In(p, wait[c][d]))
         => sel[p] = NoSel /\ last[p] = NoLast

MeetInv == IndInv /\ MemInv /\ AltRecorded /\ AltResult
=============================================================================
