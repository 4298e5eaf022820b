------------------------------- MODULE Export -------------------------------
(***************************************************************************)
(* The export of a name space, emu/exportfs.c: the requests.  Each         *)
(* connection has a process, exportproc, that reads the messages of its    *)
(* client.  Requests of all connections wait on one list, exq; slaves,     *)
(* which are processes without a connection of their own and live for      *)
(* ever, take them off, perform them and write the replies.  What a        *)
(* request does to the files is in ExportFid; here it is a call that takes *)
(* time.                                                                   *)
(*                                                                         *)
(* An Exq is its connection and its message.  A process is interleaved     *)
(* with others where it has given up exq.l, fs->r.l or exq.qwait, at a     *)
(* device, and before it takes one of these.                               *)
(***************************************************************************)
EXTENDS Integers, FiniteSets, SequencesExt, QLock

CONSTANTS
  Conn,           \* connections
  Tag, FlushTag, Call,
  Slave,          \* bound: processes that can be started as slaves
  NoExq, NoSlave,
  TailRemoved     \* the last of several waiting requests may be removed from
                  \* the list by a flush or when its connection ends

Request == [type : {"T"}, tag : Tag, call : Call]
Tflush  == [type : {"Tflush"}, tag : FlushTag, oldtag : Tag]
Answer  == [type : {"R"}, tag : Tag, call : Call]

Exq == [conn : Conn, msg : Request]

ASSUME ExportAssumption ==
  /\ IsFiniteSet(Slave) /\ NoSlave \notin Slave
  /\ NoExq \notin Exq /\ Tag # {}
  /\ TailRemoved \in BOOLEAN

VARIABLES
  toserver, toclient,   \* of a connection: messages on their way
  down,       \* it has ended
  busy,       \* of its client: tags of requests it waits for
  flushing,   \* and those it has sent a flush for
  ref,        \* Export.r.ref
  work,       \* Export.work of all connections: requests being performed
  shut,       \* of these, the ones noted for shutdown
  epc,        \* where exportproc is
  eq,         \* the Exq it answers
  oldtag,     \* the tag it looks for among the requests being performed
  victim,     \* the slave it interrupts
  head,       \* the list exq.head
  stale,      \* exq.tail is an Exq that was freed
  lost,       \* requests linked behind a freed Exq
  qwait,      \* exq.qwait
  spc,        \* where a slave is
  job         \* the Exq it holds

links  == <<toserver, toclient>>
client == <<down, busy, flushing>>
fs     == <<ref, work, shut>>
exq    == <<head, stale, lost>>
slaves == <<spc, job>>
ehold  == <<eq, oldtag, victim>>
eproc  == <<epc, ehold>>
vars   == <<links, client, fs, eproc, exq, qwait, slaves>>

Init ==
  /\ toserver = [c \in Conn |-> <<>>] /\ toclient = [c \in Conn |-> <<>>]
  /\ down = [c \in Conn |-> FALSE]
  /\ busy = [c \in Conn |-> {}] /\ flushing = [c \in Conn |-> {}]
  /\ ref = [c \in Conn |-> 1] /\ work = {} /\ shut = {}
  /\ epc = [c \in Conn |-> "read"] /\ eq = [c \in Conn |-> NoExq]
  /\ oldtag = [c \in Conn |-> CHOOSE t \in Tag : TRUE]
  /\ victim = [c \in Conn |-> NoSlave]
  /\ head = <<>> /\ stale = FALSE /\ lost = {}
  /\ qwait = QLockFree
  /\ spc = [s \in Slave |-> "unborn"] /\ job = [s \in Slave |-> NoExq]

----------------------------------------------------------------------------
(* The client, and the connection.                                         *)

ClientSend(c, t, d) ==
  /\ ~down[c] /\ t \notin busy[c]
  /\ busy' = [busy EXCEPT ![c] = @ \cup {t}]
  /\ toserver' = [toserver EXCEPT ![c] = Append(@, [type |-> "T", tag |-> t, call |-> d])]
  /\ UNCHANGED <<toclient, down, flushing, fs, eproc, exq, qwait, slaves>>

ClientFlush(c, t, f) ==
  /\ ~down[c] /\ t \in busy[c] \ flushing[c]
  /\ flushing' = [flushing EXCEPT ![c] = @ \cup {t}]
  /\ toserver' = [toserver EXCEPT ![c] = Append(@, [type |-> "Tflush", tag |-> f, oldtag |-> t])]
  /\ UNCHANGED <<toclient, down, busy, fs, eproc, exq, qwait, slaves>>

\* The reply frees the tag; no client waits for an Rflush.
ClientReceive(c) ==
  /\ toclient[c] # <<>>
  /\ busy' = [busy EXCEPT ![c] = @ \ {Head(toclient[c]).tag}]
  /\ flushing' = [flushing EXCEPT ![c] = @ \ {Head(toclient[c]).tag}]
  /\ toclient' = [toclient EXCEPT ![c] = Tail(@)]
  /\ UNCHANGED <<toserver, down, fs, eproc, exq, qwait, slaves>>

Hangup(c) ==
  /\ ~down[c]
  /\ down' = [down EXCEPT ![c] = TRUE]
  /\ toserver' = [toserver EXCEPT ![c] = <<>>]
  /\ toclient' = [toclient EXCEPT ![c] = <<>>]
  /\ busy' = [busy EXCEPT ![c] = {}] /\ flushing' = [flushing EXCEPT ![c] = {}]
  /\ UNCHANGED <<fs, eproc, exq, qwait, slaves>>

----------------------------------------------------------------------------
(* exportproc.                                                             *)

EGoto(c, from, to) == epc[c] = from /\ epc' = [epc EXCEPT ![c] = to]

\* A reply is written; an error of the connection is ignored.
Reply(q) ==
  /\ toclient' = IF down[q.conn] THEN toclient
                 ELSE [toclient EXCEPT ![q.conn] = Append(@, [q.msg EXCEPT !.type = "R"])]
  /\ UNCHANGED toserver

\* exfree: the last one frees the Export.
ExFree(c) == ref' = [ref EXCEPT ![c] = @ - 1]

\* A request goes to the end of the list: exq.tail, if the list is not empty.
ReadRequest(c) ==
  /\ toserver[c] # <<>> /\ Head(toserver[c]).type = "T"
  /\ EGoto(c, "read", "launch")
  /\ toserver' = [toserver EXCEPT ![c] = Tail(@)]
  /\ ref' = [ref EXCEPT ![c] = @ + 1]
  /\ LET q == [conn |-> c, msg |-> Head(toserver[c])] IN
       IF head # <<>> /\ stale
         THEN lost' = lost \cup {q} /\ UNCHANGED head
         ELSE head' = Append(head, q) /\ UNCHANGED lost
  /\ stale' = (head # <<>> /\ stale)
  /\ UNCHANGED <<toclient, client, work, shut, ehold, qwait, slaves>>

\* If no slave waits for its turn, start one.  Whether that works is not
\* looked at.
Launch(c) ==
  /\ EGoto(c, "launch", "wakeup")
  /\ LET unborn == {s \in Slave : spc[s] = "unborn"} IN
       IF qwait.queue # <<>> \/ unborn = {}
         THEN UNCHANGED spc
         ELSE \E s \in unborn : spc' = [spc EXCEPT ![s] = "loop"]
  /\ UNCHANGED <<links, client, fs, ehold, exq, qwait, job>>

(* Mutant: the slaves are not told. *)
WakeNobody(c) ==
  /\ EGoto(c, "wakeup", "read")
  /\ UNCHANGED <<links, client, fs, ehold, exq, qwait, slaves>>

\* Wakeup(&exq.rwait)
WakeSlave(c) ==
  /\ EGoto(c, "wakeup", "read")
  /\ spc' = [s \in Slave |-> IF spc[s] = "asleep" THEN "take" ELSE spc[s]]
  /\ UNCHANGED <<links, client, fs, ehold, exq, qwait, job>>

(* Mutant: the request stays on the list. *)
UnlinkNothing(gone) == UNCHANGED exq

\* Removing the requests at these places of the list leaves the others in
\* their order and exq.tail as it is.
Unlink(gone) ==
  /\ LET kept == DOMAIN head \ gone IN
       \E at \in Bijection(1 .. Cardinality(kept), kept) :
         /\ \A m, n \in DOMAIN at : m < n => at[m] < at[n]
         /\ head' = [n \in DOMAIN at |-> head[at[n]]]
  /\ stale' = (head' # <<>> /\ (stale \/ Len(head) \in gone))
  /\ stale' => stale \/ TailRemoved
  /\ UNCHANGED lost

Flushes(c, q) == q.conn = c /\ q.msg.tag = Head(toserver[c]).oldtag

\* exflush: a request that waits is answered at once; a slave that performs
\* one is interrupted; any other is missed.
ReadFlush(c) ==
  /\ toserver[c] # <<>> /\ Head(toserver[c]).type = "Tflush"
  /\ epc[c] = "read"
  /\ toserver' = [toserver EXCEPT ![c] = Tail(@)]
  /\ \/ \E i \in DOMAIN head :
           /\ Flushes(c, head[i]) /\ \A j \in 1 .. (i - 1) : ~Flushes(c, head[j])
           /\ Unlink({i})
           /\ eq'  = [eq EXCEPT ![c] = head[i]]
           /\ epc' = [epc EXCEPT ![c] = "flushreply"]
           /\ UNCHANGED oldtag
     \/ /\ \A i \in DOMAIN head : ~Flushes(c, head[i])
        /\ oldtag' = [oldtag EXCEPT ![c] = Head(toserver[c]).oldtag]
        /\ epc' = [epc EXCEPT ![c] = "flushwork"]
        /\ UNCHANGED <<exq, eq>>
  /\ UNCHANGED <<toclient, client, fs, victim, qwait, slaves>>

FlushReply(c) ==
  /\ EGoto(c, "flushreply", "read")
  /\ Reply(eq[c])
  /\ ExFree(c)
  /\ eq' = [eq EXCEPT ![c] = NoExq]
  /\ UNCHANGED <<client, work, shut, oldtag, victim, exq, qwait, slaves>>

\* The slave that performs q.
SlaveOf(q) == CHOOSE s \in Slave : job[s] = q /\ spc[s] \in {"call", "unlink"}

FlushWork(c) ==
  /\ epc[c] = "flushwork"
  /\ LET found == {q \in work : q.conn = c /\ q.msg.tag = oldtag[c]} IN
       IF found = {}
         THEN epc' = [epc EXCEPT ![c] = "read"] /\ UNCHANGED victim
         ELSE /\ epc' = [epc EXCEPT ![c] = "interrupt"]
              /\ victim' = [victim EXCEPT ![c] = SlaveOf(CHOOSE q \in found : TRUE)]
  /\ UNCHANGED <<links, client, fs, eq, oldtag, exq, qwait, slaves>>

\* oshostintr(q->slave), when the lock is no longer held: a signal.  The call
\* the slave is in by then ends early, or the interrupt comes to nothing.
\* (os-Linux.c cancels the thread instead; see Fairness.)
Interrupt(c) ==
  /\ epc[c] \in {"interrupt", "shutintr"}
  /\ epc' = [epc EXCEPT ![c] = IF @ = "interrupt" THEN "read" ELSE "shutwork"]
  /\ victim' = [victim EXCEPT ![c] = NoSlave]
  /\ \E ends \in BOOLEAN :
       spc' = [spc EXCEPT ![victim[c]] = IF ends /\ @ = "call" THEN "unlink" ELSE @]
  /\ UNCHANGED <<links, client, fs, eq, oldtag, exq, qwait, job>>

(* Mutant: the requests that are dropped keep their references. *)
ReadErrorKeep(c) ==
  /\ down[c]
  /\ EGoto(c, "read", "shutwork")
  /\ Unlink({i \in DOMAIN head : head[i].conn = c})
  /\ UNCHANGED <<links, client, fs, ehold, qwait, slaves>>

\* exshutdown: the requests that wait are dropped,
ReadError(c) ==
  /\ down[c]
  /\ EGoto(c, "read", "shutwork")
  /\ Unlink({i \in DOMAIN head : head[i].conn = c})
  /\ ref' = [ref EXCEPT ![c] = @ - Cardinality({q \in ToSet(head) : q.conn = c})]
  /\ UNCHANGED <<links, client, work, shut, ehold, qwait, slaves>>

\* the slaves that perform one are interrupted, each once,
ShutWork(c) ==
  /\ EGoto(c, "shutwork", "shutintr")
  /\ \E q \in work \ shut :
       /\ q.conn = c
       /\ shut' = shut \cup {q}
       /\ victim' = [victim EXCEPT ![c] = SlaveOf(q)]
  /\ UNCHANGED <<links, client, ref, work, eq, oldtag, exq, qwait, slaves>>

\* and exportproc leaves.
Exit(c) ==
  /\ EGoto(c, "shutwork", "gone")
  /\ \A q \in work \ shut : q.conn # c
  /\ ExFree(c)
  /\ UNCHANGED <<links, client, work, shut, ehold, exq, qwait, slaves>>

----------------------------------------------------------------------------
(* exslave.                                                                *)

SGoto(s, from, to) == spc[s] = from /\ spc' = [spc EXCEPT ![s] = to]

\* qlock(&exq.qwait)
Enter(s) ==
  /\ SGoto(s, "loop", IF qwait.locked THEN "queued" ELSE "sleep")
  /\ qwait' = QLockTake(qwait, s)
  /\ UNCHANGED <<links, client, fs, eproc, exq, job>>

\* Sleep(&exq.rwait, exwork, nil)
Sleep(s) ==
  /\ SGoto(s, "sleep", IF head # <<>> THEN "take" ELSE "asleep")
  /\ UNCHANGED <<links, client, fs, eproc, exq, qwait, job>>

(* Mutant: the request stays at the head. *)
TakeKeep(s) ==
  /\ SGoto(s, "take", "pass")
  /\ job'  = [job EXCEPT ![s] = IF head = <<>> THEN NoExq ELSE Head(head)]
  /\ UNCHANGED <<links, client, fs, eproc, exq, qwait>>

\* The head of the list, if it is still there.
Take(s) ==
  /\ SGoto(s, "take", "pass")
  /\ job'  = [job EXCEPT ![s] = IF head = <<>> THEN NoExq ELSE Head(head)]
  /\ head' = IF head = <<>> THEN head ELSE Tail(head)
  /\ stale' = (head' # <<>> /\ stale)
  /\ UNCHANGED <<links, client, fs, eproc, lost, qwait>>

(* Mutant: a slave that finds nothing goes on without qunlock. *)
PassKeep(s) ==
  /\ spc[s] = "pass"
  /\ qwait' = IF job[s] = NoExq THEN qwait ELSE QLockPass(qwait)
  /\ spc' = [x \in Slave |->
               IF x = s THEN IF job[s] = NoExq THEN "loop" ELSE "link"
               ELSE IF job[s] # NoExq /\ qwait.queue # <<>> /\ x = Head(qwait.queue)
                 THEN "sleep"
               ELSE spc[x]]
  /\ UNCHANGED <<links, client, fs, eproc, exq, job>>

\* qunlock(&exq.qwait): the next slave has it.
Pass(s) ==
  /\ spc[s] = "pass"
  /\ qwait' = QLockPass(qwait)
  /\ spc' = [x \in Slave |->
               IF x = s THEN IF job[s] = NoExq THEN "loop" ELSE "link"
               ELSE IF qwait.queue # <<>> /\ x = Head(qwait.queue) THEN "sleep"
               ELSE spc[x]]
  /\ UNCHANGED <<links, client, fs, eproc, exq, job>>

Link(s) ==
  /\ SGoto(s, "link", "call")
  /\ work' = work \cup {job[s]}
  /\ UNCHANGED <<links, client, ref, shut, eproc, exq, qwait, job>>

\* The function for the message type returns.
Return(s) ==
  /\ SGoto(s, "call", "unlink")
  /\ UNCHANGED <<links, client, fs, eproc, exq, qwait, job>>

UnlinkWork(s) ==
  /\ SGoto(s, "unlink", "reply")
  /\ work' = work \ {job[s]}
  /\ shut' = shut \ {job[s]}
  /\ UNCHANGED <<links, client, ref, eproc, exq, qwait, job>>

WriteReply(s) ==
  /\ SGoto(s, "reply", "free")
  /\ Reply(job[s])
  /\ UNCHANGED <<client, fs, eproc, exq, qwait, job>>

FreeJob(s) ==
  /\ SGoto(s, "free", "loop")
  /\ ExFree(job[s].conn)
  /\ job' = [job EXCEPT ![s] = NoExq]
  /\ UNCHANGED <<links, client, work, shut, eproc, exq, qwait>>

----------------------------------------------------------------------------
ClientNext(c) ==
  \/ \E t \in Tag, d \in Call : ClientSend(c, t, d)
  \/ \E t \in Tag, f \in FlushTag : ClientFlush(c, t, f)
  \/ ClientReceive(c) \/ Hangup(c)

ExportProc(c) ==
  \/ ReadRequest(c) \/ Launch(c) \/ WakeSlave(c)
  \/ ReadFlush(c) \/ FlushReply(c) \/ FlushWork(c) \/ Interrupt(c)
  \/ ReadError(c) \/ ShutWork(c) \/ Exit(c)

ExSlave(s) ==
  \/ Enter(s) \/ Sleep(s) \/ Take(s) \/ Pass(s) \/ Link(s)
  \/ Return(s) \/ UnlinkWork(s) \/ WriteReply(s) \/ FreeJob(s)

Next == \/ \E c \in Conn : ClientNext(c) \/ ExportProc(c)
        \/ \E s \in Slave : ExSlave(s)

Spec == Init /\ [][Next]_vars

\* Processes are scheduled, and the calls of the devices return.  That is so
\* where an interrupt is a signal; a slave that os-Linux.c cancels is gone.
Fairness == /\ \A c \in Conn : WF_vars(ExportProc(c))
            /\ \A s \in Slave : WF_vars(ExSlave(s))

FairSpec == Spec /\ Fairness

----------------------------------------------------------------------------
(* Properties.                                                             *)

\* The slaves that have an Exq, and the Exqs that are not yet answered.
Busy      == {s \in Slave : job[s] # NoExq}
Unwritten == {job[s] : s \in {x \in Busy : spc[x] # "free"}}
Answering == {eq[c] : c \in {x \in Conn : eq[x] # NoExq}}

\* Requests that are read and not answered.
Accepted == ToSet(head) \cup lost \cup Unwritten \cup Answering

\* What a connection is to its client.  exflush sends no Rflush; Manual(c) is
\* the server the manual asks for, which does.
Pending(c) == IF down[c] THEN {} ELSE {q.msg : q \in {x \in Accepted : x.conn = c}}

Server(c) == INSTANCE StyxServer WITH
  toserver <- toserver[c], toclient <- toclient[c], pending <- Pending(c),
  AnswersFlush <- FALSE

Manual(c) == INSTANCE StyxServer WITH
  toserver <- toserver[c], toclient <- toclient[c], pending <- Pending(c),
  AnswersFlush <- TRUE

ProcStates == {"read", "launch", "wakeup", "flushreply", "flushwork", "interrupt",
               "shutwork", "shutintr", "gone"}

SlaveStates == {"unborn", "loop", "queued", "sleep", "asleep", "take", "pass", "link",
                "call", "unlink", "reply", "free"}

TypeOK ==
  /\ toserver \in [Conn -> Seq(Request \cup Tflush)]
  /\ toclient \in [Conn -> Seq(Answer)]
  /\ down \in [Conn -> BOOLEAN]
  /\ busy \in [Conn -> SUBSET Tag] /\ flushing \in [Conn -> SUBSET Tag]
  /\ ref \in [Conn -> Nat] /\ work \subseteq Exq /\ shut \subseteq work
  /\ epc \in [Conn -> ProcStates]
  /\ eq \in [Conn -> Exq \cup {NoExq}] /\ oldtag \in [Conn -> Tag]
  /\ victim \in [Conn -> Slave \cup {NoSlave}]
  /\ head \in Seq(Exq) /\ lost \subseteq Exq /\ stale \in BOOLEAN
  /\ qwait \in QLockType(Slave)
  /\ spc \in [Slave -> SlaveStates]
  /\ job \in [Slave -> Exq \cup {NoExq}]

\* A request that was accepted is in one place: on the list where slaves find
\* it, with one slave, or being answered.  It is not performed twice, and not
\* lost.
RequestHeld ==
  /\ IsInjective(head) /\ lost = {}
  /\ \A s, x \in Busy : s # x /\ "free" \notin {spc[s], spc[x]} => job[s] # job[x]
  /\ ToSet(head) \cap (Unwritten \cup Answering) = {}
  /\ Unwritten \cap Answering = {}
  /\ work = {job[s] : s \in {x \in Busy : spc[x] \in {"call", "unlink"}}}

\* An Export is counted once by its exportproc and once by each of its
\* requests, so it is freed when the last of them has done with it and not
\* before.
RefCount ==
  \A c \in Conn :
    ref[c] = (IF epc[c] = "gone" THEN 0 ELSE 1)
             + Cardinality({q \in ToSet(head) \cup lost : q.conn = c})
             + Cardinality({s \in Busy : job[s].conn = c})
             + (IF eq[c] = NoExq THEN 0 ELSE 1)

\* While requests wait no slave sleeps, unless it is about to be woken.
SlaveAwake ==
  (head # <<>> /\ \E s \in Slave : spc[s] = "asleep")
    => \E c \in Conn : epc[c] \in {"launch", "wakeup"}

\* To its client each connection is a file server that answers every request
\* once, with the reply to that request.  It is one that answers no flush,
\* against the manual (FlushesAnswered).
ImplementsServer ==
  /\ \A c \in Conn : Server(c)!ServerInit
  /\ [][\A c \in Conn : Server(c)!ServerStep]_vars

\* The server answers a flush immediately, with an Rflush, and drops the
\* request the flush names (the manual's page on flush).  exflush does not.
FlushesAnswered == [][\A c \in Conn : Manual(c)!ServerStep]_vars

\* Every request is answered, as long as its connection lasts.
EveryRequestAnswered ==
  \A c \in Conn, t \in Tag :
    t \in busy[c] ~> (t \notin busy[c] \/ toclient[c] # <<>>)

----------------------------------------------------------------------------
(* What RequestHeld, RefCount and ImplementsServer rest on.                *)

\* A slave holds an Exq from when it takes one off the list to exfree,
JobInv ==
  \A s \in Slave :
    /\ spc[s] \in {"link", "call", "unlink", "reply", "free"} => job[s] # NoExq
    /\ job[s] # NoExq => spc[s] \in {"pass", "link", "call", "unlink", "reply", "free"}

\* and exportproc while it answers a flush.
EqInv ==
  \A c \in Conn :
    /\ eq[c] # NoExq <=> epc[c] = "flushreply"
    /\ eq[c] # NoExq => eq[c].conn = c

\* The slaves in exq.qwait wait for it, and for nothing else.
QwaitInv ==
  /\ IsInjective(qwait.queue)
  /\ \A i \in DOMAIN qwait.queue : spc[qwait.queue[i]] = "queued"

\* The tags of the messages of one type in a queue, and that none is there
\* twice.
Tags(s, type) == {s[i].tag : i \in {j \in DOMAIN s : s[j].type = type}}

Once(s, type) ==
  \A i, j \in DOMAIN s :
    s[i].type = type /\ s[j].type = type /\ s[i].tag = s[j].tag => i = j

\* The tags of the requests of c that the server has accepted.
Held(c) == {q.msg.tag : q \in {x \in Accepted : x.conn = c}}

\* A tag is in use once: on its way to the server, there, or on its way back.
TagsOnce(c) ==
  IF down[c] THEN toserver[c] = <<>> /\ toclient[c] = <<>>
  ELSE /\ Once(toserver[c], "T") /\ Once(toclient[c], "R")
       /\ Tags(toserver[c], "T") \cup Held(c) \cup Tags(toclient[c], "R") \subseteq busy[c]
       /\ Tags(toserver[c], "T") \cap Held(c) = {}
       /\ Tags(toserver[c], "T") \cap Tags(toclient[c], "R") = {}
       /\ Held(c) \cap Tags(toclient[c], "R") = {}

TagInv ==
  /\ \A q, r \in Accepted : q.conn = r.conn /\ q.msg.tag = r.msg.tag => q = r
  /\ \A c \in Conn : TagsOnce(c)

IndInv ==
  /\ TypeOK /\ stale = FALSE
  /\ JobInv /\ EqInv /\ QwaitInv /\ RequestHeld /\ RefCount /\ TagInv
=============================================================================
