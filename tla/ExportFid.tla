----------------------------- MODULE ExportFid ------------------------------
(***************************************************************************)
(* The fids of an exported name space, emu/exportfs.c: what the slaves do  *)
(* to the Fid structures of one Export and to their channels while they    *)
(* perform requests.  How requests reach the slaves is in Export.          *)
(*                                                                         *)
(* A Fid is named by its number: Exmkfid refuses a number that is in the   *)
(* list, so there is never a second one.  fs->fidlock makes Exmkfid,       *)
(* Exgetfid and Exputfid atomic; f->attached and f->chan are also written  *)
(* without it, and those are steps of their own.                           *)
(*                                                                         *)
(* Two calls can fail when they have closed f->chan already: the fid is    *)
(* then torn, and what happens when its stale channel is used is not       *)
(* followed any further than that it was (harmed).                         *)
(***************************************************************************)
EXTENDS Integers, FiniteSets

CONSTANTS
  Fid,            \* fid numbers
  Slave,          \* slaves at work on this Export
  Chan,           \* bound: channels that can be open at once
  Nil,            \* no channel
  ReuseEarly      \* a client makes a fid again with a number that requests it
                  \* sent before the clunk still use

ASSUME FidAssumption ==
  /\ IsFiniteSet(Slave)
  /\ Fid # {}
  /\ Nil \notin Chan
  /\ ReuseEarly \in BOOLEAN

VARIABLES
  fid,        \* Fid: in the list, ref, attached, chan
  open,       \* channels that are open
  pc, req,    \* of a slave: where it is in its request
  hold,       \* the Fids it has
  ok,         \* it has no error
  owned,      \* fids the client has
  torn,       \* history: fids whose f->chan was closed by a call that failed,
  lost,       \* the channels that were to replace it,
  harmed      \* and that a stale f->chan was used or closed

slaves  == <<pc, req, hold, ok>>
history == <<torn, lost, harmed>>
vars    == <<fid, open, slaves, owned, history>>

NoFid == [here |-> FALSE, ref |-> 0, attached |-> FALSE, chan |-> Nil]

\* "use" is read, write, stat, wstat, and open: calls that leave f->chan.
Op    == {"attach", "clone", "clunk", "walk", "create", "use", "remove"}
Makes == {"attach", "clone"}                \* make newfid
Ends  == {"clunk", "remove"}                \* end the use of fid
Moves == {"walk", "create"}                 \* may replace f->chan

Fcall == [op : Op, fid : Fid, newfid : Fid]

Init ==
  /\ fid = [f \in Fid |-> NoFid] /\ open = {}
  /\ pc = [s \in Slave |-> "idle"]
  /\ req \in [Slave -> {CHOOSE q \in Fcall : TRUE}]
  /\ hold = [s \in Slave |-> {}] /\ ok = [s \in Slave |-> TRUE]
  /\ owned = {}
  /\ torn = {} /\ lost = {} /\ harmed = FALSE

----------------------------------------------------------------------------
(* The client: it uses the fids it has.  It moves a fid only while nothing *)
(* else is asked of it.                                                    *)

AtWork == {s \in Slave : pc[s] # "idle"}

\* Fids that requests in progress use, make, and move.
Using  == {req[s].fid : s \in {x \in AtWork : req[x].op # "attach"}}
Making == {req[s].newfid : s \in {x \in AtWork : req[x].op \in Makes}}
Moving == {req[s].fid : s \in {x \in AtWork : req[x].op \in Moves}}

\* newfid is a fid already when a client asks for it by mistake.
Ask(s, q) ==
  /\ pc[s] = "idle"
  /\ q.op # "attach" => q.fid \in owned \ (Moving \cup Making)
  /\ q.op = "attach" => q.fid = q.newfid
  /\ q.op \in Moves => q.fid \notin Using
  /\ q.op \notin Makes => q.newfid = q.fid
  /\ q.op \in Makes => q.newfid \notin Making
  /\ q.op \in Makes => q.newfid \notin Using \/ (ReuseEarly /\ q.newfid \notin owned)
  /\ owned' = IF q.op \in Ends THEN owned \ {q.fid} ELSE owned
  /\ req' = [req EXCEPT ![s] = q]
  /\ pc'  = [pc EXCEPT ![s] = IF q.op = "attach" THEN "make" ELSE "get"]
  /\ ok'  = [ok EXCEPT ![s] = TRUE]
  /\ UNCHANGED <<fid, open, hold, history>>

----------------------------------------------------------------------------
(* The slaves.                                                             *)

Goto(s, from, to) == pc[s] = from /\ pc' = [pc EXCEPT ![s] = to]

f(s)  == req[s].fid
nf(s) == req[s].newfid

(* Mutant: the request is not counted. *)
ExgetfidUncounted(s) ==
  /\ fid[f(s)].attached
  /\ hold' = [hold EXCEPT ![s] = @ \cup {f(s)}]
  /\ UNCHANGED fid

Exgetfid(s) ==
  /\ fid[f(s)].attached
  /\ fid'  = [fid EXCEPT ![f(s)].ref = @ + 1]
  /\ hold' = [hold EXCEPT ![s] = @ \cup {f(s)}]

Exmkfid(s) ==
  /\ ~fid[nf(s)].here
  /\ fid'  = [fid EXCEPT ![nf(s)] = [here |-> TRUE, ref |-> 1, attached |-> TRUE, chan |-> Nil]]
  /\ hold' = [hold EXCEPT ![s] = @ \cup {nf(s)}]

Get(s) ==
  /\ Goto(s, "get", CASE req[s].op = "clone" -> "make"
                      [] req[s].op = "clunk" -> "detach"
                      [] OTHER -> "device")
  /\ Exgetfid(s)
  /\ UNCHANGED <<open, req, ok, owned, history>>

\* Enofid; a clunk has nothing to do.
GetFails(s) ==
  /\ Goto(s, "get", "idle")
  /\ ~fid[f(s)].attached
  /\ UNCHANGED <<fid, open, req, hold, ok, owned, history>>

Make(s) ==
  /\ Goto(s, "make", "device")
  /\ Exmkfid(s)
  /\ UNCHANGED <<open, req, ok, owned, history>>

\* Einuse
MakeFails(s) ==
  /\ Goto(s, "make", IF hold[s] = {} THEN "idle" ELSE "put")
  /\ fid[nf(s)].here
  /\ ok' = [ok EXCEPT ![s] = FALSE]
  /\ UNCHANGED <<fid, open, req, hold, owned, history>>

\* cclone, and newchan in an attach: any channel that is not open.
NewChan == CHOOSE c \in Chan : c \notin open
Enough  == Chan \ open # {}

\* After harm nothing more is recorded.
Harm == torn' = {} /\ lost' = {} /\ harmed' = TRUE

\* The device is called with f->chan.
UseChan(s) == IF f(s) \in torn THEN Harm ELSE UNCHANGED history

\* f->chan was closed, and the channels in gone are in no fid.
TearChan(s, gone) ==
  IF harmed THEN UNCHANGED history
  ELSE IF f(s) \in torn THEN Harm
  ELSE torn' = torn \cup {f(s)} /\ lost' = lost \cup gone /\ UNCHANGED harmed

\* The device call of an attach or a clone: a new channel.
MakeChan(s) ==
  /\ Goto(s, "device", "put") /\ req[s].op \in Makes
  /\ Enough
  /\ open' = open \cup {NewChan}
  /\ fid'  = [fid EXCEPT ![nf(s)].chan = NewChan]
  /\ UNCHANGED <<req, hold, ok, owned>>
  /\ UseChan(s)

(* Mutant: the fid stays attached. *)
AttachFailsKeep(s) ==
  /\ Goto(s, "device", "put") /\ req[s].op = "attach"
  /\ ok'  = [ok EXCEPT ![s] = FALSE]
  /\ UNCHANGED <<fid, open, req, hold, owned, history>>

\* An attach that fails takes its fid back,
AttachFails(s) ==
  /\ Goto(s, "device", "put") /\ req[s].op = "attach"
  /\ fid' = [fid EXCEPT ![nf(s)].attached = FALSE]
  /\ ok'  = [ok EXCEPT ![s] = FALSE]
  /\ UNCHANGED <<open, req, hold, owned, history>>

\* a clone does not.
CloneFails(s) ==
  /\ Goto(s, "device", "put") /\ req[s].op = "clone"
  /\ ok' = [ok EXCEPT ![s] = FALSE]
  /\ UNCHANGED <<fid, open, req, hold, owned>>
  /\ UseChan(s)

\* A call that leaves f->chan open, whether it fails or not.  A walk to ..
\* may have closed it and then been given the same Chan again, by newchan.
Call(s) ==
  /\ Goto(s, "device", "put") /\ req[s].op \in {"use"} \cup Moves
  /\ UNCHANGED <<fid, open, req, hold, ok, owned>>
  /\ UseChan(s)

(* Mutant: the fid keeps the channel that was closed. *)
MoveDangling(s) ==
  /\ Goto(s, "device", "put") /\ req[s].op \in Moves
  /\ Enough
  /\ open' = (open \ {fid[f(s)].chan}) \cup {NewChan}
  /\ UNCHANGED <<fid, req, hold, ok, owned>>
  /\ UseChan(s)

(* Mutant: the channel that was walked from is not closed. *)
MoveLeak(s) ==
  /\ Goto(s, "device", "put") /\ req[s].op \in Moves
  /\ Enough
  /\ open' = open \cup {NewChan}
  /\ fid'  = [fid EXCEPT ![f(s)].chan = NewChan]
  /\ UNCHANGED <<req, hold, ok, owned>>
  /\ UseChan(s)

\* walk through a mount point, or createdir: the old channel is closed.
Move(s) ==
  /\ Goto(s, "device", "put") /\ req[s].op \in Moves
  /\ Enough
  /\ open' = (open \ {fid[f(s)].chan}) \cup {NewChan}
  /\ fid'  = [fid EXCEPT ![f(s)].chan = NewChan]
  /\ UNCHANGED <<req, hold, ok, owned>>
  /\ UseChan(s)

\* createdir closes the old channel, and then the create fails.
CreateFails(s) ==
  /\ Goto(s, "device", "put") /\ req[s].op = "create"
  /\ Enough
  /\ open' = (open \ {fid[f(s)].chan}) \cup {NewChan}
  /\ ok'   = [ok EXCEPT ![s] = FALSE]
  /\ TearChan(s, {NewChan})
  /\ UNCHANGED <<fid, req, hold, owned>>

\* undomount in a walk to .. closes the channel and then cannot clone the one
\* to go on with, or another process has got the Chan by then, so that the
\* clone is another, and the name is not found.
UpFails(s) ==
  /\ Goto(s, "device", "put") /\ req[s].op = "walk"
  /\ \/ /\ open' = open \ {fid[f(s)].chan}
        /\ TearChan(s, {})
     \/ /\ Enough
        /\ open' = (open \ {fid[f(s)].chan}) \cup {NewChan}
        /\ TearChan(s, {NewChan})
  /\ ok' = [ok EXCEPT ![s] = FALSE]
  /\ UNCHANGED <<fid, req, hold, owned>>

Remove(s) ==
  /\ Goto(s, "device", "detach") /\ req[s].op = "remove"
  /\ UNCHANGED <<fid, open, req, hold, ok, owned>>
  /\ UseChan(s)

RemoveFails(s) ==
  /\ Goto(s, "device", "put") /\ req[s].op = "remove"
  /\ ok' = [ok EXCEPT ![s] = FALSE]
  /\ UNCHANGED <<fid, open, req, hold, owned>>
  /\ UseChan(s)

\* f->attached = 0, without the lock.
Detach(s) ==
  /\ Goto(s, "detach", "put")
  /\ fid' = [fid EXCEPT ![f(s)].attached = FALSE]
  /\ UNCHANGED <<open, req, hold, ok, owned, history>>

(* Mutant: a fid that is no longer attached goes although it is in use. *)
ExputfidEarly(x) ==
  IF ~fid[x].attached
    THEN /\ fid'  = [fid EXCEPT ![x] = NoFid]
         /\ open' = open \ {fid[x].chan}
         /\ IF x \in torn THEN Harm ELSE UNCHANGED history
    ELSE /\ fid'  = [fid EXCEPT ![x].ref = @ - 1]
         /\ UNCHANGED <<open, history>>

Exputfid(x) ==
  IF fid[x].ref = 1 /\ ~fid[x].attached
    THEN /\ fid'  = [fid EXCEPT ![x] = NoFid]
         /\ open' = open \ {fid[x].chan}
         /\ IF x \in torn THEN Harm ELSE UNCHANGED history
    ELSE /\ fid'  = [fid EXCEPT ![x].ref = @ - 1]
         /\ UNCHANGED <<open, history>>

\* Exputfid for what the slave holds, fid before newfid; then the reply.
Put(s) ==
  LET x == IF f(s) \in hold[s] THEN f(s) ELSE nf(s) IN
  /\ Goto(s, "put", IF hold[s] = {x} THEN "idle" ELSE "put")
  /\ Exputfid(x)
  /\ hold' = [hold EXCEPT ![s] = @ \ {x}]
  /\ owned' = IF hold[s] = {x} /\ ok[s] /\ req[s].op \in Makes
                THEN owned \cup {nf(s)} ELSE owned
  /\ UNCHANGED <<req, ok>>

\* exfree, when the client is gone and the last request has ended; the next
\* client begins with nothing.
Exfree ==
  /\ AtWork = {}
  /\ open' = open \ {fid[x].chan : x \in Fid}
  /\ fid' = [x \in Fid |-> NoFid]
  /\ owned' = {}
  /\ IF torn # {} THEN Harm ELSE UNCHANGED history
  /\ UNCHANGED slaves

Next ==
  \/ \E s \in Slave :
       \/ \E q \in Fcall : Ask(s, q)
       \/ Get(s) \/ GetFails(s) \/ Make(s) \/ MakeFails(s)
       \/ MakeChan(s) \/ AttachFails(s) \/ Call(s) \/ Move(s)
       \/ CreateFails(s) \/ UpFails(s) \/ Remove(s) \/ Detach(s) \/ Put(s)
  \/ Exfree

Spec == Init /\ [][Next]_vars

\* With devices that may refuse to clone or to remove.
FaultNext == \E s \in Slave : CloneFails(s) \/ RemoveFails(s)

FaultSpec == Init /\ [][Next \/ FaultNext]_vars

----------------------------------------------------------------------------
(* Properties.                                                             *)

TypeOK ==
  /\ fid \in [Fid -> [here : BOOLEAN, ref : Nat, attached : BOOLEAN, chan : Chan \cup {Nil}]]
  /\ open \subseteq Chan
  /\ pc \in [Slave -> {"idle", "get", "make", "device", "detach", "put"}]
  /\ req \in [Slave -> Fcall] /\ hold \in [Slave -> SUBSET Fid] /\ ok \in [Slave -> BOOLEAN]
  /\ owned \subseteq Fid
  /\ torn \subseteq Fid /\ lost \subseteq Chan /\ harmed \in BOOLEAN

\* A Fid counts the requests that use it.  It stays in the list while it is
\* attached or one of them is left, and no longer.
FidHeld ==
  \A x \in Fid :
    /\ fid[x].ref = Cardinality({s \in Slave : x \in hold[s]})
    /\ fid[x].here <=> (fid[x].attached \/ fid[x].ref > 0)

\* A request uses a channel that is open and that no other fid has, unless the
\* fid is torn; this lasts until a torn fid is used or clunked, and then the
\* stale channel may be another fid's.
ChanOpen ==
  ~harmed =>
    /\ \A s \in Slave :
         pc[s] = "device" /\ req[s].op # "attach" /\ f(s) \notin torn
           => fid[f(s)].chan \in open
    /\ \A x, y \in Fid \ torn :
         fid[x].chan = fid[y].chan => x = y \/ fid[x].chan = Nil

\* Every open channel belongs to a fid: none is left open when its fid goes,
\* but those that were to replace the channel of a torn fid.
NoChanLeak == ~harmed => open \subseteq {fid[x].chan : x \in Fid \ torn} \cup lost

\* No stale channel is used or closed.  It happens: see CreateFails, UpFails.
NeverHarmed == ~harmed

\* The server has the fids the client has.  A fid that the client has given
\* up, or that a failed request did not make, is gone when the requests that
\* concern it have ended, so that its number can be used again.
ClientAgrees ==
  \A x \in Fid : /\ x \in owned => fid[x].attached
                 /\ x \notin owned \cup Using \cup Making => ~fid[x].here

----------------------------------------------------------------------------
(* The inductive invariant.                                                *)

\* What a slave holds follows from where it is.
HoldOK(s) ==
  /\ pc[s] \in {"idle", "get"} => hold[s] = {}
  /\ pc[s] = "get" => req[s].op # "attach"
  /\ pc[s] = "make" => /\ req[s].op \in Makes
                       /\ hold[s] = IF req[s].op = "clone" THEN {f(s)} ELSE {}
  /\ pc[s] = "device" => /\ req[s].op # "clunk"
                         /\ hold[s] = (IF req[s].op = "attach" THEN {} ELSE {f(s)})
                                      \cup (IF req[s].op \in Makes THEN {nf(s)} ELSE {})
                         /\ req[s].op = "clone" => f(s) # nf(s)
  /\ pc[s] = "detach" => req[s].op \in Ends /\ hold[s] = {f(s)}
  /\ pc[s] = "put" => /\ hold[s] # {} /\ hold[s] \subseteq {f(s), nf(s)}
                      /\ ok[s] /\ req[s].op \in Makes => nf(s) \in hold[s]
                      /\ ok[s] /\ req[s].op = "clone" => f(s) # nf(s)
  /\ pc[s] # "idle" /\ req[s].op # "clone" => f(s) = nf(s)

HoldInv == \A s \in Slave : HoldOK(s)

\* A fid that is being made is used and made by nobody else.
MakeInv ==
  \A s, t \in AtWork : s # t /\ req[s].op \in Makes =>
    /\ req[t].op # "attach" => f(t) # nf(s)
    /\ req[t].op \in Makes => nf(t) # nf(s)

\* The slave has made fid x, and has yet to set its channel or could not.
Unset(s, x) ==
  /\ req[s].op \in Makes /\ nf(s) = x /\ x \in hold[s]
  /\ \/ pc[s] = "device"
     \/ pc[s] = "put" /\ req[s].op = "attach" /\ ~ok[s]

\* Only such a fid is without a channel, and only a torn one without an open one.
ChanInv ==
  /\ \A x \in Fid : ~fid[x].here => fid[x].chan = Nil
  /\ \A x \in Fid : fid[x].here /\ fid[x].chan = Nil => \E s \in Slave : Unset(s, x)
  /\ \A s \in Slave : pc[s] = "device" /\ req[s].op \in Makes => fid[nf(s)].chan = Nil

OpenInv ==
  ~harmed => /\ \A x \in Fid \ torn : fid[x].chan \in open \cup {Nil}
             /\ \A x \in torn : fid[x].chan # Nil

\* The slave is ending the use of fid x, or has made it for the client.
Answers(s, x) ==
  \/ req[s].op \in Ends /\ f(s) = x /\ pc[s] \in {"get", "device", "detach"}
  \/ /\ req[s].op \in Makes /\ nf(s) = x
     /\ pc[s] = "device" \/ (pc[s] = "put" /\ ok[s])

\* How a request that makes or ends a fid leaves it.
OwnOK(s) ==
  /\ req[s].op \in Makes =>
       /\ pc[s] = "device" => ok[s] /\ fid[nf(s)].attached /\ nf(s) \notin owned
       /\ pc[s] = "put" /\ ok[s] => fid[nf(s)].attached
       /\ pc[s] = "put" /\ ~ok[s] /\ req[s].op = "attach" => ~fid[nf(s)].attached
       /\ pc[s] \in {"get", "make"} => ok[s]
  /\ req[s].op \in Ends => f(s) \notin owned

\* The client's fids are attached, and for any other that is a slave answers.
OwnInv ==
  /\ \A x \in owned : fid[x].attached
  /\ \A x \in Fid : fid[x].attached /\ x \notin owned => \E s \in Slave : Answers(s, x)
  /\ \A s \in AtWork : OwnOK(s)

\* No two fids have the same channel, unless one is torn.
Distinct ==
  ~harmed => \A x, y \in Fid \ torn :
               fid[x].chan = fid[y].chan => x = y \/ fid[x].chan = Nil

IndInv == /\ HoldInv /\ FidHeld
          /\ MakeInv /\ ChanInv /\ OpenInv /\ Distinct /\ NoChanLeak /\ OwnInv
=============================================================================
