---------------------------- MODULE ExportProofs ----------------------------
(***************************************************************************)
(* Proofs about Export, for any connections, tags, calls and slaves, as    *)
(* long as the last of several waiting requests is not removed from the    *)
(* list (TailRemoved): where a request is, who counts an Export, and what  *)
(* the client sees.                                                        *)
(***************************************************************************)
EXTENDS Export, Queues, FiniteSetTheorems, TLAPS

-----------------------------------------------------------------------------
(* Queues. *)

(* A process joins a queue at the back. *)
LEMMA AtBack ==
  ASSUME NEW S, NEW s \in Seq(S), NEW p \in S, Distinct(s), p \notin Members(s)
  PROVE  /\ Append(s, p) \in Seq(S)
         /\ Members(Append(s, p)) = Members(s) \union {p}
         /\ Distinct(Append(s, p))
<1>1. /\ Append(s, p) \in Seq(S) /\ DOMAIN Append(s, p) = 1..(Len(s) + 1)
      /\ Append(s, p)[Len(s) + 1] = p /\ \A i \in 1..Len(s) : Append(s, p)[i] = s[i]
      /\ DOMAIN s = 1..Len(s) /\ Len(s) \in Nat
  OBVIOUS
<1>2. 1..(Len(s) + 1) = 1..Len(s) \union {Len(s) + 1}
  BY <1>1
<1>3. Members(Append(s, p)) = Members(s) \union {p}
  BY <1>1, <1>2 DEF Members
<1>4. Distinct(Append(s, p))
  BY <1>1, <1>2 DEF Distinct, Members
<1> QED
  BY <1>1, <1>3, <1>4

(* The head of a queue leaves it. *)
LEMMA OffHead ==
  ASSUME NEW S, NEW s \in Seq(S), s # <<>>, Distinct(s)
  PROVE  /\ Head(s) \in S /\ Tail(s) \in Seq(S)
         /\ Head(s) \in Members(s)
         /\ Members(Tail(s)) = Members(s) \ {Head(s)}
         /\ Distinct(Tail(s))
<1>1. /\ Head(s) \in S /\ Tail(s) \in Seq(S) /\ Head(s) = s[1]
      /\ DOMAIN s = 1..Len(s) /\ DOMAIN Tail(s) = 1..(Len(s) - 1)
      /\ \A i \in 1..(Len(s) - 1) : Tail(s)[i] = s[i + 1]
      /\ Len(s) \in Nat \ {0}
  OBVIOUS
<1>2. \A i \in 1..Len(s) : i = 1 \/ i - 1 \in 1..(Len(s) - 1)
  BY <1>1
<1>3. \A i \in 1..(Len(s) - 1) : i + 1 \in 1..Len(s) /\ i + 1 # 1
  BY <1>1
<1>4. Head(s) \in Members(s)
  BY <1>1 DEF Members
<1>5. Members(Tail(s)) = Members(s) \ {Head(s)}
  <2>1. \A v \in Members(Tail(s)) : v \in Members(s) \ {Head(s)}
    BY <1>1, <1>3 DEF Members, Distinct
  <2>2. \A i \in 1..Len(s) : i # 1 => s[i] = Tail(s)[i - 1]
    BY <1>1
  <2>3. \A v \in Members(s) \ {Head(s)} : v \in Members(Tail(s))
    BY <1>1, <1>2, <2>2 DEF Members
  <2> QED
    BY <2>1, <2>3
<1>6. Distinct(Tail(s))
  BY <1>1, <1>3 DEF Distinct
<1> QED
  BY <1>1, <1>4, <1>5, <1>6

(* qlock that has to queue, and qunlock. *)
LEMMA TakeForm ==
  ASSUME NEW S, NEW q \in QLockType(S), NEW p \in S,
         Distinct(q.queue), p \notin Members(q.queue)
  PROVE  /\ QLockTake(q, p) \in QLockType(S) /\ QLockTake(q, p).locked
         /\ Distinct(QLockTake(q, p).queue)
         /\ Members(QLockTake(q, p).queue) =
              Members(q.queue) \union IF q.locked THEN {p} ELSE {}
<1>1. CASE q.locked
  <2>1. QLockTake(q, p) = [q EXCEPT !.queue = Append(@, p)] /\ q.queue \in Seq(S)
    BY <1>1 DEF QLockTake, QLockType
  <2>2. /\ Append(q.queue, p) \in Seq(S) /\ Distinct(Append(q.queue, p))
        /\ Members(Append(q.queue, p)) = Members(q.queue) \union {p}
    BY <2>1, AtBack
  <2> QED
    BY <1>1, <2>1, <2>2 DEF QLockType
<1>2. CASE ~q.locked
  BY <1>2 DEF QLockType, QLockTake
<1> QED
  BY <1>1, <1>2

LEMMA PassForm ==
  ASSUME NEW S, NEW q \in QLockType(S), Distinct(q.queue)
  PROVE  /\ QLockPass(q) \in QLockType(S) /\ Distinct(QLockPass(q).queue)
         /\ q.queue = <<>> => ~QLockPass(q).locked /\ QLockPass(q).queue = <<>>
         /\ q.queue # <<>> =>
              /\ QLockPass(q).locked = q.locked
              /\ Head(q.queue) \in S /\ Head(q.queue) \in Members(q.queue)
              /\ Members(QLockPass(q).queue) = Members(q.queue) \ {Head(q.queue)}
<1>1. CASE q.queue = <<>>
  BY <1>1 DEF QLockType, QLockPass
<1>2. CASE q.queue # <<>>
  BY <1>2, OffHead DEF QLockType, QLockPass
<1> QED
  BY <1>1, <1>2

LEMMA MembersType ==
  ASSUME NEW S, NEW q \in QLockType(S)
  PROVE  Members(q.queue) \subseteq S /\ (q.queue = <<>> => Members(q.queue) = {})
BY DEF QLockType, Members

-----------------------------------------------------------------------------

(* The two vocabularies for sequences. *)
LEMMA SameWords ==
  /\ \A s : ToSet(s) = Members(s) /\ (IsInjective(s) <=> Distinct(s))
  /\ QwaitInv <=> /\ Distinct(qwait.queue)
                  /\ \A x \in Members(qwait.queue) : spc[x] = "queued"
  /\ QwaitInv' <=> /\ Distinct(qwait'.queue)
                   /\ \A x \in Members(qwait'.queue) : spc'[x] = "queued"
<1>1. \A s : ToSet(s) = Members(s)
  BY DEF ToSet, Members
<1>2. \A s : IsInjective(s) <=> Distinct(s)
  BY DEF IsInjective, Distinct
<1> QED
  BY <1>1, <1>2 DEF QwaitInv, Members

-----------------------------------------------------------------------------
(* Messages on a connection. *)

LEMMA Sent ==
  ASSUME NEW M, NEW s \in Seq(M), NEW m \in M, NEW type
  PROVE  /\ Append(s, m) \in Seq(M)
         /\ m.type = type => Tags(Append(s, m), type) = Tags(s, type) \cup {m.tag}
         /\ m.type # type => Tags(Append(s, m), type) = Tags(s, type)
         /\ Once(s, type) /\ (m.type = type => m.tag \notin Tags(s, type))
              => Once(Append(s, m), type)
<1> DEFINE n == Append(s, m)
<1>1. /\ n \in Seq(M) /\ Len(s) \in Nat
      /\ DOMAIN s = 1 .. Len(s) /\ DOMAIN n = 1 .. (Len(s) + 1)
      /\ n[Len(s) + 1] = m /\ \A i \in 1 .. Len(s) : n[i] = s[i]
  OBVIOUS
<1> HIDE DEF n
<1>2. 1 .. (Len(s) + 1) = 1 .. Len(s) \cup {Len(s) + 1} /\ Len(s) + 1 \notin 1 .. Len(s)
  BY <1>1
<1>3. \A t : t \in Tags(n, type) <=> t \in Tags(s, type) \/ (m.type = type /\ t = m.tag)
  BY <1>1, <1>2 DEF Tags
<1>4. Once(s, type) /\ (m.type = type => m.tag \notin Tags(s, type)) => Once(n, type)
  BY <1>1, <1>2 DEF Once, Tags
<1> QED
  BY <1>1, <1>3, <1>4 DEF n

LEMMA SentTag ==
  ASSUME NEW M, NEW s \in Seq(M), NEW m \in M, NEW type,
         m.type = type, Once(s, type), m.tag \notin Tags(s, type)
  PROVE  Tags(Append(s, m), type) = Tags(s, type) \cup {m.tag} /\ Once(Append(s, m), type)
<1>1. Tags(Append(s, m), type) = Tags(s, type) \cup {m.tag}
  BY Sent
<1>2. Once(Append(s, m), type)
  BY Sent
<1> QED
  BY <1>1, <1>2

LEMMA SentOther ==
  ASSUME NEW M, NEW s \in Seq(M), NEW m \in M, NEW type, m.type # type, Once(s, type)
  PROVE  Tags(Append(s, m), type) = Tags(s, type) /\ Once(Append(s, m), type)
<1>1. Tags(Append(s, m), type) = Tags(s, type)
  BY Sent
<1>2. Once(Append(s, m), type)
  BY Sent
<1> QED
  BY <1>1, <1>2

LEMMA Received ==
  ASSUME NEW M, NEW s \in Seq(M), s # <<>>, NEW type, Once(s, type)
  PROVE  /\ Head(s) \in M /\ Tail(s) \in Seq(M) /\ Once(Tail(s), type)
         /\ Head(s).type = type =>
              Head(s).tag \in Tags(s, type) /\ Tags(Tail(s), type) = Tags(s, type) \ {Head(s).tag}
         /\ Head(s).type # type => Tags(Tail(s), type) = Tags(s, type)
<1> DEFINE n == Tail(s)
           m == Head(s)
<1>1. /\ n \in Seq(M) /\ m \in M /\ Len(s) \in Nat \ {0} /\ m = s[1]
      /\ DOMAIN s = 1 .. Len(s) /\ DOMAIN n = 1 .. (Len(s) - 1)
      /\ \A i \in 1 .. (Len(s) - 1) : n[i] = s[i + 1]
  OBVIOUS
<1> HIDE DEF n, m
<1>2. \A i \in 1 .. Len(s) : i = 1 \/ (i - 1 \in 1 .. (Len(s) - 1) /\ n[i - 1] = s[i])
  BY <1>1
<1>3. \A i \in 1 .. (Len(s) - 1) : i + 1 \in 1 .. Len(s) /\ i + 1 # 1
  BY <1>1
<1>4. Once(n, type)
  <2> SUFFICES ASSUME NEW i \in 1 .. (Len(s) - 1), NEW j \in 1 .. (Len(s) - 1),
                      n[i].type = type, n[j].type = type, n[i].tag = n[j].tag
               PROVE  i = j
    BY <1>1 DEF Once
  <2>1. s[i + 1].type = type /\ s[j + 1].type = type /\ s[i + 1].tag = s[j + 1].tag
    BY <1>1
  <2>2. i + 1 = j + 1
    BY <1>1, <1>3, <2>1 DEF Once
  <2> QED
    BY <2>2
<1>5. m.type = type => m.tag \in Tags(s, type) /\ m.tag \notin Tags(n, type)
  <2>1. 1 \in 1 .. Len(s) /\ 1 \in DOMAIN s
    BY <1>1
  <2>2. m.type = type => m.tag \in Tags(s, type)
    BY <1>1, <2>1 DEF Tags
  <2>3. ASSUME m.type = type, NEW i \in 1 .. (Len(s) - 1), n[i].type = type
        PROVE  n[i].tag # m.tag
    <3>1. n[i] = s[i + 1] /\ i + 1 \in DOMAIN s /\ i + 1 # 1
      BY <1>1, <1>3
    <3> QED
      BY <1>1, <2>1, <2>3, <3>1 DEF Once
  <2> QED
    BY <1>1, <2>2, <2>3 DEF Tags
<1>6. Tags(n, type) \subseteq Tags(s, type)
  BY <1>1, <1>3 DEF Tags
<1>7. \A t \in Tags(s, type) : t \in Tags(n, type) \/ (m.type = type /\ t = m.tag)
  BY <1>1, <1>2 DEF Tags
<1> QED
  BY <1>1, <1>4, <1>5, <1>6, <1>7 DEF n, m

-----------------------------------------------------------------------------
(* The list of waiting requests. *)

LEMMA Unlinked ==
  ASSUME head \in Seq(Exq), IsInjective(head), stale = FALSE, TailRemoved = FALSE,
         NEW gone, gone \subseteq DOMAIN head, Unlink(gone)
  PROVE  /\ head' \in Seq(Exq) /\ IsInjective(head')
         /\ ToSet(head') = ToSet(head) \ {head[i] : i \in gone}
         /\ stale' = FALSE /\ lost' = lost
<1> DEFINE kept == DOMAIN head \ gone
           n == Cardinality(kept)
<1>1. DOMAIN head = 1 .. Len(head) /\ Len(head) \in Nat
      /\ \A i \in DOMAIN head : head[i] \in Exq
  OBVIOUS
<1>2. n \in Nat
  <2>1. IsFiniteSet(DOMAIN head)
    BY <1>1, FS_Interval
  <2>2. IsFiniteSet(kept)
    BY <2>1, FS_Subset
  <2> QED
    BY <2>2, FS_CardinalityType
<1> HIDE DEF n
<1>3. PICK at \in Bijection(1 .. n, kept) : head' = [k \in DOMAIN at |-> head[at[k]]]
  BY DEF Unlink, n
<1>4. /\ at \in [1 .. n -> kept]
      /\ \A j, k \in 1 .. n : at[j] = at[k] => j = k
      /\ \A i \in kept : \E k \in 1 .. n : at[k] = i
  BY <1>3 DEF Bijection, Injection, Surjection, IsInjective
<1>5. head' = [k \in 1 .. n |-> head[at[k]]]
  BY <1>3, <1>4
<1>6. head' \in [1 .. n -> Exq]
  BY <1>1, <1>4, <1>5
<1>7. head' \in Seq(Exq) /\ DOMAIN head' = 1 .. n
  BY <1>2, <1>6
<1>8. IsInjective(head')
  BY <1>1, <1>4, <1>5, <1>7 DEF IsInjective
<1>9. ToSet(head') = {head[i] : i \in kept}
  BY <1>4, <1>5, <1>7 DEF ToSet
<1>10. {head[i] : i \in kept} = ToSet(head) \ {head[i] : i \in gone}
  BY DEF ToSet, IsInjective
<1> QED
  BY <1>7, <1>8, <1>9, <1>10 DEF Unlink

-----------------------------------------------------------------------------
(* Where the requests are. *)

Writers == {s \in Busy : spc[s] # "free"}

Performing == {s \in Busy : spc[s] \in {"call", "unlink"}}

LEMMA Holders ==
  /\ Unwritten = {job[s] : s \in Writers} /\ Unwritten' = {job'[s] : s \in Writers'}
  /\ RequestHeld <=>
       /\ IsInjective(head) /\ lost = {}
       /\ \A s, x \in Writers : job[s] = job[x] => s = x
       /\ ToSet(head) \cap (Unwritten \cup Answering) = {}
       /\ Unwritten \cap Answering = {}
       /\ work = {job[s] : s \in Performing}
  /\ RequestHeld' <=>
       /\ IsInjective(head') /\ lost' = {}
       /\ \A s, x \in Writers' : job'[s] = job'[x] => s = x
       /\ ToSet(head') \cap (Unwritten' \cup Answering') = {}
       /\ Unwritten' \cap Answering' = {}
       /\ work' = {job'[s] : s \in Performing'}
  BY DEF Unwritten, Writers, Performing, RequestHeld, Busy

Listed(c) == {q \in ToSet(head) \cup lost : q.conn = c}

Working(c) == {s \in Busy : job[s].conn = c}

(* A step that leaves every request where it is. *)
Still ==
  /\ UNCHANGED <<eq, exq, job>>
  /\ Writers' = Writers

LEMMA Aside ==
  ASSUME IndInv, Still
  PROVE  /\ Accepted' = Accepted /\ ToSet(head') = ToSet(head) /\ stale' = FALSE
         /\ work' = {job[s] : s \in Performing'} => RequestHeld'
         /\ UNCHANGED <<links, client>> => TagInv'
         /\ ref' = ref /\ (\A c \in Conn : epc'[c] = "gone" <=> epc[c] = "gone") => RefCount'
<1>1. Unwritten' = Unwritten /\ Answering' = Answering /\ ToSet(head') = ToSet(head)
  BY Holders DEF Still, exq, Answering, ToSet
<1>2. Accepted' = Accepted
  BY <1>1 DEF Accepted, Still, exq
<1>3. work' = {job[s] : s \in Performing'} => RequestHeld'
  BY <1>1, Holders DEF IndInv, Still, exq, IsInjective
<1>4. UNCHANGED <<links, client>> => TagInv'
  <2> SUFFICES ASSUME UNCHANGED <<links, client>> PROVE TagInv'
    OBVIOUS
  <2>1. UNCHANGED <<toserver, toclient, down, busy>>
    BY DEF links, client
  <2>2. \A c : Held(c)' = Held(c)
    BY <1>2 DEF Held
  <2>3. \A c \in Conn : \A y :
          /\ Tags(toserver[c], y)' = Tags(toserver[c], y)
          /\ Tags(toclient[c], y)' = Tags(toclient[c], y)
          /\ Once(toserver[c], y)' = Once(toserver[c], y)
          /\ Once(toclient[c], y)' = Once(toclient[c], y)
    BY <2>1 DEF Tags, Once
  <2> QED
    BY <1>2, <2>1, <2>2, <2>3 DEF IndInv, TagInv, TagsOnce
<1>5. ref' = ref /\ (\A c \in Conn : epc'[c] = "gone" <=> epc[c] = "gone") => RefCount'
  <2>1. \A c : Listed(c)' = Listed(c) /\ Working(c)' = Working(c)
    BY <1>1 DEF Listed, Working, Busy, Still, exq
  <2> QED
    BY <2>1 DEF IndInv, RefCount, Listed, Working, Still
<1> QED
  BY <1>1, <1>2, <1>3, <1>4, <1>5 DEF IndInv, Still, exq

(* Slaves that start, wait or are interrupted. *)
LEMMA Moved ==
  ASSUME IndInv, UNCHANGED <<links, client, eq, exq, job, work>>,
         \A s \in Slave : job[s] # NoExq =>
           /\ spc'[s] = "free" <=> spc[s] = "free"
           /\ spc'[s] \in {"call", "unlink"} <=> spc[s] \in {"call", "unlink"}
  PROVE  /\ RequestHeld' /\ TagInv' /\ Accepted' = Accepted /\ stale' = FALSE
         /\ ref' = ref /\ (\A c \in Conn : epc'[c] = "gone" <=> epc[c] = "gone") => RefCount'
<1>1. Writers' = Writers /\ Performing' = Performing
  BY DEF Writers, Performing, Busy
<1>2. Still
  BY <1>1 DEF Still
<1>3. work' = {job[s] : s \in Performing'}
  BY <1>1, Holders DEF IndInv
<1> QED
  BY <1>2, <1>3, Aside

(* The types of a step that leaves every request where it is. *)
LEMMA TypeMoved ==
  ASSUME TypeOK, UNCHANGED <<links, client, ref, work, eq, oldtag, exq, job>>,
         epc' \in [Conn -> ProcStates], victim' \in [Conn -> Slave \cup {NoSlave}],
         spc' \in [Slave -> SlaveStates], qwait' \in QLockType(Slave), shut' \subseteq work
  PROVE  TypeOK'
  BY DEF TypeOK, links, client, exq

LEMMA LaunchKeeps ==
  ASSUME IndInv, NEW c \in Conn, Launch(c) \/ WakeSlave(c)
  PROVE  IndInv' /\ Accepted' = Accepted
<1>t. TypeOK /\ JobInv /\ EqInv /\ QwaitInv
  BY DEF IndInv
<1>1. /\ epc[c] \in {"launch", "wakeup"} /\ \E l \in {"wakeup", "read"} : epc' = [epc EXCEPT ![c] = l]
      /\ UNCHANGED <<links, client, fs, ehold, exq, qwait, job>>
  BY DEF Launch, WakeSlave, EGoto
<1>2. /\ spc' \in [Slave -> SlaveStates]
      /\ \A s \in Slave : spc'[s] # spc[s] => /\ spc[s] \in {"unborn", "asleep"}
                                             /\ spc'[s] \in {"loop", "take"}
  <2>1. CASE Launch(c)
    BY <1>t, <2>1 DEF Launch, TypeOK, SlaveStates
  <2>2. CASE WakeSlave(c)
    BY <1>t, <2>2 DEF WakeSlave, TypeOK, SlaveStates
  <2> QED
    BY <2>1, <2>2
<1>3. TypeOK'
  <2>1. epc' \in [Conn -> ProcStates]
    BY <1>t, <1>1 DEF TypeOK, ProcStates
  <2>2. shut' \subseteq work /\ victim' \in [Conn -> Slave \cup {NoSlave}]
        /\ qwait' \in QLockType(Slave)
    BY <1>t, <1>1 DEF TypeOK, fs, ehold
  <2>3. UNCHANGED <<links, client, ref, work, eq, oldtag, exq, job>>
    BY <1>1 DEF fs, ehold
  <2> QED
    BY <1>t, <1>2, <2>1, <2>2, <2>3, TypeMoved
<1>4. JobInv' /\ EqInv'
  <2>1. job' = job /\ eq' = eq
    BY <1>1 DEF ehold
  <2>2. JobInv'
    BY <1>t, <1>2, <2>1 DEF JobInv
  <2>3. \A x \in Conn : epc'[x] = "flushreply" <=> epc[x] = "flushreply"
    BY <1>t, <1>1 DEF TypeOK
  <2> QED
    BY <1>t, <2>1, <2>2, <2>3 DEF EqInv
<1>5. QwaitInv'
  <2>1. \A x \in Members(qwait.queue) : spc'[x] = "queued"
    BY <1>t, <1>2, SameWords, MembersType DEF TypeOK
  <2> QED
    BY <1>t, <1>1, <2>1, SameWords
<1>6. RequestHeld' /\ TagInv' /\ Accepted' = Accepted /\ stale' = FALSE /\ RefCount'
  <2>1. \A s \in Slave : job[s] # NoExq => spc'[s] = spc[s]
    BY <1>t, <1>2 DEF JobInv
  <2>2. \A x \in Conn : epc'[x] = "gone" <=> epc[x] = "gone"
    BY <1>t, <1>1 DEF TypeOK
  <2> QED
    BY <1>1, <2>1, <2>2, Moved DEF fs, ehold
<1> QED
  BY <1>3, <1>4, <1>5, <1>6 DEF IndInv

LEMMA LookKeeps ==
  ASSUME IndInv, NEW c \in Conn, FlushWork(c) \/ Interrupt(c) \/ ShutWork(c)
  PROVE  IndInv' /\ Accepted' = Accepted
<1>t. TypeOK /\ JobInv /\ EqInv /\ QwaitInv
  BY DEF IndInv
<1>0. \A q \in work : SlaveOf(q) \in Slave
  BY DEF IndInv, RequestHeld, SlaveOf, Busy
<1>1. /\ epc[c] \in {"flushwork", "interrupt", "shutwork", "shutintr"}
      /\ \E l \in {"read", "interrupt", "shutwork", "shutintr"} : epc' = [epc EXCEPT ![c] = l]
      /\ UNCHANGED <<links, client, ref, work, eq, oldtag, exq, qwait, job>>
  BY DEF FlushWork, Interrupt, ShutWork, EGoto, fs, slaves
<1>2. /\ spc' \in [Slave -> SlaveStates]
      /\ \A s \in Slave : spc'[s] # spc[s] => spc[s] = "call" /\ spc'[s] = "unlink"
  <2>1. CASE FlushWork(c) \/ ShutWork(c)
    BY <1>t, <2>1 DEF FlushWork, ShutWork, TypeOK, slaves
  <2>2. CASE Interrupt(c)
    BY <1>t, <2>2 DEF Interrupt, TypeOK, SlaveStates
  <2> QED
    BY <2>1, <2>2
<1>3. victim' \in [Conn -> Slave \cup {NoSlave}] /\ shut' \subseteq work
  <2>1. CASE FlushWork(c)
    <3> DEFINE found == {q \in work : q.conn = c /\ q.msg.tag = oldtag[c]}
    <3>1. found # {} => SlaveOf(CHOOSE q \in found : TRUE) \in Slave
      BY <1>0
    <3> QED
      BY <1>t, <2>1, <3>1 DEF FlushWork, TypeOK, fs
  <2>2. CASE Interrupt(c)
    BY <1>t, <2>2 DEF Interrupt, TypeOK, fs
  <2>3. CASE ShutWork(c)
    BY <1>t, <1>0, <2>3 DEF ShutWork, TypeOK
  <2> QED
    BY <2>1, <2>2, <2>3
<1>4. TypeOK'
  <2>1. epc' \in [Conn -> ProcStates]
    BY <1>t, <1>1 DEF TypeOK, ProcStates
  <2>2. qwait' \in QLockType(Slave)
    BY <1>t, <1>1 DEF TypeOK
  <2> QED
    BY <1>t, <1>1, <1>2, <1>3, <2>1, <2>2, TypeMoved
<1>5. JobInv' /\ EqInv'
  BY <1>t, <1>1, <1>2 DEF TypeOK, JobInv, EqInv
<1>6. QwaitInv'
  <2>1. \A x \in Members(qwait.queue) : spc'[x] = "queued"
    BY <1>t, <1>2, SameWords, MembersType DEF TypeOK
  <2> QED
    BY <1>t, <1>1, <2>1, SameWords
<1>7. RequestHeld' /\ TagInv' /\ Accepted' = Accepted /\ stale' = FALSE /\ RefCount'
  <2>1. \A s \in Slave : job[s] # NoExq =>
          /\ spc'[s] = "free" <=> spc[s] = "free"
          /\ spc'[s] \in {"call", "unlink"} <=> spc[s] \in {"call", "unlink"}
    BY <1>2
  <2>2. \A x \in Conn : epc'[x] = "gone" <=> epc[x] = "gone"
    BY <1>t, <1>1 DEF TypeOK
  <2>3. ref' = ref /\ UNCHANGED <<links, client, eq, exq, job, work>>
    BY <1>1
  <2> QED
    BY <2>1, <2>2, <2>3, Moved
<1> QED
  BY <1>4, <1>5, <1>6, <1>7 DEF IndInv

(* What a slave that stands in line, waits or performs a request does. *)
LEMMA SlaveMoves ==
  ASSUME IndInv, NEW s \in Slave, Enter(s) \/ Sleep(s) \/ Pass(s) \/ Return(s)
  PROVE  IndInv' /\ Accepted' = Accepted
<1>t. TypeOK /\ JobInv /\ EqInv /\ QwaitInv
  BY DEF IndInv
<1>1. UNCHANGED <<links, client, fs, eproc, exq, job>>
  BY DEF Enter, Sleep, Pass, Return
<1>j. job' = job
  BY <1>1
<1>2. UNCHANGED <<ref, work, shut, epc, eq, oldtag, victim>>
  BY <1>1 DEF fs, eproc, ehold
<1>3. Distinct(qwait.queue) /\ \A x \in Members(qwait.queue) : spc[x] = "queued" /\ x \in Slave
  BY <1>t, SameWords, MembersType DEF TypeOK
<1>4. /\ qwait' \in QLockType(Slave) /\ Distinct(qwait'.queue)
      /\ \A x \in Members(qwait'.queue) : spc'[x] = "queued"
      /\ spc' \in [Slave -> SlaveStates]
      /\ \A x \in Slave : job[x] # NoExq =>
           /\ spc'[x] = "free" <=> spc[x] = "free"
           /\ spc'[x] \in {"call", "unlink"} <=> spc[x] \in {"call", "unlink"}
      /\ JobInv'
  <2>1. CASE Enter(s)
    <3>1. spc[s] = "loop" /\ job[s] = NoExq
      BY <1>t, <2>1 DEF Enter, SGoto, JobInv
    <3>2. s \notin Members(qwait.queue)
      BY <1>3, <3>1
    <3>3. spc' = [spc EXCEPT ![s] = IF qwait.locked THEN "queued" ELSE "sleep"]
      BY <2>1 DEF Enter, SGoto
    <3>4. /\ qwait' \in QLockType(Slave) /\ Distinct(qwait'.queue)
          /\ Members(qwait'.queue) = Members(qwait.queue) \union IF qwait.locked THEN {s} ELSE {}
      <4>1. qwait \in QLockType(Slave) /\ qwait' = QLockTake(qwait, s)
        BY <1>t, <2>1 DEF Enter, TypeOK
      <4> QED
        BY <1>3, <3>2, <4>1, TakeForm
    <3>5. spc' \in [Slave -> SlaveStates] /\ \A x \in Slave \ {s} : spc'[x] = spc[x]
      BY <1>t, <3>3 DEF TypeOK, SlaveStates
    <3>6. \A x \in Members(qwait'.queue) : spc'[x] = "queued"
      BY <1>t, <1>3, <3>2, <3>3, <3>4, <3>5 DEF TypeOK
    <3> QED
      <4>1. spc'[s] \in {"queued", "sleep"}
        BY <1>t, <3>3 DEF TypeOK
      <4> QED
        BY <1>t, <1>j, <3>1, <3>4, <3>5, <3>6, <4>1 DEF JobInv
  <2>2. CASE Sleep(s)
    <3>1. spc[s] = "sleep" /\ job[s] = NoExq
      BY <1>t, <2>2 DEF Sleep, SGoto, JobInv
    <3>2. /\ spc' \in [Slave -> SlaveStates] /\ spc'[s] \in {"take", "asleep"}
          /\ \A x \in Slave \ {s} : spc'[x] = spc[x]
      BY <1>t, <2>2 DEF Sleep, SGoto, TypeOK, SlaveStates
    <3>3. qwait' = qwait /\ s \notin Members(qwait.queue)
      BY <1>3, <2>2, <3>1 DEF Sleep
    <3>4. qwait' \in QLockType(Slave) /\ Distinct(qwait'.queue)
          /\ \A x \in Members(qwait'.queue) : spc'[x] = "queued"
      BY <1>t, <1>3, <3>2, <3>3 DEF TypeOK
    <3> QED
      BY <1>t, <1>j, <3>1, <3>2, <3>4 DEF JobInv
  <2>3. CASE Pass(s)
    <3>1. /\ spc[s] = "pass" /\ s \notin Members(qwait.queue)
          /\ qwait' = QLockPass(qwait)
      BY <1>3, <2>3 DEF Pass
    <3>2. /\ qwait' \in QLockType(Slave) /\ Distinct(qwait'.queue)
          /\ qwait.queue = <<>> => qwait'.queue = <<>>
          /\ qwait.queue # <<>> =>
               /\ Head(qwait.queue) \in Slave /\ Head(qwait.queue) \in Members(qwait.queue)
               /\ Members(qwait'.queue) = Members(qwait.queue) \ {Head(qwait.queue)}
      BY <1>t, <1>3, <3>1, PassForm DEF TypeOK
    <3>3. spc' = [x \in Slave |->
                   IF x = s THEN IF job[s] = NoExq THEN "loop" ELSE "link"
                   ELSE IF qwait.queue # <<>> /\ x = Head(qwait.queue) THEN "sleep"
                   ELSE spc[x]]
      BY <2>3 DEF Pass
    <3>4. spc' \in [Slave -> SlaveStates]
      BY <1>t, <3>3 DEF TypeOK, SlaveStates
    <3>5. /\ spc'[s] = IF job[s] = NoExq THEN "loop" ELSE "link"
          /\ \A x \in Slave \ {s} : spc'[x] = spc[x] \/ (spc[x] = "queued" /\ spc'[x] = "sleep")
      BY <1>3, <3>2, <3>3
    <3>6. \A x \in Members(qwait'.queue) : spc'[x] = "queued"
      <4>1. CASE qwait.queue = <<>>
        BY <3>2, <4>1 DEF Members
      <4>2. CASE qwait.queue # <<>>
        BY <1>3, <3>1, <3>2, <3>3, <4>2
      <4> QED
        BY <4>1, <4>2
    <3> QED
      BY <1>t, <1>j, <3>1, <3>2, <3>4, <3>5, <3>6 DEF JobInv
  <2>4. CASE Return(s)
    <3>1. /\ spc[s] = "call" /\ spc'[s] = "unlink" /\ qwait' = qwait
          /\ spc' \in [Slave -> SlaveStates]
          /\ \A x \in Slave \ {s} : spc'[x] = spc[x]
      BY <1>t, <2>4 DEF Return, SGoto, TypeOK, SlaveStates
    <3>2. qwait' \in QLockType(Slave) /\ Distinct(qwait'.queue)
          /\ \A x \in Members(qwait'.queue) : spc'[x] = "queued"
      BY <1>t, <1>3, <3>1 DEF TypeOK
    <3> QED
      BY <1>t, <1>j, <3>1, <3>2 DEF JobInv
  <2> QED
    BY <2>1, <2>2, <2>3, <2>4
<1>5. TypeOK'
  <2>1. epc' \in [Conn -> ProcStates] /\ victim' \in [Conn -> Slave \cup {NoSlave}] /\ shut' \subseteq work
    BY <1>t, <1>2 DEF TypeOK
  <2> QED
    BY <1>t, <1>1, <1>2, <1>4, <2>1, TypeMoved
<1>6. JobInv' /\ EqInv' /\ QwaitInv'
  <2>1. QwaitInv'
    BY <1>4, SameWords
  <2>3. JobInv'
    BY <1>4
  <2>4. EqInv'
    BY <1>t, <1>2 DEF EqInv
  <2> QED
    BY <2>1, <2>3, <2>4
<1>7. RequestHeld' /\ TagInv' /\ Accepted' = Accepted /\ stale' = FALSE /\ RefCount'
  BY <1>1, <1>2, <1>4, Moved
<1> QED
  BY <1>5, <1>6, <1>7 DEF IndInv

(* A request is noted as being performed, and is no longer. *)
LEMMA WorkKeeps ==
  ASSUME IndInv, NEW s \in Slave, Link(s) \/ UnlinkWork(s)
  PROVE  IndInv' /\ Accepted' = Accepted
<1>t. TypeOK /\ JobInv /\ EqInv /\ QwaitInv
  BY DEF IndInv
<1>1. UNCHANGED <<links, client, ref, eproc, exq, qwait, job>>
  BY DEF Link, UnlinkWork
<1>2. UNCHANGED <<epc, eq, oldtag, victim>>
  BY <1>1 DEF eproc, ehold
<1>j. job' = job
  BY <1>1
<1>3. /\ spc[s] \in {"link", "unlink"} /\ spc'[s] \in {"call", "reply"}
      /\ spc' \in [Slave -> SlaveStates] /\ \A x \in Slave \ {s} : spc'[x] = spc[x]
  BY <1>t DEF Link, UnlinkWork, SGoto, TypeOK, SlaveStates
<1>4. job[s] \in Exq /\ s \in Busy /\ s \in Writers
  BY <1>t, <1>3 DEF JobInv, TypeOK, Busy, Writers
<1>5. Writers' = Writers
  BY <1>j, <1>3 DEF Writers, Busy
<1>6. /\ work = {job[x] : x \in Performing}
      /\ \A x, y \in Writers : job[x] = job[y] => x = y
      /\ Performing \subseteq Writers
  BY Holders DEF IndInv, Performing, Writers
<1>7. work' = {job[x] : x \in Performing'} /\ work' \subseteq Exq /\ shut' \subseteq work'
  <2>1. CASE Link(s)
    <3>1. work' = work \cup {job[s]} /\ shut' = shut /\ spc'[s] = "call"
      BY <1>t, <2>1 DEF Link, SGoto, TypeOK
    <3>2. Performing' = Performing \cup {s}
      BY <1>j, <1>3, <1>4, <3>1 DEF Performing, Busy
    <3> QED
      BY <1>t, <1>4, <1>6, <3>1, <3>2 DEF TypeOK
  <2>2. CASE UnlinkWork(s)
    <3>1. work' = work \ {job[s]} /\ shut' = shut \ {job[s]} /\ spc'[s] = "reply"
      BY <1>t, <2>2 DEF UnlinkWork, SGoto, TypeOK
    <3>2. Performing' = Performing \ {s}
      BY <1>j, <1>3, <1>4, <3>1 DEF Performing, Busy
    <3> QED
      BY <1>t, <1>4, <1>6, <3>1, <3>2 DEF TypeOK
  <2> QED
    BY <2>1, <2>2
<1>8. TypeOK'
  BY <1>t, <1>1, <1>2, <1>3, <1>7 DEF TypeOK, links, client, exq
<1>9. JobInv' /\ EqInv'
  BY <1>t, <1>j, <1>2, <1>3, <1>4 DEF JobInv, EqInv, Busy
<1>10. QwaitInv'
  <2>1. \A x \in Members(qwait.queue) : spc'[x] = "queued"
    BY <1>t, <1>3, SameWords, MembersType DEF TypeOK
  <2> QED
    BY <1>t, <1>1, <2>1, SameWords
<1>11. Still /\ UNCHANGED <<links, client>> /\ ref' = ref /\ epc' = epc
  BY <1>1, <1>2, <1>5 DEF Still
<1>12. RequestHeld' /\ TagInv' /\ Accepted' = Accepted /\ stale' = FALSE /\ RefCount'
  <2>1. work' = {job[x] : x \in Performing'}
    BY <1>7
  <2> QED
    BY <1>11, <2>1, Aside
<1> QED
  BY <1>8, <1>9, <1>10, <1>12 DEF IndInv

(* The sets that RefCount counts. *)
LEMMA Finite ==
  ASSUME TypeOK, lost = {}, NEW c
  PROVE  /\ IsFiniteSet(Listed(c)) /\ Cardinality(Listed(c)) \in Nat
         /\ IsFiniteSet(Working(c)) /\ Cardinality(Working(c)) \in Nat
<1>1. /\ head \in [1 .. Len(head) -> Exq] /\ Len(head) \in Nat
  BY DEF TypeOK
<1>2. head \in Surjection(1 .. Len(head), ToSet(head))
  BY <1>1 DEF Surjection, ToSet
<1>3. IsFiniteSet(1 .. Len(head))
  BY <1>1, FS_Interval
<1>4. IsFiniteSet(ToSet(head))
  BY <1>2, <1>3, FS_Surjection
<1>5. Listed(c) \subseteq ToSet(head) /\ Working(c) \subseteq Slave
  BY DEF Listed, Working, Busy
<1>6. IsFiniteSet(Listed(c)) /\ IsFiniteSet(Working(c))
  BY <1>4, <1>5, FS_Subset, ExportAssumption
<1> QED
  BY <1>6, FS_CardinalityType

(* exportproc leaves: it no longer counts. *)
LEMMA ExitKeeps ==
  ASSUME IndInv, NEW c \in Conn, Exit(c)
  PROVE  IndInv' /\ Accepted' = Accepted
<1>t. TypeOK /\ JobInv /\ EqInv /\ QwaitInv
  BY DEF IndInv
<1>1. /\ epc[c] = "shutwork" /\ epc' = [epc EXCEPT ![c] = "gone"] /\ ref' = [ref EXCEPT ![c] = @ - 1]
      /\ UNCHANGED <<links, client, work, shut, ehold, exq, qwait, slaves>>
  BY DEF Exit, EGoto, ExFree
<1>2. UNCHANGED <<spc, job, eq, oldtag, victim, head, stale, lost>>
  BY <1>1 DEF slaves, ehold, exq
<1>3. Writers' = Writers /\ Performing' = Performing /\ Still
  BY <1>1, <1>2 DEF Writers, Performing, Busy, Still
<1>4. RequestHeld' /\ TagInv' /\ Accepted' = Accepted /\ stale' = FALSE
  <2>1. work' = {job[x] : x \in Performing'} /\ UNCHANGED <<links, client>>
    BY <1>1, <1>3, Holders DEF IndInv
  <2> QED
    BY <1>3, <2>1, Aside
<1>5. ASSUME NEW x \in Conn
      PROVE  /\ Cardinality(Listed(x)) \in Nat /\ Cardinality(Working(x)) \in Nat
             /\ Listed(x)' = Listed(x) /\ Working(x)' = Working(x)
             /\ ref[x] = (IF epc[x] = "gone" THEN 0 ELSE 1) + Cardinality(Listed(x))
                         + Cardinality(Working(x)) + (IF eq[x] = NoExq THEN 0 ELSE 1)
  <2>1. Listed(x)' = Listed(x) /\ Working(x)' = Working(x)
    BY <1>2 DEF Listed, Working, Busy, ToSet
  <2> QED
    BY <1>t, <2>1, Finite DEF IndInv, RequestHeld, RefCount, Listed, Working
<1>6. /\ ref' \in [Conn -> Nat]
      /\ \A x \in Conn : ref'[x] = (IF epc'[x] = "gone" THEN 0 ELSE 1) + Cardinality(Listed(x)')
                         + Cardinality(Working(x)') + (IF eq'[x] = NoExq THEN 0 ELSE 1)
  <2>1. ref'[c] = ref[c] - 1 /\ epc'[c] = "gone"
    BY <1>t, <1>1 DEF TypeOK
  <2>2. \A x \in Conn \ {c} : ref'[x] = ref[x] /\ epc'[x] = epc[x]
    BY <1>t, <1>1 DEF TypeOK
  <2>3. ref[c] = 1 + Cardinality(Listed(c)) + Cardinality(Working(c)) + (IF eq[c] = NoExq THEN 0 ELSE 1)
    BY <1>1, <1>5
  <2>4. ref'[c] \in Nat
    BY <1>5, <2>1, <2>3
  <2>5. ref' \in [Conn -> Nat]
    BY <1>t, <1>1, <2>1, <2>4 DEF TypeOK
  <2>6. ref'[c] = 0 + Cardinality(Listed(c)') + Cardinality(Working(c)') + (IF eq'[c] = NoExq THEN 0 ELSE 1)
    BY <1>2, <1>5, <2>1, <2>3
  <2> QED
    BY <1>2, <1>5, <2>1, <2>2, <2>5, <2>6
<1>7. RefCount'
  BY <1>6 DEF RefCount, Listed, Working
<1>8. TypeOK'
  BY <1>t, <1>1, <1>2, <1>6 DEF TypeOK, links, client, ProcStates
<1>9. JobInv' /\ EqInv' /\ QwaitInv'
  BY <1>t, <1>1, <1>2 DEF JobInv, EqInv, QwaitInv, TypeOK
<1> QED
  BY <1>4, <1>7, <1>8, <1>9 DEF IndInv

-----------------------------------------------------------------------------
(* Steps that move a request, as the tags of the connections see them. *)

LEMMA AcceptedType ==
  ASSUME IndInv
  PROVE  Accepted \subseteq Exq /\ Accepted = ToSet(head) \cup Unwritten \cup Answering
<1>1. ToSet(head) \subseteq Exq
  BY DEF IndInv, TypeOK, ToSet
<1>2. Unwritten \subseteq Exq /\ Answering \subseteq Exq
  BY DEF IndInv, TypeOK, Unwritten, Busy, Answering
<1> QED
  BY <1>1, <1>2 DEF Accepted, IndInv, RequestHeld

LEMMA SameTags ==
  ASSUME NEW c \in Conn, TagsOnce(c), Held(c)' = Held(c),
         toserver'[c] = toserver[c], toclient'[c] = toclient[c],
         down'[c] = down[c], busy'[c] = busy[c]
  PROVE  TagsOnce(c)'
<1>1. \A y : /\ Tags(toserver[c], y)' = Tags(toserver[c], y)
             /\ Tags(toclient[c], y)' = Tags(toclient[c], y)
             /\ Once(toserver[c], y)' = Once(toserver[c], y)
             /\ Once(toclient[c], y)' = Once(toclient[c], y)
  BY DEF Tags, Once
<1> QED
  BY <1>1 DEF TagsOnce

(* A request is answered. *)
LEMMA Answered ==
  ASSUME IndInv, NEW q \in Accepted, Accepted' = Accepted \ {q}, Reply(q), UNCHANGED client
  PROVE  TagInv' /\ toserver' = toserver /\ toclient' \in [Conn -> Seq(Answer)]
<1> DEFINE c == q.conn
           m == [q.msg EXCEPT !.type = "R"]
<1>t. TypeOK /\ TagInv
  BY DEF IndInv
<1>1. /\ c \in Conn /\ q.msg \in Request /\ m \in Answer
      /\ m.type = "R" /\ m.tag = q.msg.tag
  BY AcceptedType DEF Exq, Request, Answer
<1>2. /\ toserver' = toserver /\ down' = down /\ busy' = busy
      /\ toclient' = IF down[c] THEN toclient ELSE [toclient EXCEPT ![c] = Append(@, m)]
  BY DEF Reply, client
<1>3. \A x \in Accepted : x.conn = c /\ x.msg.tag = q.msg.tag => x = q
  BY <1>t DEF TagInv
<1>4. /\ Held(c)' = Held(c) \ {q.msg.tag} /\ q.msg.tag \in Held(c)
      /\ \A x : x # c => Held(x)' = Held(x)
  BY <1>3 DEF Held
<1> HIDE DEF c, m
<1>5. toclient' \in [Conn -> Seq(Answer)]
  BY <1>t, <1>1, <1>2 DEF TypeOK
<1>6. ASSUME NEW x \in Conn, x # c \/ down[x] PROVE TagsOnce(x)'
  <2>1. CASE x # c
    <3>1. toclient'[x] = toclient[x]
      BY <1>t, <1>2, <2>1 DEF TypeOK
    <3> QED
      BY <1>t, <1>2, <1>4, <2>1, <3>1, SameTags DEF TagInv
  <2>2. CASE x = c /\ down[x]
    BY <1>t, <1>2, <2>2 DEF TagInv, TagsOnce
  <2> QED
    BY <1>6, <2>1, <2>2
<1>7. ASSUME ~down[c] PROVE TagsOnce(c)'
  <2>1. toclient[c] \in Seq(Answer) /\ toclient'[c] = Append(toclient[c], m)
    BY <1>t, <1>1, <1>2, <1>7 DEF TypeOK
  <2>2. /\ Once(toserver[c], "T") /\ Once(toclient[c], "R")
        /\ Tags(toserver[c], "T") \cup Held(c) \cup Tags(toclient[c], "R") \subseteq busy[c]
        /\ Tags(toserver[c], "T") \cap Held(c) = {}
        /\ Tags(toserver[c], "T") \cap Tags(toclient[c], "R") = {}
        /\ Held(c) \cap Tags(toclient[c], "R") = {}
    BY <1>t, <1>1, <1>7 DEF TagInv, TagsOnce
  <2>3. /\ Tags(toclient'[c], "R") = Tags(toclient[c], "R") \cup {q.msg.tag}
        /\ Once(toclient'[c], "R")
    <3>1. m.tag \notin Tags(toclient[c], "R") /\ m \in Answer /\ m.type = "R"
      BY <1>1, <1>4, <2>2
    <3>2. toclient[c] \in Seq(Answer) /\ Once(toclient[c], "R")
      BY <2>1, <2>2
    <3>3. /\ Tags(Append(toclient[c], m), "R") = Tags(toclient[c], "R") \cup {m.tag}
          /\ Once(Append(toclient[c], m), "R")
      BY <3>1, <3>2, SentTag
    <3> QED
      BY <1>1, <2>1, <3>3
  <2> QED
    BY <1>2, <1>4, <1>7, <2>2, <2>3 DEF TagsOnce
<1>8. \A x, y \in Accepted' : x.conn = y.conn /\ x.msg.tag = y.msg.tag => x = y
  BY <1>t DEF TagInv
<1>9. TagInv'
  BY <1>1, <1>6, <1>7, <1>8 DEF TagInv
<1> QED
  BY <1>2, <1>5, <1>9

(* A step that concerns one connection. *)
OnlyOn(c) ==
  \A x \in Conn \ {c} :
    /\ toserver'[x] = toserver[x] /\ toclient'[x] = toclient[x]
    /\ down'[x] = down[x] /\ busy'[x] = busy[x]
    /\ Held(x)' = Held(x)

LEMMA OneConn ==
  ASSUME TagInv, NEW c \in Conn, OnlyOn(c), TagsOnce(c)',
         \A q, r \in Accepted' : q.conn = r.conn /\ q.msg.tag = r.msg.tag => q = r
  PROVE  TagInv'
<1>1. ASSUME NEW x \in Conn \ {c} PROVE TagsOnce(x)'
  BY SameTags DEF TagInv, OnlyOn
<1> QED
  BY <1>1 DEF TagInv

(* A request is read. *)
LEMMA Admitted ==
  ASSUME IndInv, NEW c \in Conn, ~down[c], toserver[c] # <<>>, Head(toserver[c]).type = "T",
         toserver' = [toserver EXCEPT ![c] = Tail(@)], toclient' = toclient, UNCHANGED client,
         Accepted' = Accepted \cup {[conn |-> c, msg |-> Head(toserver[c])]}
  PROVE  /\ TagInv' /\ toserver' \in [Conn -> Seq(Request \cup Tflush)]
         /\ [conn |-> c, msg |-> Head(toserver[c])] \in Exq \ Accepted
<1> DEFINE h == Head(toserver[c])
           q == [conn |-> c, msg |-> h]
           M == Request \cup Tflush
<1>t. TypeOK /\ TagInv
  BY DEF IndInv
<1>1. toserver[c] \in Seq(M) /\ toserver'[c] = Tail(toserver[c]) /\ down' = down /\ busy' = busy
  BY <1>t DEF TypeOK, client
<1>2. /\ Once(toserver[c], "T") /\ Once(toclient[c], "R")
      /\ Tags(toserver[c], "T") \cup Held(c) \cup Tags(toclient[c], "R") \subseteq busy[c]
      /\ Tags(toserver[c], "T") \cap Held(c) = {}
      /\ Tags(toserver[c], "T") \cap Tags(toclient[c], "R") = {}
      /\ Held(c) \cap Tags(toclient[c], "R") = {}
  BY <1>t DEF TagInv, TagsOnce
<1>3. h \in M /\ Tail(toserver[c]) \in Seq(M)
  BY <1>1, <1>2, Received
<1> HIDE DEF M
<1>4. /\ h.tag \in Tags(toserver[c], "T") /\ Once(toserver'[c], "T")
      /\ Tags(toserver'[c], "T") = Tags(toserver[c], "T") \ {h.tag}
  <2>1. /\ Once(Tail(toserver[c]), "T")
        /\ h.tag \in Tags(toserver[c], "T")
        /\ Tags(Tail(toserver[c]), "T") = Tags(toserver[c], "T") \ {h.tag}
    BY <1>1, <1>2, Received
  <2> QED
    BY <1>1, <2>1
<1>5. q \in Exq /\ q.conn = c /\ q.msg = h
  <2>1. h \in Request
    BY <1>3 DEF M, Request, Tflush
  <2> QED
    BY <2>1 DEF Exq
<1>6. \A x \in Accepted : x.conn = c => x.msg.tag # h.tag
  BY <1>2, <1>4 DEF Held
<1> HIDE DEF q
<1>7. q \notin Accepted
  BY <1>5, <1>6
<1>8. Accepted' = Accepted \cup {q}
  BY DEF q
<1>9. Held(c)' = Held(c) \cup {h.tag} /\ \A x : x # c => Held(x)' = Held(x)
  BY <1>5, <1>8 DEF Held
<1> HIDE DEF h
<1>10. TagsOnce(c)'
  <2>1. toclient'[c] = toclient[c] /\ ~down'[c] /\ busy'[c] = busy[c]
    BY <1>1
  <2> QED
    BY <1>2, <1>4, <1>9, <2>1 DEF TagsOnce
<1>11. OnlyOn(c)
  BY <1>t, <1>1, <1>9 DEF OnlyOn, TypeOK
<1>12. \A x, y \in Accepted' : x.conn = y.conn /\ x.msg.tag = y.msg.tag => x = y
  BY <1>t, <1>5, <1>6, <1>8 DEF TagInv
<1>13. TagInv'
  BY <1>t, <1>10, <1>11, <1>12, OneConn
<1>14. toserver' \in [Conn -> Seq(M)]
  BY <1>t, <1>3 DEF TypeOK, M
<1> QED
  BY <1>5, <1>7, <1>13, <1>14 DEF M, q, h

(* A flush is read. *)
LEMMA FlushTaken ==
  ASSUME IndInv, NEW c \in Conn, toserver[c] # <<>>, Head(toserver[c]).type = "Tflush",
         toserver' = [toserver EXCEPT ![c] = Tail(@)], toclient' = toclient, UNCHANGED client,
         Accepted' = Accepted
  PROVE  TagInv' /\ toserver' \in [Conn -> Seq(Request \cup Tflush)]
<1> DEFINE M == Request \cup Tflush
<1>t. TypeOK /\ TagInv
  BY DEF IndInv
<1>0. ~down[c]
  BY <1>t DEF TagInv, TagsOnce
<1>1. toserver[c] \in Seq(M) /\ toserver'[c] = Tail(toserver[c]) /\ down' = down /\ busy' = busy
  BY <1>t DEF TypeOK, client
<1>2. Once(toserver[c], "T")
  BY <1>t, <1>0 DEF TagInv, TagsOnce
<1> HIDE DEF M
<1>3. Tail(toserver[c]) \in Seq(M) /\ Once(Tail(toserver[c]), "T")
  BY <1>1, <1>2, Received
<1>4. Tags(Tail(toserver[c]), "T") = Tags(toserver[c], "T")
  BY <1>1, <1>2, Received
<1>5. \A x : Held(x)' = Held(x)
  BY DEF Held
<1>6. TagsOnce(c)'
  <2>1. toclient'[c] = toclient[c] /\ down'[c] = down[c] /\ busy'[c] = busy[c] /\ TagsOnce(c)
    BY <1>t, <1>1 DEF TagInv
  <2> QED
    BY <1>0, <1>1, <1>3, <1>4, <1>5, <2>1 DEF TagsOnce
<1>7. OnlyOn(c)
  BY <1>t, <1>1, <1>5 DEF OnlyOn, TypeOK
<1>8. TagInv'
  BY <1>t, <1>6, <1>7, OneConn DEF TagInv
<1>9. toserver' \in [Conn -> Seq(M)]
  BY <1>t, <1>3 DEF TypeOK, M
<1> QED
  BY <1>8, <1>9 DEF M

(* The waiting requests of a connection that has ended are dropped. *)
LEMMA Dropped ==
  ASSUME IndInv, NEW c \in Conn, down[c], UNCHANGED <<links, client>>,
         Accepted' \subseteq Accepted, \A q \in Accepted \ Accepted' : q.conn = c
  PROVE  TagInv'
<1>t. TypeOK /\ TagInv
  BY DEF IndInv
<1>1. UNCHANGED <<toserver, toclient, down, busy>>
  BY DEF links, client
<1>2. \A x : x # c => Held(x)' = Held(x)
  BY DEF Held
<1>3. OnlyOn(c)
  BY <1>1, <1>2 DEF OnlyOn
<1>4. TagsOnce(c)'
  BY <1>t, <1>1 DEF TagInv, TagsOnce
<1> QED
  BY <1>t, <1>3, <1>4, OneConn DEF TagInv

-----------------------------------------------------------------------------
(* The client, and the connection. *)

LEMMA ClientSame ==
  ASSUME IndInv, UNCHANGED <<fs, eproc, exq, qwait, slaves>>
  PROVE  /\ Accepted' = Accepted /\ \A x : Held(x)' = Held(x)
         /\ toserver' \in [Conn -> Seq(Request \cup Tflush)] /\ toclient' \in [Conn -> Seq(Answer)]
            /\ down' \in [Conn -> BOOLEAN]
            /\ busy' \in [Conn -> SUBSET Tag] /\ flushing' \in [Conn -> SUBSET Tag]
            /\ TagInv' => IndInv'
<1>1. UNCHANGED <<ref, work, shut, epc, eq, oldtag, victim, head, stale, lost, spc, job>>
  BY DEF fs, eproc, ehold, exq, slaves
<1>2. Still /\ Performing' = Performing
  BY <1>1 DEF Still, exq, Writers, Performing, Busy
<1>3. /\ Accepted' = Accepted /\ stale' = FALSE
      /\ RequestHeld' /\ RefCount'
  <2>1. work' = {job[s] : s \in Performing'}
    BY <1>1, <1>2, Holders DEF IndInv
  <2> QED
    BY <1>1, <1>2, <2>1, Aside
<1>4. JobInv' /\ EqInv' /\ QwaitInv'
  BY <1>1 DEF IndInv, JobInv, EqInv, QwaitInv
<1>5. ASSUME toserver' \in [Conn -> Seq(Request \cup Tflush)], toclient' \in [Conn -> Seq(Answer)],
             down' \in [Conn -> BOOLEAN],
             busy' \in [Conn -> SUBSET Tag], flushing' \in [Conn -> SUBSET Tag]
      PROVE  TypeOK'
  BY <1>1, <1>5 DEF IndInv, TypeOK
<1>6. \A x : Held(x)' = Held(x)
  BY <1>3 DEF Held
<1> QED
  BY <1>3, <1>4, <1>5, <1>6 DEF IndInv

LEMMA SendKeeps ==
  ASSUME IndInv, NEW c \in Conn, NEW t \in Tag, NEW d \in Call, ClientSend(c, t, d)
  PROVE  IndInv' /\ Accepted' = Accepted
<1> DEFINE M == Request \cup Tflush
           m == [type |-> "T", tag |-> t, call |-> d]
<1>t. TypeOK /\ TagInv
  BY DEF IndInv
<1>0. /\ UNCHANGED <<fs, eproc, exq, qwait, slaves>>
      /\ toserver' = [toserver EXCEPT ![c] = Append(@, m)] /\ toclient' = toclient
      /\ down' = down /\ ~down[c] /\ t \notin busy[c] /\ flushing' = flushing
      /\ busy' = [busy EXCEPT ![c] = @ \cup {t}]
  BY DEF ClientSend
<1>1. m \in M /\ m.type = "T" /\ m.tag = t
  BY DEF Request
<1> HIDE DEF M, m
<1>2. toserver[c] \in Seq(M) /\ toserver \in [Conn -> Seq(M)]
  BY <1>t DEF TypeOK, M
<1>3. toserver' \in [Conn -> Seq(M)] /\ toserver'[c] = Append(toserver[c], m)
      /\ busy'[c] = busy[c] \cup {t} /\ busy' \in [Conn -> SUBSET Tag]
      /\ \A x \in Conn \ {c} : toserver'[x] = toserver[x] /\ busy'[x] = busy[x]
  BY <1>t, <1>0, <1>1, <1>2 DEF TypeOK
<1>4. TagsOnce(c)
  BY <1>t DEF TagInv
<1>5. /\ Once(toserver'[c], "T")
      /\ Tags(toserver'[c], "T") = Tags(toserver[c], "T") \cup {t}
  <2>1. Once(toserver[c], "T") /\ m.tag \notin Tags(toserver[c], "T")
    BY <1>0, <1>1, <1>4 DEF TagsOnce
  <2>2. Tags(Append(toserver[c], m), "T") = Tags(toserver[c], "T") \cup {m.tag}
        /\ Once(Append(toserver[c], m), "T")
    BY <1>1, <1>2, <2>1, SentTag
  <2> QED
    BY <1>1, <1>3, <2>2
<1>6. Accepted' = Accepted /\ \A x : Held(x)' = Held(x)
  BY <1>0, ClientSame
<1>7. TagsOnce(c)'
  BY <1>0, <1>3, <1>4, <1>5, <1>6 DEF TagsOnce
<1>8. OnlyOn(c)
  BY <1>0, <1>3, <1>6 DEF OnlyOn
<1>9. TagInv'
  BY <1>t, <1>6, <1>7, <1>8, OneConn DEF TagInv
<1>10. /\ toserver' \in [Conn -> Seq(Request \cup Tflush)] /\ toclient' \in [Conn -> Seq(Answer)]
       /\ down' \in [Conn -> BOOLEAN]
       /\ busy' \in [Conn -> SUBSET Tag] /\ flushing' \in [Conn -> SUBSET Tag]
  BY <1>t, <1>0, <1>3 DEF TypeOK, M
<1> QED
  BY <1>0, <1>6, <1>9, <1>10, ClientSame

LEMMA SendFlushKeeps ==
  ASSUME IndInv, NEW c \in Conn, NEW t \in Tag, NEW f \in FlushTag, ClientFlush(c, t, f)
  PROVE  IndInv' /\ Accepted' = Accepted
<1> DEFINE M == Request \cup Tflush
           m == [type |-> "Tflush", tag |-> f, oldtag |-> t]
<1>t. TypeOK /\ TagInv
  BY DEF IndInv
<1>0. /\ UNCHANGED <<fs, eproc, exq, qwait, slaves>>
      /\ toserver' = [toserver EXCEPT ![c] = Append(@, m)] /\ toclient' = toclient
      /\ down' = down /\ ~down[c] /\ busy' = busy
      /\ flushing' = [flushing EXCEPT ![c] = @ \cup {t}]
  BY DEF ClientFlush
<1>1. m \in M /\ m.type = "Tflush" /\ m.type # "T"
  BY DEF Tflush
<1> HIDE DEF M, m
<1>2. toserver[c] \in Seq(M) /\ toserver \in [Conn -> Seq(M)]
  BY <1>t DEF TypeOK, M
<1>3. toserver' \in [Conn -> Seq(M)] /\ toserver'[c] = Append(toserver[c], m)
      /\ flushing' \in [Conn -> SUBSET Tag]
      /\ \A x \in Conn \ {c} : toserver'[x] = toserver[x]
  BY <1>t, <1>0, <1>1, <1>2 DEF TypeOK
<1>4. TagsOnce(c)
  BY <1>t DEF TagInv
<1>5. /\ Once(toserver'[c], "T")
      /\ Tags(toserver'[c], "T") = Tags(toserver[c], "T")
  <2>1. Once(toserver[c], "T")
    BY <1>0, <1>4 DEF TagsOnce
  <2>2. Tags(Append(toserver[c], m), "T") = Tags(toserver[c], "T")
        /\ Once(Append(toserver[c], m), "T")
    BY <1>1, <1>2, <2>1, SentOther
  <2> QED
    BY <1>3, <2>2
<1>6. Accepted' = Accepted /\ \A x : Held(x)' = Held(x)
  BY <1>0, ClientSame
<1>7. TagsOnce(c)'
  BY <1>0, <1>3, <1>4, <1>5, <1>6 DEF TagsOnce
<1>8. OnlyOn(c)
  BY <1>0, <1>3, <1>6 DEF OnlyOn
<1>9. TagInv'
  BY <1>t, <1>6, <1>7, <1>8, OneConn DEF TagInv
<1>10. /\ toserver' \in [Conn -> Seq(Request \cup Tflush)] /\ toclient' \in [Conn -> Seq(Answer)]
       /\ down' \in [Conn -> BOOLEAN]
       /\ busy' \in [Conn -> SUBSET Tag] /\ flushing' \in [Conn -> SUBSET Tag]
  BY <1>t, <1>0, <1>3 DEF TypeOK, M
<1> QED
  BY <1>0, <1>6, <1>9, <1>10, ClientSame

LEMMA ReceiveKeeps ==
  ASSUME IndInv, NEW c \in Conn, ClientReceive(c)
  PROVE  IndInv' /\ Accepted' = Accepted
<1> DEFINE t == Head(toclient[c]).tag
<1>t. TypeOK /\ TagInv
  BY DEF IndInv
<1>0. /\ UNCHANGED <<fs, eproc, exq, qwait, slaves>>
      /\ toclient[c] # <<>> /\ toclient' = [toclient EXCEPT ![c] = Tail(@)]
      /\ toserver' = toserver /\ down' = down
      /\ busy' = [busy EXCEPT ![c] = @ \ {t}]
      /\ flushing' = [flushing EXCEPT ![c] = @ \ {t}]
  BY DEF ClientReceive
<1>1. toclient[c] \in Seq(Answer) /\ toclient \in [Conn -> Seq(Answer)]
  BY <1>t DEF TypeOK
<1>2. /\ toclient'[c] = Tail(toclient[c]) /\ busy'[c] = busy[c] \ {t}
      /\ \A x \in Conn \ {c} : toclient'[x] = toclient[x] /\ busy'[x] = busy[x]
      /\ busy' \in [Conn -> SUBSET Tag] /\ flushing' \in [Conn -> SUBSET Tag]
  BY <1>t, <1>0 DEF TypeOK
<1>3. TagsOnce(c) /\ ~down[c] /\ Once(toclient[c], "R")
  BY <1>t, <1>0 DEF TagInv, TagsOnce
<1>4. Head(toclient[c]) \in Answer /\ Tail(toclient[c]) \in Seq(Answer) /\ Once(Tail(toclient[c]), "R")
  BY <1>0, <1>1, <1>3, Received
<1>5. Head(toclient[c]).type = "R"
  BY <1>4 DEF Answer
<1>6. t \in Tags(toclient[c], "R") /\ Tags(Tail(toclient[c]), "R") = Tags(toclient[c], "R") \ {t}
  BY <1>0, <1>1, <1>3, <1>5, Received
<1> HIDE DEF t
<1>7. Accepted' = Accepted /\ \A x : Held(x)' = Held(x)
  BY <1>0, ClientSame
<1>8. TagsOnce(c)'
  BY <1>0, <1>2, <1>3, <1>4, <1>6, <1>7 DEF TagsOnce
<1>9. OnlyOn(c)
  BY <1>0, <1>2, <1>7 DEF OnlyOn
<1>10. TagInv'
  BY <1>t, <1>7, <1>8, <1>9, OneConn DEF TagInv
<1>11. toclient' \in [Conn -> Seq(Answer)]
  BY <1>0, <1>1, <1>4
<1>12. /\ toserver' \in [Conn -> Seq(Request \cup Tflush)] /\ down' \in [Conn -> BOOLEAN]
  BY <1>t, <1>0 DEF TypeOK
<1> QED
  BY <1>0, <1>2, <1>7, <1>10, <1>11, <1>12, ClientSame

LEMMA HangupKeeps ==
  ASSUME IndInv, NEW c \in Conn, Hangup(c)
  PROVE  IndInv' /\ Accepted' = Accepted
<1>t. TypeOK /\ TagInv
  BY DEF IndInv
<1>0. /\ UNCHANGED <<fs, eproc, exq, qwait, slaves>>
      /\ down' = [down EXCEPT ![c] = TRUE]
      /\ toserver' = [toserver EXCEPT ![c] = <<>>]
      /\ toclient' = [toclient EXCEPT ![c] = <<>>]
      /\ busy' = [busy EXCEPT ![c] = {}] /\ flushing' = [flushing EXCEPT ![c] = {}]
  BY DEF Hangup
<1>1. /\ down' \in [Conn -> BOOLEAN] /\ busy' \in [Conn -> SUBSET Tag]
      /\ flushing' \in [Conn -> SUBSET Tag]
      /\ toserver' \in [Conn -> Seq(Request \cup Tflush)] /\ toclient' \in [Conn -> Seq(Answer)]
  BY <1>t, <1>0 DEF TypeOK
<1>2. /\ down'[c] /\ toserver'[c] = <<>> /\ toclient'[c] = <<>>
      /\ \A x \in Conn \ {c} : /\ toserver'[x] = toserver[x] /\ toclient'[x] = toclient[x]
                               /\ down'[x] = down[x] /\ busy'[x] = busy[x]
  BY <1>t, <1>0 DEF TypeOK
<1>3. Accepted' = Accepted /\ \A x : Held(x)' = Held(x)
  BY <1>0, ClientSame
<1>4. TagsOnce(c)' /\ OnlyOn(c)
  BY <1>2, <1>3 DEF TagsOnce, OnlyOn
<1>5. TagInv'
  BY <1>t, <1>3, <1>4, OneConn DEF TagInv
<1> QED
  BY <1>0, <1>1, <1>3, <1>5, ClientSame

-----------------------------------------------------------------------------
(* Requests move: what counts the Exports. *)

LEMMA Counted ==
  ASSUME IndInv, NEW c \in Conn
  PROVE  /\ Cardinality(Listed(c)) \in Nat /\ Cardinality(Working(c)) \in Nat
         /\ IsFiniteSet(Listed(c)) /\ IsFiniteSet(Working(c))
         /\ ref[c] = (IF epc[c] = "gone" THEN 0 ELSE 1) + Cardinality(Listed(c))
                     + Cardinality(Working(c)) + (IF eq[c] = NoExq THEN 0 ELSE 1)
  BY Finite DEF IndInv, RequestHeld, RefCount, Listed, Working

(* Of a step that concerns one connection. *)
LEMMA Recounted ==
  ASSUME IndInv, NEW c \in Conn, NEW n \in Nat,
         ref' = [ref EXCEPT ![c] = n],
         \A x \in Conn \ {c} : /\ Listed(x)' = Listed(x) /\ Working(x)' = Working(x)
                               /\ epc'[x] = epc[x] /\ eq'[x] = eq[x],
         n = (IF epc'[c] = "gone" THEN 0 ELSE 1) + Cardinality(Listed(c)')
             + Cardinality(Working(c)') + (IF eq'[c] = NoExq THEN 0 ELSE 1)
  PROVE  RefCount' /\ ref' \in [Conn -> Nat]
<1>1. ref' \in [Conn -> Nat] /\ ref'[c] = n /\ \A x \in Conn \ {c} : ref'[x] = ref[x]
  BY DEF IndInv, TypeOK
<1>2. \A x \in Conn :
        ref'[x] = (IF epc'[x] = "gone" THEN 0 ELSE 1) + Cardinality(Listed(x)')
                  + Cardinality(Working(x)') + (IF eq'[x] = NoExq THEN 0 ELSE 1)
  <2>1. ASSUME NEW x \in Conn \ {c}
        PROVE  ref'[x] = (IF epc'[x] = "gone" THEN 0 ELSE 1) + Cardinality(Listed(x)')
                         + Cardinality(Working(x)') + (IF eq'[x] = NoExq THEN 0 ELSE 1)
    BY <1>1, <2>1, Counted
  <2> QED
    BY <1>1, <2>1
<1> QED
  BY <1>1, <1>2 DEF RefCount, Listed, Working

(* What no connection sees. *)
LEMMA SameRequests ==
  ASSUME IndInv, Accepted' = Accepted, UNCHANGED <<links, client>>
  PROVE  TagInv'
<1>1. UNCHANGED <<toserver, toclient, down, busy>>
  BY DEF links, client
<1>2. \A x : Held(x)' = Held(x)
  BY DEF Held
<1>3. \A x \in Conn : TagsOnce(x)'
  BY <1>1, <1>2, SameTags DEF IndInv, TagInv
<1> QED
  BY <1>3 DEF IndInv, TagInv

(* A slave takes the head of the list. *)
LEMMA TakeKeeps ==
  ASSUME IndInv, NEW s \in Slave, Take(s)
  PROVE  IndInv' /\ Accepted' = Accepted
<1>t. TypeOK /\ JobInv /\ EqInv /\ QwaitInv /\ RequestHeld /\ stale = FALSE
  BY DEF IndInv
<1>1. UNCHANGED <<links, client, fs, eproc, lost, qwait>>
  BY DEF Take
<1>2. UNCHANGED <<ref, work, shut, epc, eq, oldtag, victim>>
  BY <1>1 DEF fs, eproc, ehold
<1>3. /\ spc[s] = "take" /\ job[s] = NoExq /\ spc' = [spc EXCEPT ![s] = "pass"]
      /\ spc' \in [Slave -> SlaveStates] /\ spc'[s] = "pass"
      /\ \A x \in Slave \ {s} : spc'[x] = spc[x]
  BY <1>t DEF Take, SGoto, JobInv, TypeOK, SlaveStates
<1>4. stale' = FALSE
  BY <1>t DEF Take
<1>5. QwaitInv'
  <2>1. \A x \in Members(qwait.queue) : spc'[x] = "queued"
    BY <1>t, <1>3, SameWords, MembersType DEF TypeOK
  <2> QED
    BY <1>t, <1>1, <2>1, SameWords
<1>6. EqInv'
  BY <1>t, <1>2 DEF EqInv
<1>7. CASE head = <<>>
  <2>1. head' = head /\ job' = job
    BY <1>t, <1>3, <1>7 DEF Take, TypeOK
  <2>2. UNCHANGED <<links, client, eq, exq, job, work>> /\ ref' = ref /\ epc' = epc
    BY <1>t, <1>1, <1>2, <1>4, <2>1 DEF exq
  <2>3. RequestHeld' /\ TagInv' /\ Accepted' = Accepted /\ RefCount'
    BY <1>3, <2>2, Moved
  <2>4. TypeOK'
    BY <1>t, <1>1, <1>2, <1>3, <2>2, TypeMoved DEF TypeOK
  <2>5. JobInv'
    BY <1>t, <1>3, <2>1 DEF JobInv
  <2> QED
    BY <1>4, <1>5, <1>6, <2>3, <2>4, <2>5 DEF IndInv
<1>8. CASE head # <<>>
  <2>0. PICK q \in Exq : q = Head(head)
    BY <1>t, <1>8 DEF TypeOK
  <2>1. /\ q \in ToSet(head) /\ head' \in Seq(Exq) /\ IsInjective(head')
        /\ ToSet(head') = ToSet(head) \ {q}
    <3>1. head \in Seq(Exq) /\ Distinct(head)
      BY <1>t, SameWords DEF TypeOK, RequestHeld
    <3>2. head' = Tail(head)
      BY <1>8 DEF Take
    <3> QED
      BY <1>8, <2>0, <3>1, <3>2, OffHead, SameWords
  <2>2. job' = [job EXCEPT ![s] = q]
    BY <1>8, <2>0 DEF Take
  <2>3. /\ job' \in [Slave -> Exq \cup {NoExq}] /\ job'[s] = q /\ q # NoExq
        /\ \A x \in Slave \ {s} : job'[x] = job[x]
    BY <1>t, <2>1, <2>2, ExportAssumption DEF TypeOK
  <2>4. Writers' = Writers \cup {s} /\ s \notin Writers /\ s \notin Busy /\ Performing' = Performing
        /\ s \notin Performing
    BY <1>3, <2>3 DEF Writers, Performing, Busy
  <2>5. /\ Unwritten' = Unwritten \cup {q} /\ Answering' = Answering
        /\ work' = {job'[x] : x \in Performing'}
    <3>1. Unwritten' = Unwritten \cup {q}
      BY <2>3, <2>4, Holders DEF Writers, Busy
    <3>2. work' = {job'[x] : x \in Performing'}
      BY <1>t, <1>2, <2>3, <2>4, Holders DEF Performing, Busy
    <3> QED
      BY <1>2, <3>1, <3>2 DEF Answering
  <2>6. /\ IsInjective(head) /\ lost = {}
        /\ \A a, x \in Writers : job[a] = job[x] => a = x
        /\ ToSet(head) \cap (Unwritten \cup Answering) = {}
        /\ Unwritten \cap Answering = {}
    BY <1>t, Holders
  <2>7. \A a, x \in Writers' : job'[a] = job'[x] => a = x
    <3>1. \A x \in Writers : job'[x] = job[x] /\ job[x] \in Unwritten
      BY <2>3, <2>4, Holders DEF Writers, Busy
    <3> QED
      BY <2>1, <2>3, <2>4, <2>6, <3>1
  <2>8. RequestHeld'
    <3>1. lost' = {} /\ ToSet(head') \cap (Unwritten' \cup Answering') = {}
          /\ Unwritten' \cap Answering' = {}
      BY <1>1, <2>1, <2>5, <2>6
    <3> QED
      BY <2>1, <2>5, <2>7, <3>1, Holders
  <2>9. Accepted' = Accepted
    BY <1>1, <2>1, <2>5 DEF Accepted
  <2>10. TagInv'
    BY <1>1, <2>9, SameRequests
  <2>11. PICK d \in Conn : d = q.conn
    BY <2>1 DEF Exq
  <2>12. /\ \A x \in Conn \ {d} : Listed(x)' = Listed(x) /\ Working(x)' = Working(x)
         /\ Listed(d)' = Listed(d) \ {q} /\ q \in Listed(d)
         /\ Working(d)' = Working(d) \cup {s} /\ s \notin Working(d)
    <3>1. \A x : Listed(x)' = Listed(x) \ {q}
      BY <1>1, <2>1, <2>6 DEF Listed
    <3>2. Busy' = Busy \cup {s} /\ \A x \in Busy : job'[x] = job[x]
      BY <2>3, <2>4 DEF Busy
    <3>3. \A x : Working(x)' = IF x = d THEN Working(x) \cup {s} ELSE Working(x)
      BY <2>3, <2>4, <2>11, <3>2 DEF Working
    <3>4. q \in Listed(d) /\ s \notin Working(d) /\ \A x \in Conn \ {d} : q \notin Listed(x)
      BY <2>1, <2>4, <2>11 DEF Listed, Working
    <3>5. \A x \in Conn \ {d} : Listed(x)' = Listed(x)
      BY <3>1, <3>4
    <3> QED
      BY <3>1, <3>3, <3>4, <3>5
  <2>13. /\ Cardinality(Listed(d)') = Cardinality(Listed(d)) - 1
         /\ Cardinality(Working(d)') = Cardinality(Working(d)) + 1
    <3>1. IsFiniteSet(Listed(d)) /\ IsFiniteSet(Working(d))
      BY <2>11, Counted
    <3>2. Cardinality(Listed(d) \ {q}) = Cardinality(Listed(d)) - 1
      BY <2>12, <3>1, FS_RemoveElement
    <3>3. Cardinality(Working(d) \cup {s}) = Cardinality(Working(d)) + 1
      BY <2>12, <3>1, FS_AddElement
    <3> QED
      BY <2>12, <3>2, <3>3
  <2>14. RefCount'
    <3> DEFINE ld == Cardinality(Listed(d))
               wd == Cardinality(Working(d))
    <3>1. /\ ref[d] \in Nat /\ ref' = [ref EXCEPT ![d] = ref[d]]
      BY <1>t, <1>2, <2>11 DEF TypeOK
    <3>2. /\ ld \in Nat /\ wd \in Nat
          /\ ref[d] = (IF epc[d] = "gone" THEN 0 ELSE 1) + ld + wd
                      + (IF eq[d] = NoExq THEN 0 ELSE 1)
      BY <2>11, Counted
    <3>3. Cardinality(Listed(d)') = ld - 1 /\ Cardinality(Working(d)') = wd + 1
      BY <2>13
    <3> HIDE DEF ld, wd
    <3>4. ref[d] = (IF epc[d] = "gone" THEN 0 ELSE 1) + (ld - 1) + (wd + 1)
                   + (IF eq[d] = NoExq THEN 0 ELSE 1)
      BY <3>2
    <3>5. ref[d] = (IF epc'[d] = "gone" THEN 0 ELSE 1) + Cardinality(Listed(d)')
                   + Cardinality(Working(d)') + (IF eq'[d] = NoExq THEN 0 ELSE 1)
      BY <1>2, <3>3, <3>4
    <3>6. \A x \in Conn \ {d} : /\ Listed(x)' = Listed(x) /\ Working(x)' = Working(x)
                                /\ epc'[x] = epc[x] /\ eq'[x] = eq[x]
      BY <1>2, <2>12
    <3> QED
      BY <2>11, <3>1, <3>5, <3>6, Recounted
  <2>15. TypeOK'
    BY <1>t, <1>1, <1>2, <1>3, <1>4, <2>1, <2>3 DEF TypeOK, links, client
  <2>16. JobInv'
    BY <1>t, <1>3, <2>3 DEF JobInv
  <2> QED
    BY <1>4, <1>5, <1>6, <2>8, <2>9, <2>10, <2>14, <2>15, <2>16 DEF IndInv
<1> QED
  BY <1>7, <1>8

(* exportproc reads a request. *)
LEMMA ReadKeeps ==
  ASSUME IndInv, NEW c \in Conn, ReadRequest(c)
  PROVE  /\ IndInv' /\ ~down[c]
         /\ Accepted' = Accepted \cup {[conn |-> c, msg |-> Head(toserver[c])]}
<1>t. TypeOK /\ JobInv /\ EqInv /\ QwaitInv /\ RequestHeld /\ stale = FALSE /\ TagInv
  BY DEF IndInv
<1>0. PICK q : q = [conn |-> c, msg |-> Head(toserver[c])]
  OBVIOUS
<1>1. /\ UNCHANGED <<toclient, client, work, shut, ehold, qwait, slaves>>
      /\ epc[c] = "read" /\ epc' = [epc EXCEPT ![c] = "launch"]
      /\ ref' = [ref EXCEPT ![c] = @ + 1]
      /\ toserver[c] # <<>> /\ Head(toserver[c]).type = "T"
      /\ toserver' = [toserver EXCEPT ![c] = Tail(@)]
  BY DEF ReadRequest, EGoto
<1>2. UNCHANGED <<eq, oldtag, victim, spc, job>>
  BY <1>1 DEF ehold, slaves
<1>3. head' = Append(head, q) /\ lost' = lost /\ stale' = FALSE
  BY <1>t, <1>0 DEF ReadRequest
<1>4. q \in Exq /\ q.conn = c
  <2>1. toserver[c] \in Seq(Request \cup Tflush)
    BY <1>t DEF TypeOK
  <2>2. Head(toserver[c]) \in Request \cup Tflush
    BY <1>1, <2>1
  <2>3. Head(toserver[c]) \in Request
    BY <1>1, <2>2 DEF Tflush
  <2> QED
    BY <1>0, <2>3 DEF Exq
<1>5. head \in Seq(Exq) /\ Distinct(head)
  BY <1>t, SameWords DEF TypeOK, RequestHeld
<1>6. ToSet(head') = ToSet(head) \cup {q}
  <2>1. /\ DOMAIN head' = 1 .. (Len(head) + 1) /\ head'[Len(head) + 1] = q
        /\ DOMAIN head = 1 .. Len(head) /\ Len(head) \in Nat
        /\ \A i \in 1 .. Len(head) : head'[i] = head[i]
    BY <1>3, <1>4, <1>5
  <2>2. 1 .. (Len(head) + 1) = 1 .. Len(head) \cup {Len(head) + 1}
    BY <2>1
  <2> QED
    BY <2>1, <2>2 DEF ToSet
<1>7. Writers' = Writers /\ Unwritten' = Unwritten /\ Answering' = Answering /\ Performing' = Performing
  BY <1>2 DEF Writers, Performing, Unwritten, Answering, Busy
<1>8. Accepted' = Accepted \cup {q}
  BY <1>3, <1>6, <1>7 DEF Accepted
<1>9. ~down[c]
  BY <1>t, <1>1 DEF TagInv, TagsOnce
<1>10. TagInv' /\ toserver' \in [Conn -> Seq(Request \cup Tflush)] /\ q \notin Accepted
  <2>1. Accepted' = Accepted \cup {[conn |-> c, msg |-> Head(toserver[c])]} /\ toclient' = toclient
    BY <1>0, <1>1, <1>8
  <2>2. /\ TagInv' /\ toserver' \in [Conn -> Seq(Request \cup Tflush)]
        /\ [conn |-> c, msg |-> Head(toserver[c])] \in Exq \ Accepted
    BY <1>1, <1>9, <2>1, Admitted
  <2> QED
    BY <1>0, <2>2
<1>11. /\ IsInjective(head') /\ head' \in Seq(Exq)
  <2>1. q \notin Members(head)
    BY <1>10, SameWords DEF Accepted
  <2> QED
    BY <1>3, <1>4, <1>5, <2>1, AtBack, SameWords
<1>12. RequestHeld'
  <2>1. /\ IsInjective(head) /\ lost = {}
        /\ \A a, x \in Writers : job[a] = job[x] => a = x
        /\ ToSet(head) \cap (Unwritten \cup Answering) = {}
        /\ Unwritten \cap Answering = {}
        /\ work = {job[x] : x \in Performing}
    BY <1>t, Holders
  <2>2. ToSet(head') \cap (Unwritten' \cup Answering') = {}
    BY <1>6, <1>7, <1>10, <2>1 DEF Accepted
  <2> QED
    BY <1>1, <1>2, <1>3, <1>7, <1>11, <2>1, <2>2, Holders
<1>13. RefCount' /\ ref' \in [Conn -> Nat]
  <2> DEFINE lc == Cardinality(Listed(c))
             wc == Cardinality(Working(c))
  <2>1. /\ lc \in Nat /\ wc \in Nat /\ IsFiniteSet(Listed(c))
        /\ ref[c] = (IF epc[c] = "gone" THEN 0 ELSE 1) + lc + wc
                    + (IF eq[c] = NoExq THEN 0 ELSE 1)
    BY Counted
  <2>2. Listed(c)' = Listed(c) \cup {q} /\ q \notin Listed(c)
        /\ \A x \in Conn \ {c} : Listed(x)' = Listed(x)
    <3>1. q \notin Listed(c)
      BY <1>10 DEF Listed, Accepted
    <3> QED
      BY <1>3, <1>4, <1>6, <3>1 DEF Listed
  <2>3. \A x : Working(x)' = Working(x)
    BY <1>2 DEF Working, Busy
  <2>4. Cardinality(Listed(c)') = lc + 1 /\ Cardinality(Working(c)') = wc
    <3>1. Cardinality(Listed(c) \cup {q}) = lc + 1
      BY <2>1, <2>2, FS_AddElement
    <3> QED
      BY <2>2, <2>3, <3>1
  <2> HIDE DEF lc, wc
  <2>5. epc[c] # "gone" /\ epc'[c] # "gone" /\ \A x \in Conn \ {c} : epc'[x] = epc[x] /\ eq'[x] = eq[x]
    BY <1>t, <1>1, <1>2 DEF TypeOK
  <2>6. ref[c] + 1 \in Nat /\ ref' = [ref EXCEPT ![c] = ref[c] + 1]
    BY <1>t, <1>1 DEF TypeOK
  <2>7. ref[c] + 1 = (IF epc'[c] = "gone" THEN 0 ELSE 1) + Cardinality(Listed(c)')
                     + Cardinality(Working(c)') + (IF eq'[c] = NoExq THEN 0 ELSE 1)
    BY <1>2, <2>1, <2>4, <2>5
  <2> QED
    BY <2>2, <2>3, <2>5, <2>6, <2>7, Recounted
<1>14. TypeOK'
  <2>1. epc' \in [Conn -> ProcStates]
    BY <1>t, <1>1 DEF TypeOK, ProcStates
  <2> QED
    BY <1>t, <1>1, <1>2, <1>3, <1>10, <1>11, <1>13, <2>1 DEF TypeOK, client
<1>15. JobInv' /\ EqInv' /\ QwaitInv'
  BY <1>t, <1>1, <1>2 DEF JobInv, EqInv, QwaitInv, TypeOK
<1> QED
  BY <1>0, <1>3, <1>8, <1>9, <1>10, <1>12, <1>13, <1>14, <1>15 DEF IndInv

(* A slave writes its reply. *)
LEMMA WriteKeeps ==
  ASSUME IndInv, NEW s \in Slave, WriteReply(s)
  PROVE  /\ IndInv' /\ job[s] \in Accepted
         /\ Accepted' = Accepted \ {job[s]} /\ UNCHANGED client /\ Reply(job[s])
<1>t. TypeOK /\ JobInv /\ EqInv /\ QwaitInv /\ RequestHeld /\ stale = FALSE
  BY DEF IndInv
<1>1. UNCHANGED <<client, fs, eproc, exq, qwait, job>> /\ Reply(job[s])
  BY DEF WriteReply
<1>2. UNCHANGED <<ref, work, shut, epc, eq, oldtag, victim, head, stale, lost>>
  BY <1>1 DEF fs, eproc, ehold, exq
<1>3. /\ spc[s] = "reply" /\ spc' \in [Slave -> SlaveStates] /\ spc'[s] = "free"
      /\ \A x \in Slave \ {s} : spc'[x] = spc[x]
  BY <1>t DEF WriteReply, SGoto, TypeOK, SlaveStates
<1>4. PICK q \in Exq : q = job[s]
  BY <1>t, <1>3 DEF JobInv, TypeOK
<1>j. job' = job
  BY <1>1
<1>5. /\ s \in Writers /\ Writers' = Writers \ {s} /\ Performing' = Performing
  BY <1>t, <1>j, <1>3 DEF Writers, Performing, Busy, JobInv
<1>6. /\ IsInjective(head) /\ lost = {}
      /\ \A a, x \in Writers : job[a] = job[x] => a = x
      /\ ToSet(head) \cap (Unwritten \cup Answering) = {}
      /\ Unwritten \cap Answering = {}
      /\ work = {job[x] : x \in Performing}
  BY <1>t, Holders
<1>7. q \in Unwritten /\ Unwritten' = Unwritten \ {q} /\ Answering' = Answering
      /\ ToSet(head') = ToSet(head)
  <2>1. Unwritten' = Unwritten \ {q} /\ q \in Unwritten
    BY <1>j, <1>4, <1>5, <1>6, Holders
  <2> QED
    BY <1>2, <2>1 DEF Answering, ToSet
<1>8. q \in Accepted /\ Accepted' = Accepted \ {q}
  BY <1>2, <1>6, <1>7 DEF Accepted
<1>9. TagInv' /\ toserver' = toserver /\ toclient' \in [Conn -> Seq(Answer)]
  <2>1. Reply(q) /\ UNCHANGED client
    BY <1>1, <1>4
  <2> QED
    BY <1>8, <2>1, Answered
<1>10. RequestHeld'
  <2>1. \A a, x \in Writers' : job'[a] = job'[x] => a = x
    BY <1>j, <1>5, <1>6
  <2>2. /\ ToSet(head') \cap (Unwritten' \cup Answering') = {}
        /\ Unwritten' \cap Answering' = {}
    BY <1>6, <1>7
  <2>3. IsInjective(head') /\ lost' = {} /\ work' = {job'[x] : x \in Performing'}
    BY <1>j, <1>2, <1>5, <1>6 DEF IsInjective
  <2> QED
    BY <2>1, <2>2, <2>3, Holders
<1>11. RefCount'
  <2>1. \A x : Listed(x)' = Listed(x) /\ Working(x)' = Working(x)
    BY <1>2, <1>j DEF Listed, Working, Busy, ToSet
  <2> QED
    BY <1>2, <2>1 DEF IndInv, RefCount, Listed, Working
<1>12. TypeOK'
  BY <1>t, <1>1, <1>2, <1>3, <1>9 DEF TypeOK, client
<1>13. JobInv' /\ EqInv'
  BY <1>t, <1>j, <1>2, <1>3 DEF JobInv, EqInv
<1>14. QwaitInv'
  <2>1. \A x \in Members(qwait.queue) : spc'[x] = "queued"
    BY <1>t, <1>3, SameWords, MembersType DEF TypeOK
  <2> QED
    BY <1>t, <1>1, <2>1, SameWords
<1>15. stale' = FALSE
  BY <1>t, <1>2
<1> QED
  BY <1>1, <1>4, <1>8, <1>9, <1>10, <1>11, <1>12, <1>13, <1>14, <1>15 DEF IndInv

(* A slave has done with its request. *)
LEMMA FreeKeeps ==
  ASSUME IndInv, NEW s \in Slave, FreeJob(s)
  PROVE  IndInv' /\ Accepted' = Accepted /\ UNCHANGED links
<1>t. TypeOK /\ JobInv /\ EqInv /\ QwaitInv /\ RequestHeld /\ stale = FALSE
  BY DEF IndInv
<1>1. UNCHANGED <<links, client, work, shut, eproc, exq, qwait>>
  BY DEF FreeJob
<1>2. UNCHANGED <<epc, eq, oldtag, victim, head, stale, lost>>
  BY <1>1 DEF eproc, ehold, exq
<1>3. /\ spc[s] = "free" /\ spc' \in [Slave -> SlaveStates] /\ spc'[s] = "loop"
      /\ \A x \in Slave \ {s} : spc'[x] = spc[x]
  BY <1>t DEF FreeJob, SGoto, TypeOK, SlaveStates
<1>4. PICK d \in Conn : job[s].conn = d /\ s \in Busy
  BY <1>t, <1>3 DEF JobInv, TypeOK, Exq, Busy
<1>5. ref' = [ref EXCEPT ![d] = @ - 1] /\ job' = [job EXCEPT ![s] = NoExq]
  BY <1>4 DEF FreeJob, ExFree
<1>6. /\ job' \in [Slave -> Exq \cup {NoExq}] /\ job'[s] = NoExq
      /\ \A x \in Slave \ {s} : job'[x] = job[x]
  BY <1>t, <1>5 DEF TypeOK
<1>7. /\ Writers' = Writers /\ s \notin Writers /\ s \notin Performing
      /\ Performing' = Performing /\ Busy' = Busy \ {s}
      /\ Writers \subseteq Slave /\ Performing \subseteq Slave
  BY <1>3, <1>6 DEF Writers, Performing, Busy
<1>8. /\ IsInjective(head) /\ lost = {}
      /\ \A a, x \in Writers : job[a] = job[x] => a = x
      /\ ToSet(head) \cap (Unwritten \cup Answering) = {}
      /\ Unwritten \cap Answering = {}
      /\ work = {job[x] : x \in Performing}
  BY <1>t, Holders
<1>9. /\ \A x \in Writers \cup Performing : job'[x] = job[x]
  BY <1>6, <1>7
<1>10. /\ Unwritten' = Unwritten /\ Answering' = Answering /\ ToSet(head') = ToSet(head)
       /\ Accepted' = Accepted
  <2>1. Unwritten' = Unwritten
    BY <1>7, <1>9, Holders
  <2>2. Answering' = Answering /\ ToSet(head') = ToSet(head)
    BY <1>2 DEF Answering, ToSet
  <2> QED
    BY <1>2, <2>1, <2>2 DEF Accepted
<1>11. RequestHeld'
  <2>1. \A a, x \in Writers' : job'[a] = job'[x] => a = x
    BY <1>7, <1>8, <1>9
  <2>2. work' = {job'[x] : x \in Performing'}
    BY <1>1, <1>7, <1>8, <1>9
  <2>3. IsInjective(head') /\ lost' = {}
    BY <1>2, <1>8 DEF IsInjective
  <2>4. ToSet(head') \cap (Unwritten' \cup Answering') = {} /\ Unwritten' \cap Answering' = {}
    BY <1>8, <1>10
  <2> QED
    BY <2>1, <2>2, <2>3, <2>4, Holders
<1>12. TagInv'
  BY <1>1, <1>10, SameRequests
<1>13. RefCount' /\ ref' \in [Conn -> Nat]
  <2> DEFINE ld == Cardinality(Listed(d))
             wd == Cardinality(Working(d))
  <2>1. /\ ld \in Nat /\ wd \in Nat /\ IsFiniteSet(Working(d))
        /\ ref[d] = (IF epc[d] = "gone" THEN 0 ELSE 1) + ld + wd
                    + (IF eq[d] = NoExq THEN 0 ELSE 1)
    BY Counted
  <2>2. \A x : Listed(x)' = Listed(x)
    BY <1>2 DEF Listed, ToSet
  <2>3. /\ Working(d)' = Working(d) \ {s} /\ s \in Working(d)
        /\ \A x \in Conn \ {d} : Working(x)' = Working(x)
    <3>1. \A x : Working(x)' = Working(x) \ {s}
      BY <1>6, <1>7 DEF Working, Busy
    <3>2. s \in Working(d) /\ \A x \in Conn \ {d} : s \notin Working(x)
      BY <1>4 DEF Working
    <3> QED
      BY <3>1, <3>2
  <2>4. Cardinality(Listed(d)') = ld /\ Cardinality(Working(d)') = wd - 1
    <3>1. Cardinality(Working(d) \ {s}) = wd - 1
      BY <2>1, <2>3, FS_RemoveElement
    <3> QED
      BY <2>2, <2>3, <3>1
  <2>5. IsFiniteSet(Working(d)') /\ Cardinality(Working(d)') \in Nat
    <3>1. IsFiniteSet(Working(d) \ {s})
      BY <2>1, FS_Subset
    <3> QED
      BY <2>3, <3>1, FS_CardinalityType
  <2> HIDE DEF ld, wd
  <2>6. wd - 1 \in Nat
    BY <2>4, <2>5
  <2>7. ref[d] - 1 \in Nat /\ ref' = [ref EXCEPT ![d] = ref[d] - 1]
    BY <1>5, <2>1, <2>6
  <2>8. ref[d] - 1 = (IF epc'[d] = "gone" THEN 0 ELSE 1) + Cardinality(Listed(d)')
                     + Cardinality(Working(d)') + (IF eq'[d] = NoExq THEN 0 ELSE 1)
    BY <1>2, <2>1, <2>4
  <2>9. \A x \in Conn \ {d} : /\ Listed(x)' = Listed(x) /\ Working(x)' = Working(x)
                              /\ epc'[x] = epc[x] /\ eq'[x] = eq[x]
    BY <1>2, <2>2, <2>3
  <2> QED
    BY <2>7, <2>8, <2>9, Recounted
<1>14. TypeOK'
  BY <1>t, <1>1, <1>2, <1>3, <1>6, <1>13 DEF TypeOK, links, client
<1>15. JobInv' /\ EqInv'
  BY <1>t, <1>2, <1>3, <1>6 DEF JobInv, EqInv
<1>16. QwaitInv'
  <2>1. \A x \in Members(qwait.queue) : spc'[x] = "queued"
    BY <1>t, <1>3, SameWords, MembersType DEF TypeOK
  <2> QED
    BY <1>t, <1>1, <2>1, SameWords
<1> QED
  BY <1>t, <1>1, <1>2, <1>10, <1>11, <1>12, <1>13, <1>14, <1>15, <1>16 DEF IndInv

(* A flushed request is answered. *)
LEMMA ReplyKeeps ==
  ASSUME IndInv, NEW c \in Conn, FlushReply(c)
  PROVE  /\ IndInv' /\ eq[c] \in Accepted
         /\ Accepted' = Accepted \ {eq[c]} /\ UNCHANGED client /\ Reply(eq[c])
<1>t. TypeOK /\ JobInv /\ EqInv /\ QwaitInv /\ RequestHeld /\ stale = FALSE
  BY DEF IndInv
<1>1. /\ UNCHANGED <<client, work, shut, oldtag, victim, exq, qwait, slaves>> /\ Reply(eq[c])
      /\ epc[c] = "flushreply" /\ epc' = [epc EXCEPT ![c] = "read"]
      /\ ref' = [ref EXCEPT ![c] = @ - 1] /\ eq' = [eq EXCEPT ![c] = NoExq]
  BY DEF FlushReply, EGoto, ExFree
<1>2. UNCHANGED <<head, stale, lost, spc, job>>
  BY <1>1 DEF exq, slaves
<1>3. PICK q \in Exq : q = eq[c] /\ q # NoExq
  BY <1>t, <1>1, ExportAssumption DEF EqInv, TypeOK
<1>4. /\ epc' \in [Conn -> ProcStates] /\ epc'[c] = "read"
      /\ eq' \in [Conn -> Exq \cup {NoExq}] /\ eq'[c] = NoExq
      /\ \A x \in Conn \ {c} : epc'[x] = epc[x] /\ eq'[x] = eq[x]
  BY <1>t, <1>1 DEF TypeOK, ProcStates
<1>5. /\ Writers' = Writers /\ Unwritten' = Unwritten /\ Performing' = Performing
      /\ ToSet(head') = ToSet(head)
  BY <1>2 DEF Writers, Performing, Unwritten, Busy, ToSet
<1>6. q \in Answering /\ Answering' = Answering \ {q}
  <2>1. \A x \in Conn : eq[x] = q => x = c
    BY <1>t, <1>3 DEF EqInv
  <2> QED
    BY <1>3, <1>4, <2>1 DEF Answering
<1>7. /\ IsInjective(head) /\ lost = {}
      /\ \A a, x \in Writers : job[a] = job[x] => a = x
      /\ ToSet(head) \cap (Unwritten \cup Answering) = {}
      /\ Unwritten \cap Answering = {}
      /\ work = {job[x] : x \in Performing}
  BY <1>t, Holders
<1>8. q \in Accepted /\ Accepted' = Accepted \ {q}
  BY <1>2, <1>5, <1>6, <1>7 DEF Accepted
<1>9. TagInv' /\ toserver' = toserver /\ toclient' \in [Conn -> Seq(Answer)]
  <2>1. Reply(q) /\ UNCHANGED client
    BY <1>1, <1>3
  <2> QED
    BY <1>8, <2>1, Answered
<1>10. RequestHeld'
  <2>1. ToSet(head') \cap (Unwritten' \cup Answering') = {} /\ Unwritten' \cap Answering' = {}
    BY <1>5, <1>6, <1>7
  <2>2. \A a, x \in Writers' : job'[a] = job'[x] => a = x
    BY <1>2, <1>5, <1>7
  <2>3. IsInjective(head') /\ lost' = {} /\ work' = {job'[x] : x \in Performing'}
    BY <1>1, <1>2, <1>5, <1>7 DEF IsInjective
  <2> QED
    BY <2>1, <2>2, <2>3, Holders
<1>11. RefCount' /\ ref' \in [Conn -> Nat]
  <2>1. \A x : Listed(x)' = Listed(x) /\ Working(x)' = Working(x)
    BY <1>2 DEF Listed, Working, Busy, ToSet
  <2>2. /\ Cardinality(Listed(c)) \in Nat /\ Cardinality(Working(c)) \in Nat
        /\ ref[c] = 1 + Cardinality(Listed(c)) + Cardinality(Working(c)) + 1
    BY <1>1, <1>3, Counted
  <2>3. ref[c] - 1 \in Nat /\ ref' = [ref EXCEPT ![c] = ref[c] - 1]
    BY <1>1, <2>2
  <2>4. ref[c] - 1 = (IF epc'[c] = "gone" THEN 0 ELSE 1) + Cardinality(Listed(c)')
                     + Cardinality(Working(c)') + (IF eq'[c] = NoExq THEN 0 ELSE 1)
    BY <1>4, <2>1, <2>2
  <2> QED
    BY <1>4, <2>1, <2>3, <2>4, Recounted
<1>12. TypeOK'
  BY <1>t, <1>1, <1>2, <1>4, <1>9, <1>11 DEF TypeOK, client
<1>13. JobInv' /\ QwaitInv'
  BY <1>t, <1>1, <1>2 DEF JobInv, QwaitInv
<1>14. EqInv'
  BY <1>t, <1>4 DEF EqInv
<1> QED
  BY <1>t, <1>1, <1>2, <1>3, <1>8, <1>9, <1>10, <1>11, <1>12, <1>13, <1>14 DEF IndInv

(* exportproc reads a flush. *)
LEMMA FlushKeeps ==
  ASSUME IndInv, TailRemoved = FALSE, NEW c \in Conn, ReadFlush(c)
  PROVE  IndInv' /\ Accepted' = Accepted
<1>t. TypeOK /\ JobInv /\ EqInv /\ QwaitInv /\ RequestHeld /\ stale = FALSE
  BY DEF IndInv
<1>1. /\ UNCHANGED <<toclient, client, fs, victim, qwait, slaves>>
      /\ epc[c] = "read" /\ toserver[c] # <<>> /\ Head(toserver[c]).type = "Tflush"
      /\ toserver' = [toserver EXCEPT ![c] = Tail(@)]
  BY DEF ReadFlush
<1>2. UNCHANGED <<ref, work, shut, spc, job>>
  BY <1>1 DEF fs, slaves
<1>3. Writers' = Writers /\ Unwritten' = Unwritten /\ Performing' = Performing
  BY <1>2 DEF Writers, Performing, Unwritten, Busy
<1>4. JobInv' /\ QwaitInv'
  BY <1>t, <1>1, <1>2 DEF JobInv, QwaitInv
<1>5. ASSUME Accepted' = Accepted
      PROVE  TagInv' /\ toserver' \in [Conn -> Seq(Request \cup Tflush)]
  BY <1>1, <1>5, FlushTaken
<1>6. eq[c] = NoExq
  BY <1>t, <1>1 DEF EqInv
<1>7. ASSUME NEW i \in DOMAIN head, Flushes(c, head[i]), Unlink({i}),
             eq' = [eq EXCEPT ![c] = head[i]], epc' = [epc EXCEPT ![c] = "flushreply"],
             UNCHANGED oldtag
      PROVE  IndInv' /\ Accepted' = Accepted
  <2>1. PICK q \in Exq : q = head[i]
    BY <1>t, <1>7 DEF TypeOK
  <2>2. q.conn = c /\ q # NoExq /\ q \in ToSet(head)
    BY <1>7, <2>1, ExportAssumption DEF Flushes, ToSet
  <2>3. /\ head' \in Seq(Exq) /\ IsInjective(head') /\ ToSet(head') = ToSet(head) \ {q}
        /\ stale' = FALSE /\ lost' = lost
    <3>1. head \in Seq(Exq) /\ IsInjective(head) /\ {i} \subseteq DOMAIN head
      BY <1>t, <1>7 DEF TypeOK, RequestHeld
    <3>2. /\ head' \in Seq(Exq) /\ IsInjective(head')
          /\ ToSet(head') = ToSet(head) \ {head[k] : k \in {i}}
          /\ stale' = FALSE /\ lost' = lost
      BY <1>t, <1>7, <3>1, Unlinked
    <3>3. {head[k] : k \in {i}} = {q}
      BY <2>1
    <3> QED
      BY <3>2, <3>3
  <2>4. /\ epc' \in [Conn -> ProcStates] /\ epc'[c] = "flushreply"
        /\ eq' \in [Conn -> Exq \cup {NoExq}] /\ eq'[c] = q
        /\ \A x \in Conn \ {c} : epc'[x] = epc[x] /\ eq'[x] = eq[x]
    BY <1>t, <1>7, <2>1 DEF TypeOK, ProcStates
  <2>5. Answering' = Answering \cup {q}
    BY <1>6, <2>2, <2>4 DEF Answering
  <2>6. /\ IsInjective(head) /\ lost = {}
        /\ \A a, x \in Writers : job[a] = job[x] => a = x
        /\ ToSet(head) \cap (Unwritten \cup Answering) = {}
        /\ Unwritten \cap Answering = {}
        /\ work = {job[x] : x \in Performing}
    BY <1>t, Holders
  <2>7. Accepted' = Accepted
    BY <1>3, <2>2, <2>3, <2>5 DEF Accepted
  <2>8. RequestHeld'
    <3>1. ToSet(head') \cap (Unwritten' \cup Answering') = {} /\ Unwritten' \cap Answering' = {}
      BY <1>3, <2>2, <2>3, <2>5, <2>6
    <3>2. lost' = {} /\ work' = {job'[x] : x \in Performing'}
      BY <1>2, <1>3, <2>3, <2>6
    <3>3. \A a, x \in Writers' : job'[a] = job'[x] => a = x
      BY <1>2, <1>3, <2>6
    <3> QED
      BY <2>3, <3>1, <3>2, <3>3, Holders
  <2>9. RefCount'
    <3> DEFINE lc == Cardinality(Listed(c))
    <3>1. /\ lc \in Nat /\ Cardinality(Working(c)) \in Nat /\ IsFiniteSet(Listed(c))
          /\ ref[c] = 1 + lc + Cardinality(Working(c)) + 0
      BY <1>1, <1>6, Counted
    <3>2. \A x : Working(x)' = Working(x)
      BY <1>2 DEF Working, Busy
    <3>3. /\ Listed(c)' = Listed(c) \ {q} /\ q \in Listed(c)
          /\ \A x \in Conn \ {c} : Listed(x)' = Listed(x)
      <4>1. \A x : Listed(x)' = Listed(x) \ {q}
        BY <2>3, <2>6 DEF Listed
      <4>2. q \in Listed(c) /\ \A x \in Conn \ {c} : q \notin Listed(x)
        BY <2>2 DEF Listed
      <4> QED
        BY <4>1, <4>2
    <3>4. Cardinality(Listed(c)') = lc - 1
      <4>1. Cardinality(Listed(c) \ {q}) = lc - 1
        BY <3>1, <3>3, FS_RemoveElement
      <4> QED
        BY <3>3, <4>1
    <3> HIDE DEF lc
    <3>5. ref[c] \in Nat /\ ref' = [ref EXCEPT ![c] = ref[c]]
      BY <1>t, <1>2 DEF TypeOK
    <3>6. ref[c] = (IF epc'[c] = "gone" THEN 0 ELSE 1) + Cardinality(Listed(c)')
                   + Cardinality(Working(c)') + (IF eq'[c] = NoExq THEN 0 ELSE 1)
      BY <2>2, <2>4, <3>1, <3>2, <3>4
    <3> QED
      BY <2>4, <3>2, <3>3, <3>5, <3>6, Recounted
  <2>10. TagInv' /\ toserver' \in [Conn -> Seq(Request \cup Tflush)]
    BY <1>5, <2>7
  <2>11. TypeOK'
    BY <1>t, <1>1, <1>2, <1>7, <2>3, <2>4, <2>10 DEF TypeOK, client
  <2>12. EqInv'
    BY <1>t, <2>2, <2>4 DEF EqInv
  <2> QED
    BY <1>4, <2>3, <2>7, <2>8, <2>9, <2>10, <2>11, <2>12 DEF IndInv
<1>8. ASSUME oldtag' = [oldtag EXCEPT ![c] = Head(toserver[c]).oldtag],
             epc' = [epc EXCEPT ![c] = "flushwork"], UNCHANGED <<exq, eq>>
      PROVE  IndInv' /\ Accepted' = Accepted
  <2>1. Still /\ work' = {job[s] : s \in Performing'}
    BY <1>2, <1>3, <1>8, <1>t, Holders DEF Still
  <2>2. /\ epc' \in [Conn -> ProcStates] /\ epc'[c] = "flushwork"
        /\ \A x \in Conn \ {c} : epc'[x] = epc[x]
    BY <1>t, <1>8 DEF TypeOK, ProcStates
  <2>3. Accepted' = Accepted /\ stale' = FALSE /\ RequestHeld'
    BY <2>1, Aside
  <2>4. RefCount'
    <3>1. \A x \in Conn : epc'[x] = "gone" <=> epc[x] = "gone"
      BY <1>1, <2>2
    <3> QED
      BY <1>2, <2>1, <3>1, Aside
  <2>5. TagInv' /\ toserver' \in [Conn -> Seq(Request \cup Tflush)]
    BY <1>5, <2>3
  <2>6. oldtag' \in [Conn -> Tag]
    <3>1. toserver[c] \in Seq(Request \cup Tflush)
      BY <1>t DEF TypeOK
    <3>2. Head(toserver[c]) \in Request \cup Tflush
      BY <1>1, <3>1
    <3>3. Head(toserver[c]).oldtag \in Tag
      BY <1>1, <3>2 DEF Request, Tflush
    <3> QED
      BY <1>t, <1>8, <3>3 DEF TypeOK
  <2>7. head' = head /\ stale' = stale /\ lost' = lost /\ eq' = eq
    BY <1>8 DEF exq
  <2>8. TypeOK'
    BY <1>t, <1>1, <1>2, <2>2, <2>5, <2>6, <2>7 DEF TypeOK, client
  <2>9. EqInv'
    BY <1>t, <1>6, <2>2, <2>7 DEF EqInv
  <2> QED
    BY <1>4, <2>3, <2>4, <2>5, <2>8, <2>9 DEF IndInv
<1> QED
  BY <1>7, <1>8 DEF ReadFlush

(* exportproc finds that its connection has ended. *)
LEMMA ErrorKeeps ==
  ASSUME IndInv, TailRemoved = FALSE, NEW c \in Conn, ReadError(c)
  PROVE  /\ IndInv' /\ down[c] /\ UNCHANGED <<links, client>>
         /\ Accepted' \subseteq Accepted /\ \A q \in Accepted \ Accepted' : q.conn = c
<1> DEFINE gone == {i \in DOMAIN head : head[i].conn = c}
<1>t. TypeOK /\ JobInv /\ EqInv /\ QwaitInv /\ RequestHeld /\ stale = FALSE
  BY DEF IndInv
<1>1. /\ UNCHANGED <<links, client, work, shut, ehold, qwait, slaves>> /\ down[c]
      /\ epc[c] = "read" /\ epc' = [epc EXCEPT ![c] = "shutwork"]
      /\ ref' = [ref EXCEPT ![c] = @ - Cardinality({q \in ToSet(head) : q.conn = c})]
      /\ Unlink(gone)
  BY DEF ReadError, EGoto
<1>2. UNCHANGED <<eq, oldtag, victim, spc, job>>
  BY <1>1 DEF ehold, slaves
<1>3. /\ head' \in Seq(Exq) /\ IsInjective(head')
      /\ ToSet(head') = {q \in ToSet(head) : q.conn # c}
      /\ stale' = FALSE /\ lost' = lost
  <2>1. head \in Seq(Exq) /\ IsInjective(head) /\ gone \subseteq DOMAIN head
    BY <1>t DEF TypeOK, RequestHeld
  <2>2. /\ head' \in Seq(Exq) /\ IsInjective(head')
        /\ ToSet(head') = ToSet(head) \ {head[k] : k \in gone}
        /\ stale' = FALSE /\ lost' = lost
    <3> HIDE DEF gone
    <3> QED
      BY <1>t, <1>1, <2>1, Unlinked
  <2>3. ToSet(head) \ {head[k] : k \in gone} = {q \in ToSet(head) : q.conn # c}
    BY DEF ToSet
  <2> QED
    BY <2>2, <2>3
<1>4. /\ Writers' = Writers /\ Unwritten' = Unwritten /\ Performing' = Performing
      /\ Answering' = Answering
  BY <1>2 DEF Writers, Performing, Unwritten, Answering, Busy
<1>5. /\ IsInjective(head) /\ lost = {}
      /\ \A a, x \in Writers : job[a] = job[x] => a = x
      /\ ToSet(head) \cap (Unwritten \cup Answering) = {}
      /\ Unwritten \cap Answering = {}
      /\ work = {job[x] : x \in Performing}
  BY <1>t, Holders
<1>6. Accepted' \subseteq Accepted /\ \A q \in Accepted \ Accepted' : q.conn = c
  BY <1>3, <1>4 DEF Accepted
<1>7. TagInv'
  BY <1>1, <1>6, Dropped
<1>8. RequestHeld'
  <2>1. ToSet(head') \cap (Unwritten' \cup Answering') = {} /\ Unwritten' \cap Answering' = {}
    BY <1>3, <1>4, <1>5
  <2>2. lost' = {} /\ work' = {job'[x] : x \in Performing'}
    BY <1>1, <1>2, <1>3, <1>4, <1>5
  <2>3. \A a, x \in Writers' : job'[a] = job'[x] => a = x
    BY <1>2, <1>4, <1>5
  <2> QED
    BY <1>3, <2>1, <2>2, <2>3, Holders
<1>9. /\ epc' \in [Conn -> ProcStates] /\ epc'[c] = "shutwork"
      /\ \A x \in Conn \ {c} : epc'[x] = epc[x]
  BY <1>t, <1>1 DEF TypeOK, ProcStates
<1>10. RefCount' /\ ref' \in [Conn -> Nat]
  <2> DEFINE lc == Cardinality(Listed(c))
  <2>1. /\ lc \in Nat /\ Cardinality(Working(c)) \in Nat
        /\ ref[c] = 1 + lc + Cardinality(Working(c)) + (IF eq[c] = NoExq THEN 0 ELSE 1)
    BY <1>1, Counted
  <2>2. \A x : Working(x)' = Working(x)
    BY <1>2 DEF Working, Busy
  <2>3. /\ Listed(c)' = {} /\ \A x \in Conn \ {c} : Listed(x)' = Listed(x)
        /\ Listed(c) = {q \in ToSet(head) : q.conn = c}
    BY <1>3, <1>5 DEF Listed
  <2>4. Cardinality(Listed(c)') = 0 /\ ref' = [ref EXCEPT ![c] = ref[c] - lc]
    BY <1>1, <2>3, FS_EmptySet
  <2> HIDE DEF lc
  <2>5. ref[c] - lc \in Nat
    BY <2>1
  <2>6. ref[c] - lc = (IF epc'[c] = "gone" THEN 0 ELSE 1) + Cardinality(Listed(c)')
                      + Cardinality(Working(c)') + (IF eq'[c] = NoExq THEN 0 ELSE 1)
    BY <1>2, <1>9, <2>1, <2>2, <2>4
  <2> QED
    BY <1>2, <1>9, <2>2, <2>3, <2>4, <2>5, <2>6, Recounted
<1>11. TypeOK'
  BY <1>t, <1>1, <1>2, <1>3, <1>9, <1>10 DEF TypeOK, links, client
<1>12. JobInv' /\ EqInv' /\ QwaitInv'
  BY <1>t, <1>1, <1>2, <1>9 DEF JobInv, EqInv, QwaitInv
<1> QED
  BY <1>1, <1>3, <1>6, <1>7, <1>8, <1>10, <1>11, <1>12 DEF IndInv

-----------------------------------------------------------------------------
(* The invariant, and what follows from it. *)

LEMMA IndInit ==
  ASSUME Init
  PROVE  IndInv
<1>1. /\ Accepted = {} /\ Busy = {} /\ ToSet(head) = {} /\ Unwritten = {} /\ Answering = {}
  <2>1. Busy = {} /\ Answering = {} /\ ToSet(head) = {}
    BY DEF Init, Busy, Answering, ToSet
  <2>2. Unwritten = {}
    BY <2>1 DEF Unwritten
  <2> QED
    BY <2>1, <2>2 DEF Init, Accepted
<1>2. TypeOK
  <2>1. (CHOOSE t \in Tag : TRUE) \in Tag
    BY ExportAssumption
  <2>2. <<>> \in Seq(Request \cup Tflush) /\ <<>> \in Seq(Answer) /\ <<>> \in Seq(Exq)
        /\ <<>> \in Seq(Slave)
    OBVIOUS
  <2> QED
    BY <2>1, <2>2 DEF Init, TypeOK, ProcStates, SlaveStates, QLockType, QLockFree
<1>3. JobInv /\ EqInv /\ QwaitInv
  BY DEF Init, JobInv, EqInv, QwaitInv, QLockFree, IsInjective
<1>4. RequestHeld
  <2>1. work = {job[s] : s \in {x \in Busy : spc[x] \in {"call", "unlink"}}}
    BY <1>1 DEF Init
  <2> QED
    BY <1>1, <2>1 DEF Init, RequestHeld, IsInjective
<1>5. RefCount
  <2>1. ASSUME NEW c \in Conn
        PROVE  ref[c] = (IF epc[c] = "gone" THEN 0 ELSE 1) + Cardinality(Listed(c))
                        + Cardinality(Working(c)) + (IF eq[c] = NoExq THEN 0 ELSE 1)
    <3>1. Listed(c) = {} /\ Working(c) = {} /\ epc[c] # "gone" /\ eq[c] = NoExq /\ ref[c] = 1
      BY <1>1 DEF Init, Listed, Working
    <3> QED
      BY <3>1, FS_EmptySet
  <2> QED
    BY <2>1 DEF RefCount, Listed, Working
<1>6. TagInv
  <2>1. \A c : Held(c) = {}
    BY <1>1 DEF Held
  <2>2. ASSUME NEW c \in Conn PROVE TagsOnce(c)
    <3>1. toserver[c] = <<>> /\ toclient[c] = <<>> /\ ~down[c] /\ busy[c] = {}
      BY DEF Init
    <3> QED
      BY <2>1, <3>1 DEF TagsOnce, Once, Tags
  <2> QED
    BY <1>1, <2>2 DEF TagInv
<1> QED
  BY <1>2, <1>3, <1>4, <1>5, <1>6 DEF IndInv, Init

LEMMA IndStutter ==
  ASSUME IndInv, UNCHANGED vars
  PROVE  IndInv' /\ Accepted' = Accepted
<1>1. UNCHANGED <<toserver, toclient, down, busy, flushing>> /\ UNCHANGED <<links, client>>
      /\ UNCHANGED <<fs, eproc, exq, qwait, slaves>>
  BY DEF vars, links, client
<1>2. Accepted' = Accepted
  BY <1>1, ClientSame
<1>3. TagInv'
  BY <1>1, <1>2, SameRequests
<1> QED
  BY <1>1, <1>2, <1>3, ClientSame DEF IndInv, TypeOK

LEMMA IndNext ==
  ASSUME IndInv, TailRemoved = FALSE, [Next]_vars
  PROVE  IndInv'
<1>1. CASE UNCHANGED vars
  BY <1>1, IndStutter
<1>2. ASSUME NEW c \in Conn, ClientNext(c) PROVE IndInv'
  BY <1>2, SendKeeps, SendFlushKeeps, ReceiveKeeps, HangupKeeps DEF ClientNext
<1>3. ASSUME NEW c \in Conn, ExportProc(c) PROVE IndInv'
  <2>1. CASE ReadRequest(c)
    BY <2>1, ReadKeeps
  <2>2. CASE Launch(c) \/ WakeSlave(c)
    BY <2>2, LaunchKeeps
  <2>3. CASE ReadFlush(c)
    BY <2>3, FlushKeeps
  <2>4. CASE FlushReply(c)
    BY <2>4, ReplyKeeps
  <2>5. CASE FlushWork(c) \/ Interrupt(c) \/ ShutWork(c)
    BY <2>5, LookKeeps
  <2>6. CASE ReadError(c)
    BY <2>6, ErrorKeeps
  <2>7. CASE Exit(c)
    BY <2>7, ExitKeeps
  <2> QED
    BY <1>3, <2>1, <2>2, <2>3, <2>4, <2>5, <2>6, <2>7 DEF ExportProc
<1>4. ASSUME NEW s \in Slave, ExSlave(s) PROVE IndInv'
  <2>1. CASE Enter(s) \/ Sleep(s) \/ Pass(s) \/ Return(s)
    BY <2>1, SlaveMoves
  <2>2. CASE Take(s)
    BY <2>2, TakeKeeps
  <2>3. CASE Link(s) \/ UnlinkWork(s)
    BY <2>3, WorkKeeps
  <2>4. CASE WriteReply(s)
    BY <2>4, WriteKeeps
  <2>5. CASE FreeJob(s)
    BY <2>5, FreeKeeps
  <2> QED
    BY <1>4, <2>1, <2>2, <2>3, <2>4, <2>5 DEF ExSlave
<1> QED
  BY <1>1, <1>2, <1>3, <1>4 DEF Next

(* As long as the last of several waiting requests is not removed from the
   list: every variable has its type; in particular no count of an Export
   (exfree) goes below zero. *)
THEOREM TypeCorrect ==
  ASSUME TailRemoved = FALSE
  PROVE  Spec => []TypeOK
<1>1. Init => IndInv
  BY IndInit
<1>2. IndInv /\ [Next]_vars => IndInv'
  BY IndNext
<1>3. IndInv => TypeOK
  BY DEF IndInv
<1> QED
  BY <1>1, <1>2, <1>3, PTL DEF Spec

(* As long as the last of several waiting requests is not removed from the
   list: a request that was read is on the list, with one slave or being
   answered by exflush, in one of these places and once, until it is answered
   or exshutdown drops it. *)
THEOREM InOnePlace ==
  ASSUME TailRemoved = FALSE
  PROVE  Spec => []RequestHeld
<1>1. Init => IndInv
  BY IndInit
<1>2. IndInv /\ [Next]_vars => IndInv'
  BY IndNext
<1>3. IndInv => RequestHeld
  BY DEF IndInv
<1> QED
  BY <1>1, <1>2, <1>3, PTL DEF Spec

(* As long as the last of several waiting requests is not removed from the
   list: Export.r.ref counts exportproc and the requests that are not yet
   freed, so exfree frees the Export when the last of them has done with
   it. *)
THEOREM ExportCounted ==
  ASSUME TailRemoved = FALSE
  PROVE  Spec => []RefCount
<1>1. Init => IndInv
  BY IndInit
<1>2. IndInv /\ [Next]_vars => IndInv'
  BY IndNext
<1>3. IndInv => RefCount
  BY DEF IndInv
<1> QED
  BY <1>1, <1>2, <1>3, PTL DEF Spec

-----------------------------------------------------------------------------
(* No slave sleeps while requests wait. *)

Awake ==
  /\ epc \in [Conn -> ProcStates] /\ spc \in [Slave -> SlaveStates]
  /\ SlaveAwake

LEMMA NothingUnlinked ==
  ASSUME NEW gone, Unlink(gone), head = <<>>
  PROVE  head' = <<>>
<1>1. DOMAIN head = {} /\ Cardinality({}) = 0
  BY FS_EmptySet
<1>2. DOMAIN head \ gone = {}
  BY <1>1
<1>3. PICK at \in Bijection(1 .. Cardinality(DOMAIN head \ gone), DOMAIN head \ gone) :
        head' = [n \in DOMAIN at |-> head[at[n]]]
  BY DEF Unlink
<1>4. DOMAIN at = 1 .. Cardinality(DOMAIN head \ gone)
  BY <1>3 DEF Bijection, Injection
<1>5. DOMAIN at = {}
  BY <1>1, <1>2, <1>4
<1> QED
  BY <1>3, <1>5

(* Steps after which there are no more requests or sleepers than before. *)
LEMMA NoMoreAsleep ==
  ASSUME Awake, epc' \in [Conn -> ProcStates], spc' \in [Slave -> SlaveStates],
         head = <<>> => head' = <<>>,
         \A s \in Slave : spc'[s] = "asleep" => spc[s] = "asleep",
         \A c \in Conn : epc[c] \in {"launch", "wakeup"} => epc'[c] \in {"launch", "wakeup"}
  PROVE  Awake'
  BY DEF Awake, SlaveAwake

LEMMA AwakeNext ==
  ASSUME Awake, [Next]_vars
  PROVE  Awake'
<1>t. epc \in [Conn -> ProcStates] /\ spc \in [Slave -> SlaveStates] /\ SlaveAwake
  BY DEF Awake
<1>1. ASSUME UNCHANGED <<eproc, exq, slaves>> PROVE Awake'
  <2>1. UNCHANGED <<epc, spc, head>>
    BY <1>1 DEF eproc, exq, slaves
  <2> QED
    BY <1>t, <2>1, NoMoreAsleep
<1>2. ASSUME NEW c \in Conn, ReadRequest(c) PROVE Awake'
  <2>1. epc' = [epc EXCEPT ![c] = "launch"] /\ spc' = spc
    BY <1>2 DEF ReadRequest, EGoto, slaves
  <2> QED
    BY <1>t, <2>1 DEF Awake, SlaveAwake, ProcStates
<1>3. ASSUME NEW c \in Conn, Launch(c) PROVE Awake'
  <2>1. epc' = [epc EXCEPT ![c] = "wakeup"] /\ head' = head
    BY <1>3 DEF Launch, EGoto, exq
  <2>2. spc' \in [Slave -> SlaveStates] /\ \A s \in Slave : spc'[s] = "asleep" => spc[s] = "asleep"
    BY <1>t, <1>3 DEF Launch, SlaveStates
  <2> QED
    BY <1>t, <2>1, <2>2, NoMoreAsleep DEF ProcStates
<1>4. ASSUME NEW c \in Conn, WakeSlave(c) PROVE Awake'
  <2>1. epc' \in [Conn -> ProcStates]
    BY <1>t, <1>4 DEF WakeSlave, EGoto, ProcStates
  <2>2. spc' \in [Slave -> SlaveStates] /\ \A s \in Slave : spc'[s] # "asleep"
    BY <1>t, <1>4 DEF WakeSlave, SlaveStates
  <2> QED
    BY <2>1, <2>2 DEF Awake, SlaveAwake
<1>5. ASSUME NEW c \in Conn, 
             ReadFlush(c) \/ FlushReply(c) \/ FlushWork(c) \/ ReadError(c) \/ ShutWork(c) \/ Exit(c)
      PROVE  Awake'
  <2>1. /\ epc[c] \in {"read", "flushreply", "flushwork", "shutwork"}
        /\ \E l \in ProcStates : epc' = [epc EXCEPT ![c] = l]
        /\ spc' = spc
    BY <1>5 DEF ReadFlush, FlushReply, FlushWork, ReadError, ShutWork, Exit, EGoto, slaves, ProcStates
  <2>2. head = <<>> => head' = <<>>
    <3>1. CASE ReadFlush(c) \/ ReadError(c)
      BY <3>1, NothingUnlinked DEF ReadFlush, ReadError, exq
    <3>2. CASE ~(ReadFlush(c) \/ ReadError(c))
      BY <1>5, <3>2 DEF FlushReply, FlushWork, ShutWork, Exit, exq
    <3> QED
      BY <3>1, <3>2
  <2> QED
    BY <1>t, <2>1, <2>2, NoMoreAsleep
<1>6. ASSUME NEW c \in Conn, Interrupt(c) PROVE Awake'
  <2>1. /\ epc[c] \in {"interrupt", "shutintr"}
        /\ \E l \in ProcStates : epc' = [epc EXCEPT ![c] = l]
        /\ head' = head
    BY <1>6 DEF Interrupt, exq, ProcStates
  <2>2. /\ spc' \in [Slave -> SlaveStates]
        /\ \A s \in Slave : spc'[s] = "asleep" => spc[s] = "asleep"
    BY <1>t, <1>6 DEF Interrupt, SlaveStates
  <2> QED
    BY <1>t, <2>1, <2>2, NoMoreAsleep
<1>7. ASSUME NEW s \in Slave, Sleep(s) PROVE Awake'
  <2>1. spc' = [spc EXCEPT ![s] = IF head # <<>> THEN "take" ELSE "asleep"] /\ UNCHANGED <<epc, head>>
    BY <1>7 DEF Sleep, SGoto, eproc, exq
  <2>2. spc' \in [Slave -> SlaveStates]
    BY <1>t, <2>1 DEF SlaveStates
  <2> QED
    BY <1>t, <2>1, <2>2 DEF Awake, SlaveAwake
<1>8. ASSUME NEW s \in Slave, ExSlave(s), ~Sleep(s) PROVE Awake'
  <2>1. epc' = epc
    BY <1>8 DEF ExSlave, Enter, Take, Pass, Link, Return, UnlinkWork, WriteReply, FreeJob, eproc
  <2>2. head = <<>> => head' = <<>>
    BY <1>8 DEF ExSlave, Enter, Take, Pass, Link, Return, UnlinkWork, WriteReply, FreeJob, exq
  <2>3. /\ spc' \in [Slave -> SlaveStates]
        /\ \A x \in Slave : spc'[x] = "asleep" => spc[x] = "asleep"
    <3>1. CASE Pass(s)
      BY <1>t, <3>1 DEF Pass, SlaveStates
    <3>2. CASE ~Pass(s)
      <4>1. \E l \in SlaveStates \ {"asleep"} : spc' = [spc EXCEPT ![s] = l]
        BY <1>8, <3>2 DEF ExSlave, Enter, Take, Link, Return, UnlinkWork, WriteReply, FreeJob,
                          SGoto, SlaveStates
      <4> QED
        BY <1>t, <4>1
    <3> QED
      BY <3>1, <3>2
  <2> QED
    BY <1>t, <2>1, <2>2, <2>3, NoMoreAsleep
<1>9. ASSUME NEW c \in Conn, ClientNext(c) PROVE UNCHANGED <<eproc, exq, slaves>>
  BY <1>9 DEF ClientNext, ClientSend, ClientFlush, ClientReceive, Hangup
<1>10. CASE UNCHANGED vars
  BY <1>1, <1>10 DEF vars
<1>11. ASSUME NEW c \in Conn, ExportProc(c) PROVE Awake'
  BY <1>2, <1>3, <1>4, <1>5, <1>6, <1>11 DEF ExportProc
<1>12. ASSUME NEW s \in Slave, ExSlave(s) PROVE Awake'
  BY <1>7, <1>8, <1>12
<1> QED
  BY <1>1, <1>9, <1>10, <1>11, <1>12 DEF Next

(* While requests wait, no slave sleeps that nobody is about to wake: between
   the look at exq.head in exwork and the Sleep no Wakeup is missed. *)
THEOREM NoneAsleep == Spec => []SlaveAwake
<1>1. Init => Awake
  BY DEF Init, Awake, SlaveAwake, ProcStates, SlaveStates
<1>2. Awake /\ [Next]_vars => Awake'
  BY AwakeNext
<1>3. Awake => SlaveAwake
  BY DEF Awake
<1> QED
  BY <1>1, <1>2, <1>3, PTL DEF Spec

-----------------------------------------------------------------------------
(* Each connection is a file server. *)

(* A step that another connection, or nobody, sees. *)
LEMMA Unseen ==
  ASSUME NEW x \in Conn, toserver'[x] = toserver[x], toclient'[x] = toclient[x],
         Pending(x)' = Pending(x)
  PROVE  Server(x)!ServerStep
  BY DEF Server!ServerStep, Server!serverVars, Pending

LEMMA UnseenSame ==
  ASSUME NEW x \in Conn, Accepted' = Accepted, UNCHANGED <<toserver, toclient, down>>
  PROVE  Server(x)!ServerStep
<1>1. Pending(x)' = Pending(x)
  BY DEF Pending
<1> QED
  BY <1>1, Unseen

LEMMA ClientServes ==
  ASSUME IndInv, NEW c \in Conn, ClientNext(c), NEW x \in Conn
  PROVE  Server(x)!ServerStep
<1>t. /\ toserver \in [Conn -> Seq(Request \cup Tflush)] /\ toclient \in [Conn -> Seq(Answer)]
      /\ down \in [Conn -> BOOLEAN]
  BY DEF IndInv, TypeOK
<1>1. Accepted' = Accepted
  BY SendKeeps, SendFlushKeeps, ReceiveKeeps, HangupKeeps DEF ClientNext
<1>2. CASE x # c
  <2>1. toserver'[x] = toserver[x] /\ toclient'[x] = toclient[x] /\ down'[x] = down[x]
    BY <1>t, <1>2 DEF ClientNext, ClientSend, ClientFlush, ClientReceive, Hangup
  <2>2. Pending(x)' = Pending(x)
    BY <1>1, <2>1 DEF Pending
  <2> QED
    BY <2>1, <2>2, Unseen
<1>3. CASE x = c
  <2>1. ASSUME NEW m \in Request \cup Tflush,
               toserver' = [toserver EXCEPT ![c] = Append(@, m)], UNCHANGED <<toclient, down>>
        PROVE  Server(x)!ServerStep
    <3>1. toserver'[x] = Append(toserver[x], m) /\ toclient'[x] = toclient[x]
      BY <1>t, <1>3, <2>1
    <3>2. Pending(x)' = Pending(x)
      BY <1>1, <2>1 DEF Pending
    <3>3. m \in Server(x)!Request \cup Server(x)!Flush
      BY DEF Request, Tflush, Server!Request, Server!Flush
    <3>4. Server(x)!ClientStep
      BY <3>1, <3>2, <3>3 DEF Server!ClientStep, Pending
    <3> QED
      BY <3>4 DEF Server!ServerStep
  <2>2. ASSUME NEW t \in Tag, NEW d \in Call, ClientSend(c, t, d)
        PROVE  Server(x)!ServerStep
    <3>1. [type |-> "T", tag |-> t, call |-> d] \in Request \cup Tflush
      BY DEF Request
    <3>2. /\ toserver' = [toserver EXCEPT ![c] = Append(@, [type |-> "T", tag |-> t, call |-> d])]
          /\ UNCHANGED <<toclient, down>>
      BY <2>2 DEF ClientSend
    <3> QED
      BY <2>1, <3>1, <3>2
  <2>3. ASSUME NEW t \in Tag, NEW f \in FlushTag, ClientFlush(c, t, f)
        PROVE  Server(x)!ServerStep
    <3>1. [type |-> "Tflush", tag |-> f, oldtag |-> t] \in Request \cup Tflush
      BY DEF Tflush
    <3>2. /\ toserver' = [toserver EXCEPT ![c] =
                            Append(@, [type |-> "Tflush", tag |-> f, oldtag |-> t])]
          /\ UNCHANGED <<toclient, down>>
      BY <2>3 DEF ClientFlush
    <3> QED
      BY <2>1, <3>1, <3>2
  <2>4. CASE ClientReceive(c)
    <3>1. /\ toclient[x] # <<>> /\ toclient'[x] = Tail(toclient[x]) /\ toserver'[x] = toserver[x]
          /\ down'[x] = down[x]
      BY <1>t, <1>3, <2>4 DEF ClientReceive
    <3>2. Pending(x)' = Pending(x)
      BY <1>1, <3>1 DEF Pending
    <3>3. Server(x)!ClientStep
      BY <3>1, <3>2 DEF Server!ClientStep, Pending
    <3> QED
      BY <3>3 DEF Server!ServerStep
  <2>5. CASE Hangup(c)
    <3>1. toserver'[x] = <<>> /\ toclient'[x] = <<>> /\ down'[x] = TRUE
      BY <1>t, <1>3, <2>5 DEF Hangup
    <3>2. Pending(x)' = {}
      BY <3>1 DEF Pending
    <3>3. Server(x)!Cut
      BY <3>1, <3>2 DEF Server!Cut, Pending
    <3> QED
      BY <3>3 DEF Server!ServerStep
  <2> QED
    BY <2>2, <2>3, <2>4, <2>5 DEF ClientNext
<1> QED
  BY <1>2, <1>3

LEMMA ReadServes ==
  ASSUME IndInv, NEW c \in Conn, ReadRequest(c), NEW x \in Conn
  PROVE  Server(x)!ServerStep
<1>t. toserver \in [Conn -> Seq(Request \cup Tflush)]
  BY DEF IndInv, TypeOK
<1>0. PICK q : q = [conn |-> c, msg |-> Head(toserver[c])]
  OBVIOUS
<1>1. /\ toserver' = [toserver EXCEPT ![c] = Tail(@)] /\ UNCHANGED <<toclient, down>>
      /\ toserver[c] # <<>> /\ Head(toserver[c]).type = "T"
  BY DEF ReadRequest, client
<1>2. ~down[c] /\ Accepted' = Accepted \cup {q} /\ q.conn = c /\ q.msg = Head(toserver[c])
  BY <1>0, ReadKeeps
<1>3. CASE x # c
  <2>1. Pending(x)' = Pending(x)
    BY <1>1, <1>2, <1>3 DEF Pending
  <2> QED
    BY <1>t, <1>1, <1>3, <2>1, Unseen
<1>4. CASE x = c
  <2>1. Pending(x)' = Pending(x) \cup {Head(toserver[x])}
    BY <1>1, <1>2, <1>4 DEF Pending
  <2>2. toserver'[x] = Tail(toserver[x]) /\ toclient'[x] = toclient[x]
        /\ toserver[x] # <<>> /\ Head(toserver[x]).type = "T"
    BY <1>t, <1>1, <1>4
  <2>3. Server(x)!ReadRequest
    BY <2>1, <2>2 DEF Server!ReadRequest, Pending
  <2> QED
    BY <2>3 DEF Server!ServerStep, Server!ServerNext
<1> QED
  BY <1>3, <1>4

LEMMA FlushServes ==
  ASSUME IndInv, TailRemoved = FALSE, NEW c \in Conn, ReadFlush(c), NEW x \in Conn
  PROVE  Server(x)!ServerStep
<1>t. toserver \in [Conn -> Seq(Request \cup Tflush)]
  BY DEF IndInv, TypeOK
<1>1. /\ toserver' = [toserver EXCEPT ![c] = Tail(@)] /\ UNCHANGED <<toclient, down>>
      /\ toserver[c] # <<>> /\ Head(toserver[c]).type = "Tflush"
  BY DEF ReadFlush, client
<1>2. Pending(x)' = Pending(x)
  BY <1>1, FlushKeeps DEF Pending
<1>3. CASE x # c
  BY <1>t, <1>1, <1>2, <1>3, Unseen
<1>4. CASE x = c
  <2>1. toserver'[x] = Tail(toserver[x]) /\ toclient'[x] = toclient[x]
        /\ toserver[x] # <<>> /\ Head(toserver[x]).type = "Tflush"
    BY <1>t, <1>1, <1>4
  <2>2. Server(x)!ReadFlush
    BY <1>2, <2>1 DEF Server!ReadFlush, Pending
  <2> QED
    BY <2>2 DEF Server!ServerStep, Server!ServerNext
<1> QED
  BY <1>3, <1>4

(* A reply is written. *)
LEMMA AnswerServes ==
  ASSUME IndInv, NEW q \in Accepted, Accepted' = Accepted \ {q}, Reply(q), UNCHANGED client,
         NEW x \in Conn
  PROVE  Server(x)!ServerStep
<1>t. /\ toserver \in [Conn -> Seq(Request \cup Tflush)] /\ toclient \in [Conn -> Seq(Answer)]
      /\ down \in [Conn -> BOOLEAN] /\ TagInv
  BY DEF IndInv, TypeOK
<1>1. down' = down /\ toserver' = toserver
  BY DEF client, Reply
<1>2. CASE x # q.conn \/ down[x]
  <2>1. Pending(x)' = Pending(x)
    BY <1>1, <1>2 DEF Pending
  <2>2. toclient'[x] = toclient[x]
    BY <1>t, <1>2 DEF Reply
  <2> QED
    BY <1>1, <2>1, <2>2, Unseen
<1>3. CASE x = q.conn /\ ~down[x]
  <2>1. \A y \in Accepted : y.conn = x /\ y.msg = q.msg => y = q
    BY <1>t, <1>3 DEF TagInv
  <2>2. q.msg \in Pending(x) /\ Pending(x)' = Pending(x) \ {q.msg}
    BY <1>1, <1>3, <2>1 DEF Pending
  <2>3. toclient'[x] = Append(toclient[x], [q.msg EXCEPT !.type = "R"]) /\ toserver'[x] = toserver[x]
    BY <1>t, <1>1, <1>3 DEF Reply
  <2>4. Server(x)!Answer(q.msg)
    BY <2>2, <2>3 DEF Server!Answer, Pending
  <2>5. Server(x)!ServerNext
    BY <2>2, <2>4 DEF Server!ServerNext, Pending
  <2> QED
    BY <2>5 DEF Server!ServerStep
<1> QED
  BY <1>2, <1>3

LEMMA ServesNext ==
  ASSUME IndInv, TailRemoved = FALSE, [Next]_vars, NEW x \in Conn
  PROVE  Server(x)!ServerStep
<1>1. CASE UNCHANGED vars
  <2>1. UNCHANGED <<toserver, toclient, down>>
    BY <1>1 DEF vars, links, client
  <2> QED
    BY <1>1, <2>1, IndStutter, UnseenSame
<1>2. ASSUME NEW c \in Conn, ClientNext(c) PROVE Server(x)!ServerStep
  BY <1>2, ClientServes
<1>3. ASSUME NEW c \in Conn, ExportProc(c) PROVE Server(x)!ServerStep
  <2>1. CASE ReadRequest(c)
    BY <2>1, ReadServes
  <2>2. CASE Launch(c) \/ WakeSlave(c) \/ FlushWork(c) \/ Interrupt(c) \/ ShutWork(c) \/ Exit(c)
    <3>1. Accepted' = Accepted
      BY <2>2, LaunchKeeps, LookKeeps, ExitKeeps
    <3>2. UNCHANGED <<links, client>>
      BY <2>2 DEF Launch, WakeSlave, FlushWork, Interrupt, ShutWork, Exit
    <3>3. UNCHANGED <<toserver, toclient, down>>
      BY <3>2 DEF links, client
    <3> QED
      BY <3>1, <3>3, UnseenSame
  <2>3. CASE ReadFlush(c)
    BY <2>3, FlushServes
  <2>4. CASE FlushReply(c)
    BY <2>4, ReplyKeeps, AnswerServes
  <2>5. CASE ReadError(c)
    <3>1. /\ down[c] /\ UNCHANGED <<toserver, toclient, down>>
          /\ Accepted' \subseteq Accepted /\ \A q \in Accepted \ Accepted' : q.conn = c
      BY <2>5, ErrorKeeps DEF links, client
    <3>2. {y \in Accepted' : y.conn = x} = {y \in Accepted : y.conn = x} \/ down[x]
      BY <3>1
    <3>3. Pending(x)' = Pending(x)
      BY <3>1, <3>2 DEF Pending
    <3> QED
      BY <3>1, <3>3, Unseen
  <2> QED
    BY <1>3, <2>1, <2>2, <2>3, <2>4, <2>5 DEF ExportProc
<1>4. ASSUME NEW s \in Slave, ExSlave(s) PROVE Server(x)!ServerStep
  <2>1. CASE WriteReply(s)
    BY <2>1, WriteKeeps, AnswerServes
  <2>2. CASE ~WriteReply(s)
    <3>1. Accepted' = Accepted
      BY <1>4, <2>2, SlaveMoves, TakeKeeps, WorkKeeps, FreeKeeps DEF ExSlave
    <3>2. UNCHANGED <<links, client>>
      BY <1>4, <2>2 DEF ExSlave, Enter, Sleep, Take, Pass, Link, Return, UnlinkWork, FreeJob
    <3>3. UNCHANGED <<toserver, toclient, down>>
      BY <3>2 DEF links, client
    <3> QED
      BY <3>1, <3>3, UnseenSame
  <2> QED
    BY <2>1, <2>2
<1> QED
  BY <1>1, <1>2, <1>3, <1>4 DEF Next

(* As long as the last of several waiting requests is not removed from the
   list: what the client of each connection sees is a file server that
   answers each request it has read once, with the reply to that request, in
   any order (StyxServer), whatever exportproc, the slaves, the flushes and
   the other connections do. *)
THEOREM Implements ==
  ASSUME TailRemoved = FALSE
  PROVE  Spec => ImplementsServer
<1>1. Init => IndInv
  BY IndInit
<1>2. IndInv /\ [Next]_vars => IndInv'
  BY IndNext
<1>3. Init => \A c \in Conn : Server(c)!ServerInit
  <2> SUFFICES ASSUME Init, NEW c \in Conn PROVE Server(c)!ServerInit
    OBVIOUS
  <2>1. Accepted = {}
    BY DEF Init, Accepted, ToSet, Unwritten, Busy, Answering
  <2>2. toserver[c] = <<>> /\ toclient[c] = <<>> /\ Pending(c) = {}
    BY <2>1 DEF Init, Pending
  <2> QED
    BY <2>2 DEF Server!ServerInit, Pending
<1>4. IndInv /\ [Next]_vars => [\A c \in Conn : Server(c)!ServerStep]_vars
  BY ServesNext
<1> QED
  BY <1>1, <1>2, <1>3, <1>4, PTL DEF Spec, ImplementsServer
=============================================================================
