------------------------------ MODULE NameSpace ------------------------------
(***************************************************************************)
(* Name spaces: the mount table of a process group, the channels that name *)
(* resolution makes, and what progs that share a group do to both.         *)
(* emu/chan.c, emu/sysfile.c, and the part of emu/main.c about Pgrp.       *)
(*                                                                         *)
(* A file is known by what eqchan compares.  Names are resolved from / or  *)
(* from the current directory; names that begin with # are not modelled,   *)
(* nor a last element .. in a name to mount on or to change directory to,  *)
(* and devices do not fail.  A step under pg->ns is atomic, except where   *)
(* another reader can come between.                                        *)
(***************************************************************************)
EXTENDS Integers, Sequences, SequencesExt, FiniteSets

CONSTANTS
  Proc,           \* progs, all of one group at first
  Group,          \* bound: process groups at once
  File, Plain,    \* files, and those that are not directories
  Root,
  Child, None,    \* Child[f][n]: what the device finds for n in f
  HeadOrder,      \* the files in the order of their hash values
  NChan, NMount,  \* bounds: channels and mounts at once
  Calls,          \* the calls a prog may make
  MaxCalls,       \* bound: calls of a prog
  UnmountInUse,   \* a mount is removed while a channel derived from it is used
  CopyTogether,   \* two progs may copy one group at the same time
  DotRace         \* the current directory is used while another prog of the
                  \* group is changing it

\* The elements that names are made of, and names.
Elem == DOMAIN Child[Root]
Path == [rooted : BOOLEAN, elems : Seq(Elem), none : BOOLEAN]

ASSUME NameSpaceAssumption ==
  /\ Plain \subseteq File /\ Root \in File \ Plain /\ None \notin File
  /\ IsFiniteSet(Proc) /\ Proc # {} /\ IsFiniteSet(Group) /\ Group # {}
  /\ Child \in [File -> [Elem -> File \cup {None}]] /\ ".." \in Elem
  /\ HeadOrder \in Seq(File) /\ IsInjective(HeadOrder) /\ ToSet(HeadOrder) = File
  /\ NChan \in Nat /\ NChan >= 2 /\ NMount \in Nat /\ MaxCalls \in Nat
  /\ UnmountInUse \in BOOLEAN /\ CopyTogether \in BOOLEAN /\ DotRace \in BOOLEAN

ASSUME CallsAssumption ==
  \A p \in Proc : \A q \in Calls[p] :
    /\ q.op \in {"bind", "unmount", "open", "chdir", "read", "close", "fork"}
    /\ q.op \in {"bind", "unmount"} => q.what \in Path
    /\ q.op \in {"bind", "unmount", "open", "chdir"} => q.on \in Path
    /\ q.op = "bind" => q.order \in {"after", "before", "replace"}

Chan  == 1..NChan
Mount == 1..NMount
Nil   == 0

VARIABLES
  ch,             \* the channels: of, their fields; free, the free list;
                  \* panic, a channel was closed twice
  mount,          \* Mount: mountid, next, to, copy
  head,           \* Mhead of a file in a group: from, mount
  group,          \* Pgrp: ref, slash, dot
  mountid,
  grp, fd,        \* of a prog: its group, the file it has open
  at, job,        \* where it is in which call
  name, c, w,     \* namec: what is left of the name, c.c, and walk's ac
  got,            \* the channels the call has from namec
  fork,           \* pgrpcpy: the new group, and the mounts by order
  left

walking == <<name, c, w>>
tables  == <<mount, head, group, mountid>>
vars    == <<ch, tables, grp, fd, at, job, walking, got, fork, left>>

----------------------------------------------------------------------------
(* Channels.                                                               *)

NoChan == [ref |-> 0, file |-> None, mnt |-> Nil, mountid |-> 0]

\* decref, and the free list for the last one.
Close(s, x) ==
  IF s.of[x].ref = 0 THEN [s EXCEPT !.panic = TRUE]
  ELSE IF s.of[x].ref = 1
    THEN [s EXCEPT !.of[x].ref = 0, !.free = <<x>> \o @]
    ELSE [s EXCEPT !.of[x].ref = @ - 1]

\* One after the other.
CloseAll(s, xs) ==
  LET closed[i \in 0..Len(xs)] == IF i = 0 THEN s ELSE Close(closed[i - 1], xs[i])
  IN closed[Len(xs)]

\* n[x] more references to x.
IncrefAll(s, n) == [s EXCEPT !.of = [x \in Chan |-> [s.of[x] EXCEPT !.ref = @ + n[x]]]]

\* How often x is in xs.
Count(xs, x) == Cardinality({i \in 1..Len(xs) : xs[i] = x})

\* newchan takes the channel that was freed last.
NewChan(s) == Head(s.free)
Enough(n)  == Len(ch.free) >= n

\* devclone.  The clone of a channel that was freed has CFREE too.
Clone(s, x) ==
  [s EXCEPT !.free = Tail(@),
            !.of[NewChan(s)] = [s.of[x] EXCEPT !.ref = IF @ = 0 THEN 0 ELSE 1]]

----------------------------------------------------------------------------
(* The mount table.                                                        *)

NoHead  == [from |-> Nil, mount |-> Nil]
NoMount == [mountid |-> 0, next |-> Nil, to |-> Nil, copy |-> Nil, live |-> FALSE]

\* m, m->next and so on in the mounts mt, of which there are NMount.
ListIn(mt, m) ==
  LET upto[k \in 0..NMount] ==
        [x \in Mount \cup {Nil} |->
           IF k = 0 \/ x = Nil THEN <<>> ELSE <<x>> \o upto[k - 1][mt[x].next]]
  IN upto[NMount][m]

\* The mounts from m on, those of a head, and those of all heads.
ListFrom(m) == ListIn(mount, m)
List(g, d) == ListFrom(head[g][d].mount)

Concat(ss) ==
  LET cat[i \in 0..Len(ss)] == IF i = 0 THEN <<>> ELSE cat[i - 1] \o ss[i]
  IN cat[Len(ss)]
InTable(g) == Concat([i \in 1..Len(HeadOrder) |-> List(g, HeadOrder[i])])

FileOf(x) == ch.of[x].file
To(m)     == mount[m].to
ToOf(ms)  == [i \in 1..Len(ms) |-> To(ms[i])]

\* newmount and mountfree.
Unused == {m \in Mount : ~mount[m].live}
EnoughMounts(k) == Cardinality(Unused) >= k
Fresh(k) ==
  [i \in 1..k |-> CHOOSE m \in Unused : Cardinality({x \in Unused : x < m}) = i - 1]

MountFree(mt, ms) ==
  [m \in Mount |-> IF m \in ToSet(ms) THEN [mt[m] EXCEPT !.mountid = 0, !.live = FALSE]
                                       ELSE mt[m]]

\* The mounts of a list linked in that order.
Linked(mt, ms) ==
  [m \in Mount |-> IF m \in ToSet(ms)
     THEN [mt[m] EXCEPT !.next = LET i == CHOOSE i \in 1..Len(ms) : ms[i] = m
                                 IN IF i = Len(ms) THEN Nil ELSE ms[i + 1]]
     ELSE mt[m]]

\* The first of ms that is in S.
First(ms, S) ==
  ms[CHOOSE i \in 1..Len(ms) : ms[i] \in S /\ \A j \in 1..(i - 1) : ms[j] \notin S]

\* Steps of others that hold pg->ns for reading across two steps.
Reading(g) == {p \in Proc : grp[p] = g /\ at[p] \in {"unclone", "unclone2", "copied"}}

DotUsable(p) == DotRace \/ \A q \in Proc \ {p} : grp[q] = grp[p] => at[q] # "setdot"

\* Mounts that others may still follow c->mnt to.
Followed(p) ==
  LET used == {fd[q] : q \in Proc}
              \cup {w[q] : q \in {x \in Proc \ {p} : at[x] \notin {"idle", "op"}}}
              \cup UNION {ToSet(got[q]) : q \in Proc \ {p}}
  IN UNION {ToSet(ListFrom(ch.of[x].mnt)) : x \in used \ {Nil}}

Removable(p, ms) == UnmountInUse \/ ToSet(ms) \cap Followed(p) = {}

----------------------------------------------------------------------------
(* Calls, and the names they have resolved.                                *)

NoGroup == [ref |-> 0, slash |-> Nil, dot |-> Nil]

NoPath == [rooted |-> TRUE, elems |-> <<>>, none |-> TRUE]

\* Each name of a call with namec's amode.
Names(q) ==
  CASE q.op = "bind"    -> << <<q.what, "access">>, <<q.on, "mount">> >>
    [] q.op = "unmount" -> << <<q.on, "mount">> >>
                           \o IF q.what.none THEN <<>> ELSE << <<q.what, "access">> >>
    [] q.op = "open"    -> << <<q.on, "open">> >>
    [] q.op = "chdir"   -> << <<q.on, "todir">> >>
    [] OTHER            -> <<>>

Init ==
  /\ ch = [of |-> [x \in Chan |-> IF x <= 2 THEN [NoChan EXCEPT !.ref = 1, !.file = Root]
                                  ELSE NoChan],
           free |-> [i \in 1..(NChan - 2) |-> i + 2], panic |-> FALSE]
  /\ group = [g \in Group |-> IF g = CHOOSE h \in Group : TRUE
                THEN [ref |-> Cardinality(Proc), slash |-> 1, dot |-> 2]
                ELSE NoGroup]
  /\ mount = [m \in Mount |-> NoMount]
  /\ head = [g \in Group |-> [d \in File |-> NoHead]]
  /\ mountid = 0
  /\ grp = [p \in Proc |-> CHOOSE h \in Group : TRUE] /\ fd = [p \in Proc |-> Nil]
  /\ at = [p \in Proc |-> "idle"] /\ job = [p \in Proc |-> [op |-> "none"]]
  /\ name = [p \in Proc |-> <<>>]
  /\ c = [p \in Proc |-> Nil] /\ w = [p \in Proc |-> Nil]
  /\ got = [p \in Proc |-> <<>>]
  /\ fork = [p \in Proc |-> [to |-> grp[p], order |-> <<>>]]
  /\ left = [p \in Proc |-> MaxCalls]

Ask(p, q) ==
  /\ at[p] = "idle" /\ left[p] > 0
  /\ q.op = "open" => fd[p] = Nil
  /\ q.op \in {"read", "close"} => fd[p] # Nil
  /\ at' = [at EXCEPT ![p] = "op"] /\ job' = [job EXCEPT ![p] = q]
  /\ left' = [left EXCEPT ![p] = @ - 1]
  /\ UNCHANGED <<ch, tables, grp, fd, walking, got, fork>>

----------------------------------------------------------------------------
(* namec and walk.                                                         *)

Mode(p) == Names(job[p])[Len(got[p]) + 1][2]

\* The next element of the name, or the end of namec.
Proceed(p, x, rest) ==
  /\ c' = [c EXCEPT ![p] = x] /\ w' = [w EXCEPT ![p] = x] /\ name' = [name EXCEPT ![p] = rest]
  /\ IF rest = <<>>
       THEN at' = [at EXCEPT ![p] = "op"] /\ got' = [got EXCEPT ![p] = Append(@, x)]
       ELSE /\ at' = [at EXCEPT ![p] = IF Head(rest) = ".." THEN "undo" ELSE "dev"]
            /\ UNCHANGED got

\* Whether the file found is looked up in the mount table: not the last
\* element of a name to mount on or to make the current directory.
DoMnt(p, rest) == rest # <<>> \/ Mode(p) \notin {"mount", "todir"}

\* The first element of the name is done.
Onward(p, x) ==
  IF DoMnt(p, Tail(name[p]))
    THEN /\ at' = [at EXCEPT ![p] = "domount"] /\ name' = [name EXCEPT ![p] = Tail(@)]
         /\ c' = [c EXCEPT ![p] = x] /\ w' = [w EXCEPT ![p] = x]
         /\ UNCHANGED got
    ELSE Proceed(p, x, Tail(name[p]))

\* Clone slash or dot.
Start(p) ==
  /\ at[p] = "op" /\ Len(got[p]) < Len(Names(job[p])) /\ Enough(1)
  /\ LET path == Names(job[p])[Len(got[p]) + 1][1]
         from == IF path.rooted THEN group[grp[p]].slash ELSE group[grp[p]].dot
     IN /\ path.rooted \/ DotUsable(p)
        /\ ch' = Clone(ch, from)
        /\ IF path.elems # <<>> \/ Mode(p) \in {"access", "open"} \/ (path.rooted /\ Mode(p) = "todir")
             THEN /\ at' = [at EXCEPT ![p] = "domount"]
                  /\ c' = [c EXCEPT ![p] = NewChan(ch)] /\ w' = [w EXCEPT ![p] = NewChan(ch)]
                  /\ name' = [name EXCEPT ![p] = path.elems]
                  /\ UNCHANGED got
             ELSE Proceed(p, NewChan(ch), path.elems)
  /\ UNCHANGED <<tables, grp, fd, job, fork, left>>

\* The channel of a directory that is mounted on gives way to one of the
\* first directory of its union.
DoMount(p) ==
  /\ at[p] = "domount" /\ Enough(1)
  /\ LET m == head[grp[p]][FileOf(w[p])].mount
         y == NewChan(ch)
     IN IF m = Nil
          THEN /\ ch' = [ch EXCEPT !.of[w[p]].mnt = Nil]
               /\ Proceed(p, w[p], name[p])
          ELSE /\ ch' = Close([Clone(ch, To(m)) EXCEPT
                                 !.of[y].mnt = m, !.of[y].mountid = mount[m].mountid], w[p])
               /\ Proceed(p, y, name[p])
  /\ UNCHANGED <<tables, grp, fd, job, fork, left>>

\* Every directory that x is mounted on, one after the other: from the root
\* of a mount to where it is mounted, and on.
MountedOn(g, x) ==
  LET hop[i \in 0..Len(HeadOrder)] ==
        IF i = 0 THEN [file |-> x, from |-> Nil]
        ELSE LET up == hop[i - 1]
                 d == HeadOrder[i]
             IN IF \E m \in ToSet(List(g, d)) : FileOf(To(m)) = up.file
                  THEN [file |-> d, from |-> head[g][d].from] ELSE up
  IN hop[Len(HeadOrder)].from

\* undomount closes the channel first,
Undo(p, here, mid, next) ==
  /\ at[p] = here
  /\ LET from == MountedOn(grp[p], FileOf(w[p])) IN
     IF from = Nil
       THEN at' = [at EXCEPT ![p] = next] /\ UNCHANGED <<ch, w>>
       ELSE /\ at' = [at EXCEPT ![p] = mid]
            /\ ch' = Close(ch, w[p])
            /\ w' = [w EXCEPT ![p] = from]
  /\ UNCHANGED <<tables, grp, fd, job, c, name, got, fork, left>>

\* and clones the other after that.
Unclone(p, mid, next) ==
  /\ at[p] = mid /\ Enough(1)
  /\ ch' = Clone(ch, w[p])
  /\ w' = [w EXCEPT ![p] = NewChan(ch)]
  /\ at' = [at EXCEPT ![p] = next]
  /\ UNCHANGED <<tables, grp, fd, job, c, name, got, fork, left>>

Found(x, n) == Child[x][n] # None

\* The device walks the channel itself,
Walk(p) ==
  /\ at[p] = "dev" /\ Found(FileOf(w[p]), Head(name[p]))
  /\ ch' = [ch EXCEPT !.of[w[p]].file = Child[@][Head(name[p])]]
  /\ IF Head(name[p]) = ".."
       THEN at' = [at EXCEPT ![p] = "undo2"] /\ UNCHANGED <<walking, got>>
       ELSE Onward(p, w[p])
  /\ UNCHANGED <<tables, grp, fd, job, fork, left>>

\* or one of the directories of the union the channel was derived from has
\* the file.
Members(p) == {m \in ToSet(ListFrom(ch.of[w[p]].mnt)) : Found(FileOf(To(m)), Head(name[p]))}

WalkUnion(p) ==
  /\ at[p] = "dev" /\ ~Found(FileOf(w[p]), Head(name[p]))
  /\ Members(p) # {} /\ Enough(1)
  /\ LET y == NewChan(ch)
         m == First(ListFrom(ch.of[w[p]].mnt), Members(p)) IN
     /\ ch' = Close([Clone(ch, To(m)) EXCEPT
                       !.of[y].file = Child[@][Head(name[p])], !.of[y].mnt = Nil], w[p])
     /\ IF Head(name[p]) = ".."
          THEN /\ at' = [at EXCEPT ![p] = "undo2"] /\ w' = [w EXCEPT ![p] = y]
               /\ UNCHANGED <<c, name, got>>
          ELSE Onward(p, y)
  /\ UNCHANGED <<tables, grp, fd, job, fork, left>>

\* The call fails, and closes the channels it has.  namec closes c.c, which
\* walk has not told that undomount has closed it.
WalkFails(p) ==
  /\ at[p] = "dev" /\ ~Found(FileOf(w[p]), Head(name[p])) /\ Members(p) = {}
  /\ ch' = CloseAll(ch, <<c[p]>> \o got[p])
  /\ at' = [at EXCEPT ![p] = "idle"] /\ got' = [got EXCEPT ![p] = <<>>]
  /\ UNCHANGED <<tables, grp, fd, job, walking, fork, left>>

Walked(p) ==
  /\ at[p] = "walked"
  /\ Onward(p, w[p])
  /\ UNCHANGED <<ch, tables, grp, fd, job, fork, left>>

----------------------------------------------------------------------------
(* The calls, once they have their channels.                               *)

Ready(p, op) == at[p] = "op" /\ job[p].op = op /\ Len(got[p]) = Len(Names(job[p]))

Return(p) == at' = [at EXCEPT ![p] = "idle"] /\ got' = [got EXCEPT ![p] = <<>>]

\* The mounts on d that cunmount takes away: all, or the first of what was
\* mounted.
Taken(p, d) ==
  LET ms   == List(grp[p], d)
      same == {m \in ToSet(ms) : FileOf(To(m)) = FileOf(got[p][2])}
  IN IF Len(got[p]) = 1 THEN ms ELSE IF same = {} THEN <<>> ELSE <<First(ms, same)>>

\* What is left of ms, all or one of which is gone.
Without(ms, gone) ==
  IF gone = ms THEN <<>> ELSE RemoveAt(ms, CHOOSE i \in 1..Len(ms) : ms[i] = gone[1])

\* Emount; Eunmount and Eunion; Enotdir.
Refused(p) ==
  CASE job[p].op = "bind" ->
         LET d == FileOf(got[p][2]) IN
         (d \in Plain) # (FileOf(got[p][1]) \in Plain) \/ (d \in Plain /\ job[p].order # "replace")
    [] job[p].op = "unmount" -> Taken(p, FileOf(got[p][1])) = <<>>
    [] job[p].op = "chdir"   -> FileOf(got[p][1]) \in Plain
    [] OTHER -> FALSE

(* Mutant: the directory is added to its union at every bind. *)
OwnMemberAlways(from, old, order) == IF order = "replace" THEN <<>> ELSE <<old>>

\* A directory that nothing was mounted on becomes a member of its union.
OwnMember(from, old, order) == IF from # Nil \/ order = "replace" THEN <<>> ELSE <<old>>

\* MAFTER, or MBEFORE and MREPL.
Joined(order, base, nms) == IF order = "after" THEN base \o nms ELSE nms \o base

\* The mounts ms of the channels to, with ids of their own.
Made(to, ms) ==
  [m \in Mount |-> IF m \in ToSet(ms)
     THEN LET i == CHOOSE i \in 1..Len(ms) : ms[i] = m
          IN [NoMount EXCEPT !.mountid = mountid + i, !.to = to[i], !.live = TRUE]
     ELSE mount[m]]

\* cmount of new on old, and the end of bindmount and kbind.  When new is a
\* union all of it is bound; order is kept.
Bind(p) ==
  LET new   == got[p][1]
      old   == got[p][2]
      g     == grp[p]
      d     == FileOf(old)
      hd    == head[g][d]
      order == job[p].order
      self  == OwnMember(hd.from, old, order)
      more  == IF ch.of[new].mnt = Nil THEN <<>> ELSE Tail(ListFrom(ch.of[new].mnt))
      to    == self \o <<new>> \o ToOf(more)
      gone  == IF order = "replace" THEN List(g, d) ELSE <<>>
  IN
  /\ Ready(p, "bind")
  /\ Reading(g) = {} /\ ~Refused(p)
  /\ EnoughMounts(Len(to)) /\ Removable(p, gone)
  /\ LET ms   == Fresh(Len(to))
         base == IF order = "replace" THEN <<>> ELSE SubSeq(ms, 1, Len(self)) \o List(g, d)
         nms  == SubSeq(ms, Len(self) + 1, Len(ms))
         chain == Joined(order, base, nms)
     IN /\ mount' = MountFree(Linked(Made(to, ms), chain), gone)
        /\ head'  = [head EXCEPT ![g][d] = [from |-> IF hd.from = Nil THEN old ELSE @.from,
                                            mount |-> chain[1]]]
  /\ mountid' = mountid + Len(to)
  /\ ch' = CloseAll(IncrefAll(ch, [x \in Chan |->
                      Count(to, x) + IF hd.from = Nil /\ x = old THEN 1 ELSE 0]),
                    ToOf(gone) \o <<old, new>>)
  /\ Return(p)
  /\ UNCHANGED <<group, grp, fd, job, walking, fork, left>>

\* The mounts and the channel of an empty head are freed after wunlock;
\* nobody finds them then.
Unmount(p) ==
  /\ Ready(p, "unmount")
  /\ LET g    == grp[p]
         d    == FileOf(got[p][1])
         gone == Taken(p, d)
         kept == Without(List(g, d), gone)
         from == head[g][d].from
     IN /\ ~Refused(p) /\ Reading(g) = {} /\ Removable(p, gone)
        /\ mount' = MountFree(Linked(mount, kept), gone)
        /\ head' = [head EXCEPT ![g][d] = IF kept = <<>> THEN NoHead
                                          ELSE [@ EXCEPT !.mount = kept[1]]]
        /\ ch' = CloseAll(ch, ToOf(gone) \o (IF kept = <<>> THEN <<from>> ELSE <<>>) \o got[p])
  /\ Return(p)
  /\ UNCHANGED <<group, mountid, grp, fd, job, walking, fork, left>>

Refuse(p) ==
  /\ at[p] = "op" /\ Len(got[p]) = Len(Names(job[p])) /\ Refused(p)
  /\ ch' = CloseAll(ch, IF job[p].op = "bind" THEN <<got[p][2], got[p][1]>> ELSE got[p])
  /\ Return(p)
  /\ UNCHANGED <<tables, grp, fd, job, walking, fork, left>>

Open(p) ==
  /\ Ready(p, "open")
  /\ fd' = [fd EXCEPT ![p] = got[p][1]]
  /\ Return(p)
  /\ UNCHANGED <<ch, tables, grp, job, walking, fork, left>>

CloseFd(p) ==
  /\ Ready(p, "close")
  /\ ch' = Close(ch, fd[p]) /\ fd' = [fd EXCEPT ![p] = Nil]
  /\ Return(p)
  /\ UNCHANGED <<tables, grp, job, walking, fork, left>>

\* unionread: the directory that c->mnt shows, or when it has no more the
\* next that has; at the end c->mnt is 0.  When the mount is gone, that shows
\* only after its directory has been cloned.
Read(p) ==
  LET x == fd[p]
      m == ch.of[x].mnt
  IN
  /\ Ready(p, "read") /\ m # Nil /\ Enough(1)
  /\ IF mount[m].mountid = ch.of[x].mountid
       THEN \E n \in ToSet(ListFrom(m)) \cup {Nil} :
              ch' = [ch EXCEPT !.of[x].mnt = n,
                               !.of[x].mountid = IF n = Nil THEN @ ELSE mount[n].mountid]
       ELSE ch' = Close(Clone(ch, To(m)), NewChan(ch))
  /\ Return(p)
  /\ UNCHANGED <<tables, grp, fd, job, walking, fork, left>>

ReadFile(p) ==
  /\ Ready(p, "read") /\ ch.of[fd[p]].mnt = Nil
  /\ Return(p)
  /\ UNCHANGED <<ch, tables, grp, fd, job, walking, fork, left>>

\* kchdir, without a lock.
ChdirClose(p) ==
  /\ Ready(p, "chdir") /\ ~Refused(p) /\ DotUsable(p)
  /\ ch' = Close(ch, group[grp[p]].dot)
  /\ at' = [at EXCEPT ![p] = "setdot"]
  /\ UNCHANGED <<tables, grp, fd, job, walking, got, fork, left>>

ChdirSet(p) ==
  /\ at[p] = "setdot"
  /\ group' = [group EXCEPT ![grp[p]].dot = got[p][1]]
  /\ Return(p)
  /\ UNCHANGED <<ch, mount, head, mountid, grp, fd, job, walking, fork, left>>

----------------------------------------------------------------------------
(* Sys_pctl with FORKNS: pgrpcpy and closepgrp.                            *)

(* Mutant: the mounts are taken as they are found. *)
pgrpappend(order, m) == Append(order, m)

\* The mounts of g from the oldest.
pgrpinsert(order, m) ==
  LET older == {i \in 1..Len(order) : mount[order[i]].mountid <= mount[m].mountid}
  IN InsertAt(order, 1 + Cardinality(older), m)
ByMountid(g) ==
  LET ms == InTable(g)
      order[i \in 0..Len(ms)] == IF i = 0 THEN <<>> ELSE pgrpinsert(order[i - 1], ms[i])
  IN order[Len(ms)]

\* A copy of every head and mount; each mount points to its copy.
ForkCopy(p) ==
  LET g  == grp[p]
      h  == CHOOSE x \in Group : group[x].ref = 0
      ms == ByMountid(g)
  IN
  /\ Ready(p, "fork")
  /\ \E x \in Group : group[x].ref = 0
  /\ EnoughMounts(Len(ms))
  /\ CopyTogether \/ \A q \in Proc : grp[q] = g => at[q] # "copied"
  /\ LET new  == Fresh(Len(ms))
         copy == [m \in ToSet(ms) |-> new[CHOOSE i \in 1..Len(ms) : ms[i] = m]]
     IN /\ mount' = [m \in Mount |->
             IF m \in ToSet(new)
               THEN LET old == ms[CHOOSE i \in 1..Len(ms) : new[i] = m]
                        nx  == mount[old].next
                    IN [NoMount EXCEPT !.to = To(old), !.live = TRUE,
                                       !.next = IF nx = Nil THEN Nil ELSE copy[nx]]
             ELSE IF m \in ToSet(ms) THEN [mount[m] EXCEPT !.copy = copy[m]]
             ELSE mount[m]]
        /\ head' = [head EXCEPT ![h] = [d \in File |->
             IF head[g][d].from = Nil THEN NoHead
             ELSE [head[g][d] EXCEPT !.mount = copy[@]]]]
  /\ ch' = IncrefAll(ch, [x \in Chan |->
             Count(ToOf(ms), x) + Cardinality({d \in File : head[g][d].from = x})])
  /\ group' = [group EXCEPT ![h].ref = 1]
  /\ fork' = [fork EXCEPT ![p] = [to |-> h, order |-> ms]]
  /\ at' = [at EXCEPT ![p] = "copied"]
  /\ UNCHANGED <<mountid, grp, fd, job, walking, got, left>>

(* Mutant: the directories that were mounted on are not closed. *)
HeldMounts(g) == ToOf(InTable(g)) \o <<group[g].slash, group[g].dot>>

\* The channels that a group with one reference left holds.
Held(g) ==
  LET of(d) == IF head[g][d].from = Nil THEN <<>> ELSE <<head[g][d].from>> \o ToOf(List(g, d))
  IN Concat([i \in 1..Len(HeadOrder) |-> of(HeadOrder[i])]) \o <<group[g].slash, group[g].dot>>

\* Mount ids for the copies, a slash and a dot, and the old group is left.
ForkIds(p) ==
  LET g    == grp[p]
      h    == fork[p].to
      ms   == fork[p].order
      last == group[g].ref = 1
      from(m)  == {i \in 1..Len(ms) : mount[ms[i]].copy = m}
      numbered == [m \in Mount |-> IF from(m) = {} THEN mount[m]
                    ELSE [mount[m] EXCEPT !.mountid = mountid + (CHOOSE i \in from(m) : TRUE) - 1]]
      two  == Clone(Clone(ch, group[g].slash), group[g].dot)
  IN
  /\ at[p] = "copied" /\ Enough(2) /\ DotUsable(p)
  /\ last => Removable(p, InTable(g))
  /\ mountid' = mountid + Len(ms)
  /\ mount' = IF last THEN MountFree(numbered, InTable(g)) ELSE numbered
  /\ head' = IF last THEN [head EXCEPT ![g] = [d \in File |-> NoHead]] ELSE head
  /\ ch' = IF last THEN CloseAll(two, Held(g)) ELSE two
  /\ group' = [group EXCEPT ![h] = [ref |-> 1, slash |-> ch.free[1], dot |-> ch.free[2]],
                            ![g] = IF last THEN NoGroup
                                   ELSE [group[g] EXCEPT !.ref = @ - 1]]
  /\ grp' = [grp EXCEPT ![p] = h]
  /\ fork' = [fork EXCEPT ![p] = [to |-> h, order |-> <<>>]]
  /\ Return(p)
  /\ UNCHANGED <<fd, job, walking, left>>

Next ==
  \E p \in Proc :
    \/ \E q \in Calls[p] : Ask(p, q)
    \/ Start(p) \/ DoMount(p) \/ Walk(p) \/ WalkUnion(p) \/ WalkFails(p) \/ Walked(p)
    \/ Undo(p, "undo", "unclone", "dev") \/ Unclone(p, "unclone", "dev")
    \/ Undo(p, "undo2", "unclone2", "walked") \/ Unclone(p, "unclone2", "walked")
    \/ Bind(p) \/ Unmount(p) \/ Refuse(p)
    \/ Open(p) \/ CloseFd(p) \/ Read(p) \/ ReadFile(p)
    \/ ChdirClose(p) \/ ChdirSet(p)
    \/ ForkCopy(p) \/ ForkIds(p)

Spec == Init /\ [][Next]_vars

----------------------------------------------------------------------------
(* Properties.                                                             *)

Labels == {"idle", "op", "domount", "undo", "unclone", "dev", "undo2", "unclone2", "walked",
           "setdot", "copied"}

TypeOK ==
  /\ ch \in [of : [Chan -> [ref : Nat, file : File \cup {None}, mnt : Mount \cup {Nil},
                            mountid : Nat]],
             free : Seq(Chan), panic : BOOLEAN]
  /\ mount \in [Mount -> [mountid : Nat, next : Mount \cup {Nil}, to : Chan \cup {Nil},
                          copy : Mount \cup {Nil}, live : BOOLEAN]]
  /\ head \in [Group -> [File -> [from : Chan \cup {Nil}, mount : Mount \cup {Nil}]]]
  /\ group \in [Group -> [ref : Nat, slash : Chan \cup {Nil}, dot : Chan \cup {Nil}]]
  /\ mountid \in Nat /\ grp \in [Proc -> Group] /\ fd \in [Proc -> Chan \cup {Nil}]
  /\ at \in [Proc -> Labels] /\ job = [p \in Proc |-> job[p]]
  /\ name \in [Proc -> Seq(Elem)]
  /\ c \in [Proc -> Chan \cup {Nil}] /\ w \in [Proc -> Chan \cup {Nil}]
  /\ got \in [Proc -> Seq(Chan)] /\ \A p \in Proc : Len(got[p]) <= 2
  /\ fork \in [Proc -> [to : Group, order : Seq(Mount)]]
  /\ left \in [Proc -> Nat]

\* cclose never finds that the channel has been freed.
NoClosePanic == ~ch.panic

\* Who has a channel: mounts and heads, groups, files that are open, and
\* calls.
HasWalk == {"domount", "undo", "dev", "undo2", "walked"}

MountsTo(x)  == {m \in Mount : mount[m].live /\ To(m) = x}
HeadsOf(x)   == {gd \in Group \X File : head[gd[1]][gd[2]].from = x}
SlashesOf(x) == {g \in Group : group[g].slash = x}
DotsOf(x)    == {g \in Group : group[g].dot = x
                               /\ \A p \in Proc : grp[p] = g => at[p] # "setdot"}
FdsOf(x)     == {p \in Proc : fd[p] = x}
WalksOf(x)   == {p \in Proc : w[p] = x /\ at[p] \in HasWalk}
GotOf(i, x)  == {p \in Proc : i <= Len(got[p]) /\ got[p][i] = x}

Refs(x) ==
    Cardinality(MountsTo(x)) + Cardinality(HeadsOf(x))
  + Cardinality(SlashesOf(x)) + Cardinality(DotsOf(x))
  + Cardinality(FdsOf(x)) + Cardinality(WalksOf(x))
  + Cardinality(GotOf(1, x)) + Cardinality(GotOf(2, x))

\* A channel counts those that have it, whatever becomes of the calls that
\* made it: none is closed while it is used, and none is left open.
RefsExact == \A x \in Chan : ch.of[x].ref = Refs(x)

\* The mounts of a copy have their ids in the order of the mounts they were
\* copied from.
CopyInOrder ==
  [][\A p \in Proc : at[p] = "copied" /\ at'[p] = "idle" =>
       \A d, e \in File :
         \A i \in 1..Len(List(grp[p], d)), j \in 1..Len(List(grp[p], e)) :
           mount[List(grp[p], d)[i]].mountid < mount[List(grp[p], e)[j]].mountid
           <=> mount'[List(fork[p].to, d)[i]].mountid < mount'[List(fork[p].to, e)[j]].mountid]_vars

\* The mount table of a group, with its lists and copies, is the unions that
\* its binds and unmounts made, and nothing that another group does shows.
Shown ==
  [g \in Group |-> [d \in File |-> [i \in 1..Len(List(g, d)) |-> FileOf(To(List(g, d)[i]))]]]

U == INSTANCE Unions WITH union <- Shown

ImplementsUnions == U!Spec

----------------------------------------------------------------------------
(* The inductive invariant.                                                *)

\* The scenario: progs keep out of each other's way where the code does not,
\* and .. is always found.
Orderly ==
  /\ ~UnmountInUse /\ ~CopyTogether /\ ~DotRace
  /\ \A f \in File : Child[f][".."] # None

\* The channels on the free list are those that nobody has.
ChanInv ==
  /\ ~ch.panic
  /\ IsInjective(ch.free)
  /\ \A x \in Chan : ch.of[x].ref = 0 <=> x \in ToSet(ch.free)
  /\ \A x \in Chan : ch.of[x].ref > 0 => ch.of[x].file \in File

\* A channel of a call or of an open file has no other reference.
Private ==
  \A x \in Chan : ch.of[x].ref > 1 =>
    FdsOf(x) = {} /\ WalksOf(x) = {} /\ GotOf(1, x) = {} /\ GotOf(2, x) = {}

\* ms are the mounts from m on.
IsList(mt, ms, m) ==
  /\ ms \in Seq(Mount) /\ IsInjective(ms)
  /\ m = IF ms = <<>> THEN Nil ELSE ms[1]
  /\ \A i \in 1..Len(ms) : mt[ms[i]].next = IF i = Len(ms) THEN Nil ELSE ms[i + 1]

MountsOn(g, d) == ToSet(List(g, d))
Table(g) == UNION {MountsOn(g, d) : d \in File}

\* The lists of the heads end, and share nothing.
ListInv ==
  /\ \A g \in Group, d \in File :
       /\ IsList(mount, List(g, d), head[g][d].mount)
       /\ head[g][d].from = Nil <=> head[g][d].mount = Nil
       /\ \A m \in MountsOn(g, d) : mount[m].live
  /\ \A g, h \in Group, d, e \in File : g # h \/ d # e => MountsOn(g, d) \cap MountsOn(h, e) = {}
  /\ \A m \in Mount : mount[m].live => To(m) \in Chan

Users(g) == {p \in Proc : grp[p] = g}
Grows(g) == \E p \in Proc : at[p] = "copied" /\ fork[p].to = g

\* A group is used, is being made for one prog, or is free.
GroupInv ==
  /\ \A g \in Group :
       /\ group[g].ref = Cardinality(Users(g)) + IF Grows(g) THEN 1 ELSE 0
       /\ Users(g) # {} => group[g].slash \in Chan /\ group[g].dot \in Chan
       /\ Users(g) = {} => group[g].slash = Nil /\ group[g].dot = Nil
       /\ Users(g) = {} /\ ~Grows(g) => \A d \in File : head[g][d] = NoHead
  /\ \A p \in Proc : at[p] = "copied" =>
       /\ Users(fork[p].to) = {}
       /\ \A q \in Proc \ {p} : at[q] = "copied" => fork[q].to # fork[p].to

\* What a call has at each of its steps.
Calling(p) ==
  /\ at[p] = "idle" => got[p] = <<>>
  /\ at[p] # "idle" =>
       /\ job[p] \in Calls[p] /\ Len(got[p]) <= Len(Names(job[p]))
       /\ job[p].op = "open" => fd[p] = Nil
       /\ job[p].op \in {"read", "close"} => fd[p] # Nil
  /\ at[p] \in HasWalk \cup {"unclone", "unclone2"} =>
       Len(got[p]) < Len(Names(job[p])) /\ w[p] \in Chan
  /\ at[p] \in {"undo", "unclone", "dev", "undo2", "unclone2", "walked"} => name[p] # <<>>
  /\ at[p] \in {"undo", "unclone"} => Head(name[p]) = ".."
  /\ at[p] = "dev" /\ Head(name[p]) # ".." => c[p] = w[p]
  /\ at[p] = "setdot" => job[p].op = "chdir" /\ Len(got[p]) = 1
  /\ at[p] = "copied" => job[p].op = "fork"
CallInv == \A p \in Proc : Calling(p)

\* Those that are between two steps of which nothing may come between.
Between(p) ==
  /\ at[p] \in {"unclone", "unclone2"} => \E d \in File : head[grp[p]][d].from = w[p]
  /\ \A q \in Proc \ {p} : grp[q] = grp[p] =>
       /\ at[p] = "setdot" => at[q] # "setdot"
       /\ at[p] = "copied" => at[q] # "copied"
BetweenInv == \A p \in Proc : Between(p)

\* The mounts of a group have ids of their own.
IdInv ==
  \A g \in Group : Users(g) # {} =>
    \A m, n \in Table(g) :
      mount[m].mountid <= mountid /\ (m # n => mount[m].mountid # mount[n].mountid)

\* The lists of a group that is being made are the copies of its parent's;
\* order has the parent's mounts by their ids.
Copying(p) ==
  at[p] = "copied" =>
    /\ \A d \in File :
         /\ Len(List(fork[p].to, d)) = Len(List(grp[p], d))
         /\ \A i \in 1..Len(List(grp[p], d)) :
              List(fork[p].to, d)[i] = mount[List(grp[p], d)[i]].copy
    /\ ToSet(fork[p].order) = Table(grp[p])
    /\ \A i, j \in 1..Len(fork[p].order) : i < j =>
         mount[fork[p].order[i]].mountid < mount[fork[p].order[j]].mountid
CopyInv == \A p \in Proc : Copying(p)

\* The mount that x was derived from is one of g.
ShowsIn(g, x) ==
  ch.of[x].mnt # Nil =>
    /\ ch.of[x].mnt \in Table(g)
    /\ mount[ch.of[x].mnt].mountid = ch.of[x].mountid

GotShows(p, i) ==
  Names(job[p])[i][2] \in {"access", "open"} =>
    /\ ShowsIn(grp[p], got[p][i])
    /\ ch.of[got[p][i]].mnt # Nil => FileOf(got[p][i]) = FileOf(To(ch.of[got[p][i]].mnt))
FdShows(p) == fd[p] # Nil => \E g \in Group : Users(g) # {} /\ ShowsIn(g, fd[p])
Showing(p) ==
  /\ at[p] = "dev" /\ Head(name[p]) # ".." => ShowsIn(grp[p], w[p])
  /\ \A i \in 1..Len(got[p]) : GotShows(p, i)
  /\ FdShows(p)
ShowsInv == \A p \in Proc : Showing(p)

IndInv ==
  /\ TypeOK /\ ChanInv /\ RefsExact /\ Private /\ ListInv /\ GroupInv /\ CallInv
  /\ BetweenInv /\ IdInv /\ CopyInv /\ ShowsInv
=============================================================================
