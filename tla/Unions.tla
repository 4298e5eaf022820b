------------------------------- MODULE Unions --------------------------------
(***************************************************************************)
(* What binds, unmounts and forks promise: every name space gives each     *)
(* directory a union, the directories it shows in the order in which they  *)
(* are searched, or nothing when nothing is mounted on it.  A call changes *)
(* the union of one directory in one name space and is done at once.       *)
(***************************************************************************)
EXTENDS Integers, Sequences

CONSTANTS Group, File

VARIABLE union      \* Group, File: a sequence of files

Init == union = [g \in Group |-> [d \in File |-> <<>>]]

Suffixes(s) == {SubSeq(s, i, Len(s)) : i \in 1..Len(s)}

\* What can be bound: a file, or a union from one of its members on.
Bindable(g) == {<<x>> : x \in File} \cup UNION {Suffixes(union[g][d]) : d \in File}

\* A directory that is not mounted on yet is a member of its own union.
Base(g, d) == IF union[g][d] = <<>> THEN <<d>> ELSE union[g][d]

Becomes(g, d, s) == union' = [union EXCEPT ![g][d] = s]

Replace(g, d, s) == Becomes(g, d, s)
Before(g, d, s)  == Becomes(g, d, s \o Base(g, d))
After(g, d, s)   == Becomes(g, d, Base(g, d) \o s)

Unmount(g, d) == Becomes(g, d, <<>>)

UnmountOne(g, d, x) ==
  \E i \in 1..Len(union[g][d]) :
    /\ union[g][d][i] = x
    /\ \A j \in 1..(i - 1) : union[g][d][j] # x
    /\ Becomes(g, d, SubSeq(union[g][d], 1, i - 1) \o
                     SubSeq(union[g][d], i + 1, Len(union[g][d])))

Empty(g) == \A d \in File : union[g][d] = <<>>

Fork(g, h) == Empty(h) /\ union' = [union EXCEPT ![h] = union[g]]

Release(g) == union' = [union EXCEPT ![g] = [d \in File |-> <<>>]]

\* A call that leaves every union as it was is a stuttering step.
Next ==
  union' # union /\ \E g \in Group :
    \/ \E d, x \in File : Unmount(g, d) \/ UnmountOne(g, d, x)
    \/ \E d \in File, s \in Bindable(g) : Replace(g, d, s) \/ Before(g, d, s) \/ After(g, d, s)
    \/ \E h \in Group \ {g} : Fork(g, h)
    \/ Release(g)

Spec == Init /\ [][Next]_union
=============================================================================
