----------------------------- MODULE MCNameSpace -----------------------------
\* Two directories under the root, one with a subdirectory, and two files.
EXTENDS NameSpace

CONSTANTS p1, p2, root, a, b, s, u, v

MCChild ==
  [f \in File |->
    [n \in {"a", "b", "s", "x", "y", ".."} |->
      CASE n = ".." -> IF f = s THEN b ELSE IF f \in {u, v} THEN None ELSE root
        [] f = root /\ n = "a" -> a
        [] f = root /\ n = "b" /\ b \in File -> b
        [] f = root /\ n = "x" /\ u \in File -> u
        [] f = root /\ n = "y" /\ v \in File -> v
        [] f = b /\ n = "s" -> s
        [] OTHER -> None]]

MCHeadOrder == <<root, a, b, s>>
UpHeadOrder == <<root, a, u, v>>

P(es) == [rooted |-> TRUE, elems |-> es, none |-> FALSE]
Dot(es) == [rooted |-> FALSE, elems |-> es, none |-> FALSE]

BindOf(what, on, order) == [op |-> "bind", what |-> what, on |-> on, order |-> order]
UnmountOf(what, on)     == [op |-> "unmount", what |-> what, on |-> on]
On(op, path)            == [op |-> op, on |-> path]
Plainly(op)             == [op |-> op]

pa == P(<<"a">>)
pb == P(<<"b">>)

MCCalls == [p \in {p1, p2} |->
  IF p = p1
    THEN {BindOf(pb, pa, "after"), BindOf(pb, pa, "before"), BindOf(pa, pb, "replace"),
          UnmountOf(NoPath, pa), UnmountOf(pb, pa), Plainly("fork")}
    ELSE {On("open", pa), On("open", Dot(<<"a", "s", "..", "..">>)), On("chdir", pa),
          Plainly("read"), Plainly("close"), Plainly("fork")}]

\* One prog binds, opens, unmounts and reads.
StaleCalls == [p \in {p1} |->
  {BindOf(pb, pa, "before"), On("open", pa), UnmountOf(NoPath, pa),
   Plainly("read")}]

\* Two progs change the current directory.
DotCalls == [p \in {p1, p2} |-> {On("chdir", pa)}]

\* Two progs copy their name space, in which something is mounted.
CopyCalls == [p \in {p1, p2} |-> {BindOf(pb, pa, "before"), Plainly("fork")}]

\* A file is bound onto a file and ".." is asked of it, which it refuses.
UpCalls == [p \in {p1, p2} |->
  IF p = p1 THEN {BindOf(P(<<"y">>), P(<<"x">>), "replace"), On("open", P(<<"x", "..">>))}
  ELSE {On("open", pa)}]
=============================================================================
