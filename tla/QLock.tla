------------------------------- MODULE QLock -------------------------------
(***************************************************************************)
(* The queueing lock of emu/lock.c.  The spin lock `use' of a QLock is     *)
(* held from the first to the last line that touches the structure and     *)
(* released before the process blocks, so what happens to the structure    *)
(* in one call is one operator here; the rendezvous that follows is a      *)
(* step of the caller.  head/tail and the qnext links are the sequence     *)
(* queue.                                                                  *)
(***************************************************************************)
EXTENDS Sequences

QLockFree == [locked |-> FALSE, queue |-> <<>>]

QLockType(P) == [locked : BOOLEAN, queue : Seq(P)]

(* Mutant: a waiter joins at the head. *)
QLockTakeLifo(q, p) ==
  IF q.locked THEN [q EXCEPT !.queue = <<p>> \o @]
              ELSE [q EXCEPT !.locked = TRUE]

(* qlock by p: take the lock, or join the tail of the queue. *)
QLockTake(q, p) ==
  IF q.locked THEN [q EXCEPT !.queue = Append(@, p)]
              ELSE [q EXCEPT !.locked = TRUE]

(* canqlock: take the lock if it is free, never queue. *)
QLockTry(q) == [q EXCEPT !.locked = TRUE]

(* Mutant: the lock is opened although it was passed on. *)
QLockPassOpen(q) ==
  [locked |-> FALSE, queue |-> IF q.queue # <<>> THEN Tail(q.queue) ELSE <<>>]

(* qunlock: the lock stays locked and passes to the head of the queue. *)
QLockPass(q) ==
  IF q.queue # <<>> THEN [q EXCEPT !.queue = Tail(@)]
                    ELSE [q EXCEPT !.locked = FALSE]
=============================================================================
