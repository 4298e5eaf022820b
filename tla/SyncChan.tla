------------------------------ MODULE SyncChan ------------------------------
(***************************************************************************)
(* What the channels of Dis promise, without queues, alt pointers or a     *)
(* scheduler: a prog offers to send or to receive on some channels; two    *)
(* progs with complementary offers meet on one channel; and no prog waits  *)
(* while another that it could meet is waiting.                            *)
(***************************************************************************)
CONSTANTS Progs, Chans, NoProg, NoChan

VARIABLES
  offers,       \* offers[p]: what the blocked prog p would do
  last          \* peer, channel and direction of p's last communication

vars == <<offers, last>>

Dirs == {"send", "recv"}

Dual(d) == IF d = "send" THEN "recv" ELSE "send"

NoLast == <<NoProg, NoChan, "send">>

Init ==
  /\ offers = [p \in Progs |-> {}]
  /\ last = [p \in Progs |-> NoLast]

(* Nobody waits with an offer that complements one of O. *)
Unmatched(O) ==
  \A q \in Progs, c \in Chans, d \in Dirs :
    <<c, d>> \in O => <<c, Dual(d)>> \notin offers[q] \union O

(* p has to wait. *)
Offer(p) ==
  /\ offers[p] = {} /\ offers'[p] # {}
  /\ \E O \in SUBSET (Chans \X Dirs) :
       Unmatched(O) /\ offers' = [offers EXCEPT ![p] = O]
  /\ last' = [last EXCEPT ![p] = NoLast]

(* p meets q, which has been waiting, and neither waits any longer. *)
Meet(p, q, c, d) ==
  /\ p # q
  /\ last' = [last EXCEPT ![p] = <<q, c, d>>, ![q] = <<p, c, Dual(d)>>]
  /\ offers[p] = {}
  /\ <<c, Dual(d)>> \in offers[q]
  /\ offers' = [offers EXCEPT ![q] = {}]

(* p is killed or interrupted while it waits, or forgets its last partner. *)
Cancel(p) ==
  /\ offers' = [offers EXCEPT ![p] = {}]
  /\ last' = [last EXCEPT ![p] = NoLast]

Next ==
  \E p \in Progs :
    \/ Cancel(p)
    \/ Offer(p)
    \/ \E q \in Progs, c \in Chans, d \in Dirs : Meet(p, q, c, d)

Spec == Init /\ [][Next]_vars

-----------------------------------------------------------------------------
TypeOK ==
  /\ offers \in [Progs -> SUBSET (Chans \X Dirs)]
  /\ last \in [Progs -> (Progs \union {NoProg}) \X (Chans \union {NoChan}) \X Dirs]

(***************************************************************************)
(* No two progs wait for each other: whenever one is blocked sending on a  *)
(* channel, none is blocked receiving on it, be it in an alt or not.       *)
(***************************************************************************)
NoMissedMeeting ==
  \A p, q \in Progs, c \in Chans, d \in Dirs :
    <<c, d>> \in offers[p] => <<c, Dual(d)>> \notin offers[q]
=============================================================================
