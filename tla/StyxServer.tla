----------------------------- MODULE StyxServer -----------------------------
(***************************************************************************)
(* What a file server promises at its end of a connection, without its     *)
(* inside: each request it has read is answered at most once, in any       *)
(* order; a flush takes back the request it names.  Messages arrive in     *)
(* order in both directions.  The mount driver is checked against this     *)
(* server, and the export of a name space is shown to be one.              *)
(*                                                                         *)
(* A message is a record of a type, a tag and, for a request and its       *)
(* reply, the call it belongs to: what the reply says depends on what was  *)
(* asked.                                                                  *)
(***************************************************************************)
EXTENDS Integers, Sequences

CONSTANTS
  Tag,            \* tags of requests
  FlushTag,       \* tags of flushes
  Call,           \* what can be asked
  AnswersFlush    \* the server sends an Rflush for every Tflush

VARIABLES
  toserver,       \* messages on their way to the server
  toclient,       \* messages on their way back
  pending         \* requests that were read and are not answered

serverVars == <<toserver, toclient, pending>>

Request == [type : {"T"}, tag : Tag, call : Call]
Reply   == [type : {"R"}, tag : Tag, call : Call]
Flush   == [type : {"Tflush"}, tag : FlushTag, oldtag : Tag]
Flushed == [type : {"Rflush"}, tag : FlushTag]

ServerTypeOK ==
  /\ toserver \in Seq(Request \cup Flush)
  /\ toclient \in Seq(Reply \cup Flushed)
  /\ pending \subseteq Request

ServerInit ==
  /\ toserver = <<>>
  /\ toclient = <<>>
  /\ pending = {}

\* The server reads a request,
ReadRequest ==
  /\ toserver # <<>> /\ Head(toserver).type = "T"
  /\ pending'  = pending \cup {Head(toserver)}
  /\ toserver' = Tail(toserver)
  /\ UNCHANGED toclient

\* or a flush.  One that answers flushes forgets the request; one that does
\* not may answer it early.
ReadFlush ==
  /\ toserver # <<>> /\ Head(toserver).type = "Tflush"
  /\ toserver' = Tail(toserver)
  /\ IF AnswersFlush
       THEN /\ pending'  = {m \in pending : m.tag # Head(toserver).oldtag}
            /\ toclient' = Append(toclient, [type |-> "Rflush", tag |-> Head(toserver).tag])
       ELSE UNCHANGED <<pending, toclient>>

Answer(m) ==
  /\ m \in pending
  /\ pending'  = pending \ {m}
  /\ toclient' = Append(toclient, [m EXCEPT !.type = "R"])
  /\ UNCHANGED toserver

ServerNext == ReadRequest \/ ReadFlush \/ \E m \in pending : Answer(m)

\* What the client and the connection do to the queues: a message is sent or
\* received, or the connection ends and everything on it is lost.
ClientStep ==
  /\ \/ /\ \E m \in Request \cup Flush : toserver' = Append(toserver, m)
        /\ UNCHANGED toclient
     \/ /\ toclient # <<>>
        /\ toclient' = Tail(toclient)
        /\ UNCHANGED toserver
  /\ UNCHANGED pending

Cut ==
  /\ toserver' = <<>>
  /\ toclient' = <<>>
  /\ pending' = {}

ServerStep == ServerNext \/ ClientStep \/ Cut \/ UNCHANGED serverVars

ServerSpec == ServerInit /\ [][ServerStep]_serverVars
=============================================================================
