--------------------------- MODULE ExportFidProofs ---------------------------
(***************************************************************************)
(* Proofs about ExportFid, for every set of fids, slaves and channels.     *)
(***************************************************************************)
EXTENDS ExportFid, FiniteSetTheorems, TLAPS

Holders(x) == {s \in Slave : x \in hold[s]}

SlaveStep(s) ==
  \/ Get(s) \/ GetFails(s) \/ Make(s) \/ MakeFails(s)
  \/ MakeChan(s) \/ AttachFails(s) \/ Call(s) \/ Move(s)
  \/ CreateFails(s) \/ UpFails(s) \/ Remove(s) \/ Detach(s) \/ Put(s)

(* There is a channel to open as long as not all are open. *)
LEMMA NewChanType ==
  ASSUME Enough
  PROVE  NewChan \in Chan /\ NewChan \notin open
<1>1. \E c \in Chan : c \notin open
  BY DEF Enough
<1> QED
  BY <1>1, Zenon DEF NewChan

LEMMA HoldersFinite ==
  ASSUME NEW x
  PROVE  IsFiniteSet(Holders(x)) /\ Cardinality(Holders(x)) \in Nat
<1>1. IsFiniteSet(Holders(x))
  BY FidAssumption, FS_Subset, Holders(x) \subseteq Slave, Zenon DEF Holders
<1> QED
  BY <1>1, FS_CardinalityType

LEMMA HoldersCount ==
  ASSUME NEW s \in Slave, NEW x \in hold[s]
  PROVE  Cardinality(Holders(x)) >= 1
<1>1. Holders(x) # {}
  BY DEF Holders
<1> QED
  BY <1>1, HoldersFinite, FS_EmptySet

(* A slave takes a reference, or gives one up. *)
LEMMA HoldersGain ==
  ASSUME hold \in [Slave -> SUBSET Fid], NEW s \in Slave, NEW x \in Fid, x \notin hold[s],
         hold' = [hold EXCEPT ![s] = @ \cup {x}]
  PROVE  /\ Cardinality(Holders(x))' = Cardinality(Holders(x)) + 1
         /\ \A y \in Fid \ {x} : Holders(y)' = Holders(y)
<1>1. Holders(x)' = Holders(x) \cup {s} /\ s \notin Holders(x)
  BY DEF Holders
<1>2. \A y \in Fid \ {x} : Holders(y)' = Holders(y)
  BY DEF Holders
<1>3. Cardinality(Holders(x) \cup {s}) = Cardinality(Holders(x)) + 1
  BY <1>1, HoldersFinite, FS_AddElement
<1> QED
  BY <1>1, <1>2, <1>3

LEMMA HoldersLose ==
  ASSUME hold \in [Slave -> SUBSET Fid], NEW s \in Slave, NEW x \in Fid, x \in hold[s],
         hold' = [hold EXCEPT ![s] = @ \ {x}]
  PROVE  /\ Cardinality(Holders(x))' = Cardinality(Holders(x)) - 1
         /\ \A y \in Fid \ {x} : Holders(y)' = Holders(y)
<1>1. Holders(x)' = Holders(x) \ {s} /\ s \in Holders(x)
  BY DEF Holders
<1>2. \A y \in Fid \ {x} : Holders(y)' = Holders(y)
  BY DEF Holders
<1>3. Cardinality(Holders(x) \ {s}) = Cardinality(Holders(x)) - 1
  BY <1>1, HoldersFinite, FS_RemoveElement
<1> QED
  BY <1>1, <1>2, <1>3

LEMMA RefHolders ==
  ASSUME FidHeld, NEW x \in Fid
  PROVE  fid[x].ref = Cardinality(Holders(x))
BY DEF FidHeld, Holders

(* What the history records: fids and channels. *)
LEMMA HistoryType ==
  ASSUME TypeOK, NEW s \in Slave, SlaveStep(s)
  PROVE  torn' \subseteq Fid /\ lost' \subseteq Chan /\ harmed' \in BOOLEAN
<1>1. f(s) \in Fid
  BY DEF TypeOK, Fcall, f
<1>2. CASE UNCHANGED history
  BY <1>2 DEF history, TypeOK
<1>3. CASE Harm
  BY <1>3 DEF Harm
<1>4. ASSUME NEW gone \in SUBSET Chan, TearChan(s, gone)
      PROVE  torn' \subseteq Fid /\ lost' \subseteq Chan /\ harmed' \in BOOLEAN
  BY <1>1, <1>2, <1>3, <1>4 DEF TearChan, TypeOK
<1>5. CASE CreateFails(s) \/ UpFails(s)
  BY <1>4, <1>5, NewChanType DEF CreateFails, UpFails
<1>6. CASE ~(CreateFails(s) \/ UpFails(s))
  <2>1. UNCHANGED history \/ Harm
    BY <1>6 DEF SlaveStep, Get, GetFails, Make, MakeFails, MakeChan, AttachFails, Call, Move,
                Remove, Detach, Put, Exputfid, UseChan, history
  <2> QED
    BY <2>1, <1>2, <1>3
<1> QED
  BY <1>5, <1>6

(* As long as no stale channel was used, a step leaves the history alone   *)
(* unless it tears a fid, and the fid of a device call is not torn.        *)
LEMMA NotHarmed ==
  ASSUME TypeOK, NEW s \in Slave, SlaveStep(s), ~harmed'
  PROVE  /\ ~harmed
         /\ ~CreateFails(s) /\ ~UpFails(s) => torn' = torn /\ lost' = lost
         /\ CreateFails(s) \/ UpFails(s) =>
              torn' = torn \cup {f(s)} /\ lost \subseteq lost' /\ f(s) \notin torn
         /\ MakeChan(s) \/ Call(s) \/ Move(s) \/ Remove(s) => f(s) \notin torn
<1>1. CASE CreateFails(s) \/ UpFails(s)
  <2>1. PICK gone : TearChan(s, gone)
    BY <1>1 DEF CreateFails, UpFails
  <2>2. ~harmed /\ torn' = torn \cup {f(s)} /\ lost \subseteq lost' /\ f(s) \notin torn
    BY <2>1 DEF TearChan, Harm, history
  <2>3. ~MakeChan(s) /\ (Call(s) \/ Move(s) \/ Remove(s) => f(s) \notin torn)
    BY <1>1, <2>2 DEF CreateFails, UpFails, MakeChan, Makes
  <2> QED
    BY <1>1, <2>2, <2>3
<1>2. CASE ~CreateFails(s) /\ ~UpFails(s)
  <2>1. UNCHANGED history \/ Harm
    BY <1>2 DEF SlaveStep, Get, GetFails, Make, MakeFails, MakeChan, AttachFails, Call, Move,
                Remove, Detach, Put, Exputfid, UseChan, history
  <2>2. UNCHANGED history
    BY <2>1 DEF Harm
  <2>3. MakeChan(s) \/ Call(s) \/ Move(s) \/ Remove(s) => f(s) \notin torn
    BY DEF MakeChan, Call, Move, Remove, UseChan, Harm
  <2> QED
    BY <1>2, <2>2, <2>3 DEF history
<1> QED
  BY <1>1, <1>2

LEMMA InitInd == Init => TypeOK /\ IndInv
<1> SUFFICES ASSUME Init PROVE TypeOK /\ IndInv
  OBVIOUS
<1>1. Fcall # {}
  <2> PICK x \in Fid : TRUE
    BY FidAssumption
  <2>1. [op |-> "use", fid |-> x, newfid |-> x] \in Fcall
    BY DEF Fcall, Op
  <2> QED
    BY <2>1
<1>2. (CHOOSE q \in Fcall : TRUE) \in Fcall
  BY <1>1
<1>3. req \in [Slave -> Fcall]
  BY <1>2 DEF Init
<1>4. TypeOK
  BY <1>3 DEF TypeOK, Init, NoFid
<1>5. \A x \in Fid : {s \in Slave : x \in hold[s]} = {}
  BY DEF Init
<1>6. FidHeld
  <2>1. \A x \in Fid : Cardinality({s \in Slave : x \in hold[s]}) = 0
    BY <1>5, FS_EmptySet, Zenon
  <2> QED
    BY <2>1 DEF FidHeld, Init, NoFid
<1>7. HoldInv
  BY DEF HoldInv, HoldOK, Init
<1>8. MakeInv /\ OwnInv
  BY DEF MakeInv, OwnInv, Init, AtWork, NoFid
<1>9. ChanInv /\ OpenInv /\ Distinct /\ NoChanLeak
  BY DEF ChanInv, OpenInv, Unset, Distinct, NoChanLeak, Init, NoFid
<1> QED
  BY <1>4, <1>6, <1>7, <1>8, <1>9 DEF IndInv

----------------------------------------------------------------------------
(* Types, what a slave holds, and the counts.  These do not need anything  *)
(* of the client.                                                          *)

(* A step that takes no reference and gives none up. *)
LEMMA CountsKept ==
  ASSUME TypeOK, FidHeld, hold' = hold,
         \A x \in Fid : /\ fid'[x].ref = fid[x].ref
                        /\ fid'[x].here <=> (fid'[x].attached \/ fid[x].ref > 0)
  PROVE  FidHeld'
<1>1. \A x \in Fid : {s \in Slave : x \in hold[s]}' = {s \in Slave : x \in hold[s]}
  OBVIOUS
<1> QED
  BY <1>1, Zenon DEF FidHeld

LEMMA HereIff ==
  ASSUME FidHeld, NEW x \in Fid
  PROVE  fid[x].here <=> (fid[x].attached \/ fid[x].ref > 0)
BY Zenon DEF FidHeld

LEMMA FidFields ==
  ASSUME TypeOK, NEW x \in Fid
  PROVE  /\ fid[x] \in [here : BOOLEAN, ref : Nat, attached : BOOLEAN, chan : Chan \cup {Nil}]
         /\ fid[x].ref \in Nat
BY DEF TypeOK

LEMMA HeldIsHere ==
  ASSUME TypeOK, FidHeld, NEW s \in Slave, NEW x \in Fid, x \in hold[s]
  PROVE  fid[x].here /\ fid[x].ref >= 1
<1>1. fid[x].ref >= 1
  BY HoldersCount, RefHolders
<1>2. fid[x].ref > 0
  BY <1>1, FidFields
<1> QED
  BY <1>1, <1>2, HereIff

(* What a slave holds is its own affair. *)
LEMMA OthersHold ==
  ASSUME TypeOK, HoldInv, NEW s \in Slave, HoldOK(s)',
         \A t \in Slave \ {s} : /\ pc'[t] = pc[t] /\ req'[t] = req[t]
                                /\ hold'[t] = hold[t] /\ ok'[t] = ok[t]
  PROVE  HoldInv'
<1>1. \A t \in Slave \ {s} : HoldOK(t)'
  <2> TAKE t \in Slave \ {s}
  <2>1. HoldOK(t) /\ pc'[t] = pc[t] /\ req'[t] = req[t] /\ hold'[t] = hold[t] /\ ok'[t] = ok[t]
    BY DEF HoldInv
  <2> QED
    BY <2>1 DEF HoldOK, f, nf
<1> QED
  BY <1>1 DEF HoldInv

LEMMA GainCounts ==
  ASSUME TypeOK, FidHeld, NEW s \in Slave, NEW x \in Fid, x \notin hold[s],
         hold' = [hold EXCEPT ![s] = @ \cup {x}],
         fid'[x].ref = fid[x].ref + 1, fid'[x].here,
         \A y \in Fid \ {x} : fid'[y] = fid[y]
  PROVE  FidHeld'
<1>0. hold \in [Slave -> SUBSET Fid]
  BY DEF TypeOK
<1>1. /\ Cardinality(Holders(x))' = Cardinality(Holders(x)) + 1
      /\ \A y \in Fid \ {x} : Holders(y)' = Holders(y)
  BY <1>0, HoldersGain
<1>2. \A y \in Fid : fid'[y].ref = Cardinality(Holders(y))'
  BY <1>1, RefHolders
<1>3. fid[x].ref \in Nat
  BY FidFields
<1>4. \A y \in Fid : fid'[y].here <=> (fid'[y].attached \/ fid'[y].ref > 0)
  <2>1. fid'[x].here <=> (fid'[x].attached \/ fid'[x].ref > 0)
    BY <1>3
  <2>2. \A y \in Fid \ {x} : fid'[y].here <=> (fid'[y].attached \/ fid'[y].ref > 0)
    BY HereIff
  <2> QED
    BY <2>1, <2>2
<1> QED
  BY <1>2, <1>4 DEF FidHeld, Holders

LEMMA LoseCounts ==
  ASSUME TypeOK, FidHeld, NEW s \in Slave, NEW x \in Fid, x \in hold[s],
         hold' = [hold EXCEPT ![s] = @ \ {x}], Exputfid(x)
  PROVE  FidHeld'
<1>0. hold \in [Slave -> SUBSET Fid]
  BY DEF TypeOK
<1>1. /\ Cardinality(Holders(x))' = Cardinality(Holders(x)) - 1
      /\ \A y \in Fid \ {x} : Holders(y)' = Holders(y)
  BY <1>0, HoldersLose
<1>2. fid[x].ref \in Nat /\ fid[x].ref >= 1 /\ fid[x].here
  BY HeldIsHere DEF TypeOK
<1>3. /\ fid'[x].ref = fid[x].ref - 1
      /\ fid'[x].here <=> (fid'[x].attached \/ fid'[x].ref > 0)
      /\ \A y \in Fid \ {x} : fid'[y] = fid[y]
  BY <1>2 DEF Exputfid, NoFid, TypeOK
<1>4. \A y \in Fid : fid'[y].ref = Cardinality(Holders(y))'
  BY <1>1, <1>3, RefHolders
<1>5. \A y \in Fid : fid'[y].here <=> (fid'[y].attached \/ fid'[y].ref > 0)
  BY <1>3 DEF FidHeld
<1> QED
  BY <1>4, <1>5 DEF FidHeld, Holders

LEMMA AskCounts ==
  ASSUME TypeOK, HoldInv, FidHeld, NEW s \in Slave, NEW q \in Fcall, Ask(s, q)
  PROVE  TypeOK' /\ HoldInv' /\ FidHeld'
<1>1. TypeOK'
  BY DEF TypeOK, Ask, history
<1>2. HoldInv'
  <2>1. HoldOK(s)'
    BY SMT DEF TypeOK, HoldInv, HoldOK, Ask, Goto, f, nf, Makes, Moves, Ends, Op, Fcall
  <2> QED
    BY <2>1, OthersHold DEF TypeOK, Ask, Goto
<1>3. FidHeld'
  BY CountsKept DEF Ask, FidHeld
<1> QED
  BY <1>1, <1>2, <1>3

LEMMA GetCounts ==
  ASSUME TypeOK, HoldInv, FidHeld, NEW s \in Slave, Get(s)
  PROVE  TypeOK' /\ HoldInv' /\ FidHeld'
<1>0. req[s] \in Fcall /\ f(s) \in Fid
  BY DEF TypeOK, Fcall, f
<1>1. TypeOK'
  <2>1. fid' \in [Fid -> [here : BOOLEAN, ref : Nat, attached : BOOLEAN, chan : Chan \cup {Nil}]]
    <3>1. fid' = [fid EXCEPT ![f(s)].ref = @ + 1] /\ fid[f(s)].ref + 1 \in Nat
      BY <1>0, FidFields DEF Get, Exgetfid
    <3> QED
      BY <1>0, <3>1 DEF TypeOK
  <2>2. pc' \in [Slave -> {"idle", "get", "make", "device", "detach", "put"}]
    BY DEF TypeOK, Get, Goto
  <2>3. hold' \in [Slave -> SUBSET Fid]
    BY <1>0 DEF TypeOK, Get, Exgetfid
  <2> QED
    BY <2>1, <2>2, <2>3 DEF TypeOK, Get, history
<1>2. HoldInv'
  <2>1. HoldOK(s)'
    BY <1>0 DEF TypeOK, HoldInv, HoldOK, Get, Exgetfid, Goto, f, nf, Makes, Moves, Ends, Op, Fcall
  <2> QED
    BY <2>1, OthersHold DEF TypeOK, Get, Exgetfid, Goto
<1>3. FidHeld'
  <2>1. f(s) \notin hold[s] /\ fid[f(s)].here
    BY <1>0 DEF HoldInv, HoldOK, FidHeld, Get, Exgetfid, Goto
  <2>2. /\ fid'[f(s)].ref = fid[f(s)].ref + 1 /\ fid'[f(s)].here
        /\ \A y \in Fid \ {f(s)} : fid'[y] = fid[y]
    BY <2>1, <1>0 DEF TypeOK, Get, Exgetfid
  <2> QED
    BY <2>1, <2>2, <1>0, GainCounts DEF Get, Exgetfid
<1> QED
  BY <1>1, <1>2, <1>3

LEMMA MakeCounts ==
  ASSUME TypeOK, HoldInv, FidHeld, NEW s \in Slave, Make(s)
  PROVE  TypeOK' /\ HoldInv' /\ FidHeld'
<1>0. req[s] \in Fcall /\ f(s) \in Fid /\ nf(s) \in Fid
  BY DEF TypeOK, Fcall, f, nf
<1>1. TypeOK'
  BY <1>0 DEF TypeOK, Make, Exmkfid, Goto, history
<1>2. nf(s) \notin hold[s] /\ fid[nf(s)].ref = 0
  <2>1. ~fid[nf(s)].here
    BY DEF Make, Exmkfid
  <2>2. fid[nf(s)].ref \in Nat /\ ~(fid[nf(s)].ref > 0)
    BY <1>0, <2>1, HereIff, FidFields
  <2> QED
    BY <1>0, <2>1, <2>2, HeldIsHere
<1>3. HoldInv'
  <2>1. HoldOK(s)'
    BY <1>0, <1>2 DEF TypeOK, HoldInv, HoldOK, Make, Exmkfid, Goto, f, nf, Makes, Moves, Ends, Op, Fcall
  <2> QED
    BY <2>1, OthersHold DEF TypeOK, Make, Exmkfid, Goto
<1>4. FidHeld'
  <2>1. /\ fid'[nf(s)].ref = fid[nf(s)].ref + 1 /\ fid'[nf(s)].here
        /\ \A y \in Fid \ {nf(s)} : fid'[y] = fid[y]
    BY <1>0, <1>2 DEF TypeOK, Make, Exmkfid
  <2> QED
    BY <1>0, <1>2, <2>1, GainCounts DEF Make, Exmkfid
<1> QED
  BY <1>1, <1>3, <1>4

LEMMA PutCounts ==
  ASSUME TypeOK, HoldInv, FidHeld, NEW s \in Slave, Put(s)
  PROVE  TypeOK' /\ HoldInv' /\ FidHeld'
<1> DEFINE x == IF f(s) \in hold[s] THEN f(s) ELSE nf(s)
<1>0. req[s] \in Fcall /\ f(s) \in Fid /\ nf(s) \in Fid /\ x \in Fid
  BY DEF TypeOK, Fcall, f, nf
<1>1. x \in hold[s]
  BY DEF HoldInv, HoldOK, Put, Goto
<1>2. fid[x].ref >= 1 /\ fid[x].ref \in Nat
  BY <1>0, <1>1, HeldIsHere DEF TypeOK
<1>3. TypeOK'
  <2>1. fid' \in [Fid -> [here : BOOLEAN, ref : Nat, attached : BOOLEAN, chan : Chan \cup {Nil}]]
    <3>1. CASE fid[x].ref = 1 /\ ~fid[x].attached
      <4>1. fid' = [fid EXCEPT ![x] = NoFid]
        BY <3>1 DEF Put, Exputfid
      <4>2. NoFid \in [here : BOOLEAN, ref : Nat, attached : BOOLEAN, chan : Chan \cup {Nil}]
        BY DEF NoFid
      <4> QED
        BY <1>0, <4>1, <4>2 DEF TypeOK
    <3>2. CASE ~(fid[x].ref = 1 /\ ~fid[x].attached)
      <4>1. fid[x].ref - 1 \in Nat
        BY <1>2
      <4>2. fid' = [fid EXCEPT ![x].ref = @ - 1]
        BY <3>2 DEF Put, Exputfid
      <4> QED
        BY <1>0, <4>1, <4>2 DEF TypeOK
    <3> QED
      BY <3>1, <3>2
  <2>2. open' \subseteq Chan
    BY DEF TypeOK, Put, Exputfid
  <2> QED
    BY <1>0, <2>1, <2>2, HistoryType DEF TypeOK, Put, Goto, SlaveStep
<1>4. HoldInv'
  <2>1. HoldOK(s)'
    BY <1>0, <1>1 DEF TypeOK, HoldInv, HoldOK, Put, Goto, f, nf, Makes, Moves, Ends, Op, Fcall
  <2> QED
    BY <2>1, OthersHold DEF TypeOK, Put, Goto
<1>5. FidHeld'
  BY <1>0, <1>1, LoseCounts DEF Put
<1> QED
  BY <1>3, <1>4, <1>5

LEMMA DeviceCounts ==
  ASSUME TypeOK, HoldInv, FidHeld, NEW s \in Slave,
         \/ MakeChan(s) \/ AttachFails(s) \/ Call(s) \/ Move(s)
         \/ CreateFails(s) \/ UpFails(s) \/ Remove(s) \/ Detach(s)
  PROVE  TypeOK' /\ HoldInv' /\ FidHeld'
<1>0. req[s] \in Fcall /\ f(s) \in Fid /\ nf(s) \in Fid
  BY DEF TypeOK, Fcall, f, nf
<1>1. TypeOK'
  <2>0. torn' \subseteq Fid /\ lost' \subseteq Chan /\ harmed' \in BOOLEAN
    BY HistoryType DEF SlaveStep
  <2>1. CASE MakeChan(s)
    BY <1>0, <2>0, <2>1, NewChanType DEF TypeOK, MakeChan, Goto
  <2>2. CASE AttachFails(s)
    BY <1>0, <2>0, <2>2 DEF TypeOK, AttachFails, Goto
  <2>3. CASE Call(s)
    BY <1>0, <2>0, <2>3 DEF TypeOK, Call, Goto
  <2>4. CASE Move(s)
    BY <1>0, <2>0, <2>4, NewChanType DEF TypeOK, Move, Goto
  <2>5. CASE Remove(s)
    BY <1>0, <2>0, <2>5 DEF TypeOK, Remove, Goto
  <2>6. CASE Detach(s)
    <3>1. /\ fid' = [fid EXCEPT ![f(s)].attached = FALSE]
          /\ pc' = [pc EXCEPT ![s] = "put"]
          /\ UNCHANGED <<open, req, hold, ok, owned>>
      BY <2>6 DEF Detach, Goto
    <3> QED
      BY <1>0, <2>0, <3>1 DEF TypeOK
  <2>7. CASE CreateFails(s)
    BY <1>0, <2>0, <2>7, NewChanType DEF TypeOK, CreateFails, Goto
  <2>8. CASE UpFails(s)
    BY <1>0, <2>0, <2>8, NewChanType DEF TypeOK, UpFails, Goto
  <2> QED
    BY <2>1, <2>2, <2>3, <2>4, <2>5, <2>6, <2>7, <2>8
<1>2. HoldInv'
  <2>0. HoldOK(s)
    BY DEF HoldInv
  <2>1. CASE MakeChan(s)
    <3>1. HoldOK(s)'
      BY <1>0, <2>0, <2>1 DEF TypeOK, HoldOK, MakeChan, Goto, f, nf, Makes, Moves, Ends, Op, Fcall
    <3> QED
      BY <2>1, <3>1, OthersHold DEF TypeOK, MakeChan, Goto
  <2>2. CASE AttachFails(s)
    <3>1. HoldOK(s)'
      BY <1>0, <2>0, <2>2 DEF TypeOK, HoldOK, AttachFails, Goto, f, nf, Makes, Moves, Ends, Op, Fcall
    <3> QED
      BY <2>2, <3>1, OthersHold DEF TypeOK, AttachFails, Goto
  <2>3. CASE Call(s)
    <3>1. HoldOK(s)'
      BY <1>0, <2>0, <2>3 DEF TypeOK, HoldOK, Call, Goto, f, nf, Makes, Moves, Ends, Op, Fcall
    <3> QED
      BY <2>3, <3>1, OthersHold DEF TypeOK, Call, Goto
  <2>4. CASE Move(s)
    <3>1. HoldOK(s)'
      BY <1>0, <2>0, <2>4 DEF TypeOK, HoldOK, Move, Goto, f, nf, Makes, Moves, Ends, Op, Fcall
    <3> QED
      BY <2>4, <3>1, OthersHold DEF TypeOK, Move, Goto
  <2>5. CASE Remove(s)
    <3>1. HoldOK(s)'
      BY <1>0, <2>0, <2>5 DEF TypeOK, HoldOK, Remove, Goto, f, nf, Makes, Moves, Ends, Op, Fcall
    <3> QED
      BY <2>5, <3>1, OthersHold DEF TypeOK, Remove, Goto
  <2>6. CASE Detach(s)
    <3>1. HoldOK(s)'
      BY <1>0, <2>0, <2>6 DEF TypeOK, HoldOK, Detach, Goto, f, nf, Makes, Moves, Ends, Op, Fcall
    <3> QED
      BY <2>6, <3>1, OthersHold DEF TypeOK, Detach, Goto
  <2>7. CASE CreateFails(s)
    <3>1. HoldOK(s)'
      BY <1>0, <2>0, <2>7 DEF TypeOK, HoldOK, CreateFails, Goto, f, nf, Makes, Moves, Ends, Op, Fcall
    <3> QED
      BY <2>7, <3>1, OthersHold DEF TypeOK, CreateFails, Goto
  <2>8. CASE UpFails(s)
    <3>1. HoldOK(s)'
      BY <1>0, <2>0, <2>8 DEF TypeOK, HoldOK, UpFails, Goto, f, nf, Makes, Moves, Ends, Op, Fcall
    <3> QED
      BY <2>8, <3>1, OthersHold DEF TypeOK, UpFails, Goto
  <2> QED
    BY <2>1, <2>2, <2>3, <2>4, <2>5, <2>6, <2>7, <2>8
<1>3. pc[s] \in {"device", "detach"}
  BY DEF MakeChan, AttachFails, Call, Move, CreateFails, UpFails, Remove, Detach, Goto
<1>4. f(s) \in hold[s] /\ (pc[s] = "device" /\ req[s].op \in Makes => nf(s) \in hold[s])
  BY <1>0, <1>3 DEF HoldInv, HoldOK, f, nf, Makes, Ends
<1>5. /\ fid[f(s)].here /\ fid[f(s)].ref >= 1
      /\ pc[s] = "device" /\ req[s].op \in Makes => fid[nf(s)].here /\ fid[nf(s)].ref >= 1
  BY <1>0, <1>4, HeldIsHere
<1>6. \A y \in Fid : /\ fid'[y].ref = fid[y].ref
                     /\ fid'[y].here <=> (fid'[y].attached \/ fid[y].ref > 0)
  <2>0. /\ \A y \in Fid : fid[y].here <=> (fid[y].attached \/ fid[y].ref > 0)
        /\ fid \in [Fid -> [here : BOOLEAN, ref : Nat, attached : BOOLEAN, chan : Chan \cup {Nil}]]
    BY DEF FidHeld, TypeOK
  <2>1. CASE MakeChan(s) \/ Move(s)
    BY <1>0, <2>0, <2>1 DEF MakeChan, Move
  <2>2. CASE AttachFails(s)
    BY <1>0, <1>5, <2>0, <2>2 DEF AttachFails, Goto, Makes
  <2>3. CASE Detach(s)
    BY <1>0, <1>5, <2>0, <2>3 DEF Detach
  <2>4. CASE Call(s) \/ CreateFails(s) \/ UpFails(s) \/ Remove(s)
    BY <2>0, <2>4 DEF Call, CreateFails, UpFails, Remove
  <2> QED
    BY <2>1, <2>2, <2>3, <2>4
<1>7. FidHeld'
  BY <1>6, CountsKept
     DEF MakeChan, AttachFails, Call, Move, CreateFails, UpFails, Remove, Detach
<1> QED
  BY <1>1, <1>2, <1>7

LEMMA FailCounts ==
  ASSUME TypeOK, HoldInv, FidHeld, NEW s \in Slave, GetFails(s) \/ MakeFails(s)
  PROVE  TypeOK' /\ HoldInv' /\ FidHeld'
<1>1. TypeOK'
  BY DEF TypeOK, GetFails, MakeFails, Goto, history
<1>2. HoldInv'
  <2>1. CASE GetFails(s)
    <3>1. HoldOK(s)'
      BY <2>1 DEF TypeOK, HoldInv, HoldOK, GetFails, Goto, f, nf, Ends
    <3> QED
      BY <2>1, <3>1, OthersHold DEF TypeOK, GetFails, Goto
  <2>2. CASE MakeFails(s)
    <3>1. HoldOK(s)'
      BY <2>2 DEF TypeOK, HoldInv, HoldOK, MakeFails, Goto, f, nf, Makes, Ends
    <3> QED
      BY <2>2, <3>1, OthersHold DEF TypeOK, MakeFails, Goto
  <2> QED
    BY <2>1, <2>2
<1>3. FidHeld'
  BY CountsKept DEF GetFails, MakeFails, FidHeld
<1> QED
  BY <1>1, <1>2, <1>3

LEMMA ExfreeCounts ==
  ASSUME TypeOK, HoldInv, FidHeld, Exfree
  PROVE  TypeOK' /\ HoldInv' /\ FidHeld'
<1>1. TypeOK'
  BY DEF TypeOK, Exfree, NoFid, slaves, Harm, history
<1>2. HoldInv'
  BY DEF HoldInv, HoldOK, Exfree, slaves, f, nf
<1>3. \A s \in Slave : hold[s] = {}
  BY DEF HoldInv, HoldOK, Exfree, AtWork, TypeOK
<1>4. \A x \in Fid : Holders(x) = {}
  BY <1>3 DEF Holders
<1>5. \A x \in Fid : fid[x].ref = 0
  BY <1>4, RefHolders, FS_EmptySet
<1>6. FidHeld'
  BY <1>5, CountsKept DEF Exfree, NoFid, slaves
<1> QED
  BY <1>1, <1>2, <1>6

LEMMA CountsInv == Spec => [](TypeOK /\ HoldInv /\ FidHeld)
<1>1. Init => TypeOK /\ HoldInv /\ FidHeld
  BY InitInd DEF IndInv
<1>2. TypeOK /\ HoldInv /\ FidHeld /\ [Next]_vars => (TypeOK /\ HoldInv /\ FidHeld)'
  <2> SUFFICES ASSUME TypeOK, HoldInv, FidHeld, [Next]_vars
               PROVE  (TypeOK /\ HoldInv /\ FidHeld)'
    OBVIOUS
  <2>1. CASE \E s \in Slave, q \in Fcall : Ask(s, q)
    BY <2>1, AskCounts
  <2>2. CASE \E s \in Slave : SlaveStep(s)
    BY <2>2, GetCounts, MakeCounts, PutCounts, DeviceCounts, FailCounts DEF SlaveStep
  <2>3. CASE Exfree
    BY <2>3, ExfreeCounts
  <2>4. CASE UNCHANGED vars
    <3>1. TypeOK'
      BY <2>4 DEF vars, slaves, history, TypeOK
    <3>2. HoldInv'
      BY <2>4 DEF vars, slaves, HoldInv, HoldOK, f, nf
    <3>3. FidHeld'
      BY <2>4 DEF vars, slaves, FidHeld
    <3> QED
      BY <3>1, <3>2, <3>3
  <2> QED
    BY <2>1, <2>2, <2>3, <2>4 DEF Next, SlaveStep
<1> QED
  BY <1>1, <1>2, PTL DEF Spec

(* Whatever the client sends and the devices do, every variable stays in   *)
(* its type.                                                               *)
THEOREM TypeCorrect == Spec => []TypeOK
BY CountsInv, PTL

(* Exgetfid, Exmkfid and Exputfid: a Fid is in the list exactly as long as *)
(* it is attached or some slave uses it, for any number of slaves.         *)
THEOREM FidsHeld == Spec => []FidHeld
BY CountsInv, PTL

----------------------------------------------------------------------------
(* Channels and owners.  These need a client that does not use a number    *)
(* again while requests on the old fid are out.                            *)

LEMMA AtWorkKept ==
  ASSUME TypeOK, NEW s \in Slave, SlaveStep(s)
  PROVE  /\ pc[s] # "idle" /\ req' = req
         /\ AtWork' \subseteq AtWork
         /\ \A t \in Slave \ {s} : pc'[t] = pc[t] /\ hold'[t] = hold[t] /\ ok'[t] = ok[t]
<1>1. pc[s] # "idle" /\ req' = req
  BY DEF SlaveStep, Get, GetFails, Make, MakeFails, MakeChan, AttachFails, Call, Move, CreateFails, UpFails,
     Remove, Detach, Put, Goto
<1>2. \A t \in Slave \ {s} : pc'[t] = pc[t]
  BY Zenon DEF SlaveStep, Get, GetFails, Make, MakeFails, MakeChan, AttachFails, Call, Move, CreateFails, UpFails,
     Remove, Detach, Put, Goto, TypeOK
<1>3. \A t \in Slave \ {s} : hold'[t] = hold[t] /\ ok'[t] = ok[t]
  BY DEF SlaveStep, Get, Exgetfid, GetFails, Make, Exmkfid, MakeFails, MakeChan,
     AttachFails, Call, Move, CreateFails, UpFails, Remove, Detach, Put, TypeOK
<1> QED
  BY <1>1, <1>2, <1>3 DEF AtWork

LEMMA MakeStep ==
  ASSUME ReuseEarly = FALSE, TypeOK, MakeInv, [Next]_vars
  PROVE  MakeInv'
<1>1. ASSUME NEW s \in Slave, NEW q \in Fcall, Ask(s, q)
      PROVE  MakeInv'
  <2>1. s \notin AtWork /\ AtWork' = AtWork \cup {s}
    BY <1>1 DEF Ask, AtWork, TypeOK
  <2>2. req'[s] = q /\ \A t \in AtWork : t # s /\ req'[t] = req[t]
    BY <1>1, <2>1 DEF Ask, TypeOK, AtWork
  <2>3. ASSUME NEW t \in AtWork, req[t].op \in Makes
        PROVE  /\ q.op # "attach" => q.fid # nf(t)
               /\ q.op \in Makes => q.newfid # nf(t)
    BY <1>1, <2>3 DEF Ask, Making, nf
  <2>4. ASSUME NEW t \in AtWork, q.op \in Makes
        PROVE  /\ req[t].op # "attach" => f(t) # q.newfid
               /\ req[t].op \in Makes => nf(t) # q.newfid
    BY <1>1, <2>4 DEF Ask, Making, Using, nf, f
  <2> QED
    BY <2>1, <2>2, <2>3, <2>4 DEF MakeInv, f, nf
<1>2. ASSUME NEW s \in Slave, SlaveStep(s)
      PROVE  MakeInv'
  BY <1>2, AtWorkKept DEF MakeInv, f, nf
<1>3. CASE Exfree \/ UNCHANGED vars
  BY <1>3 DEF MakeInv, Exfree, vars, slaves, AtWork, f, nf
<1> QED
  BY <1>1, <1>2, <1>3 DEF Next, SlaveStep

(* A slave at its device call has a channel, which is open unless the fid  *)
(* is torn.                                                                *)
LEMMA UsedOpen ==
  ASSUME TypeOK, HoldInv, FidHeld, MakeInv, ChanInv,
         NEW s \in Slave, pc[s] = "device", req[s].op # "attach"
  PROVE  /\ fid[f(s)].chan # Nil
         /\ OpenInv /\ ~harmed /\ f(s) \notin torn => fid[f(s)].chan \in open
<1>0. f(s) \in Fid
  BY DEF TypeOK, Fcall, f
<1>1. f(s) \in hold[s] /\ fid[f(s)].here
  BY <1>0, HeldIsHere DEF HoldInv, HoldOK
<1>2. SUFFICES ASSUME fid[f(s)].chan = Nil PROVE FALSE
  BY <1>0 DEF OpenInv
<1>3. PICK t \in Slave : /\ req[t].op \in Makes /\ nf(t) = f(s)
                         /\ pc[t] = "device" \/ pc[t] = "put"
  BY <1>0, <1>1, <1>2 DEF ChanInv, Unset
<1>4. s = t
  BY <1>3 DEF MakeInv, AtWork
<1> QED
  BY <1>3, <1>4 DEF HoldInv, HoldOK, Makes

(* A fid that is being made is held by its maker alone. *)
LEMMA SoleHolder ==
  ASSUME TypeOK, HoldInv, FidHeld, MakeInv, NEW s \in Slave, pc[s] # "idle",
         req[s].op \in Makes, nf(s) \in hold[s], f(s) # nf(s) \/ req[s].op = "attach"
  PROVE  fid[nf(s)].ref = 1
<1>1. Holders(nf(s)) = {s}
  <2> SUFFICES ASSUME NEW t \in Slave, nf(s) \in hold[t], t # s PROVE FALSE
    BY DEF Holders
  <2>1. t \in AtWork /\ s \in AtWork /\ HoldOK(t) /\ req[t] \in Fcall
    BY DEF HoldInv, HoldOK, AtWork, TypeOK
  <2>2. /\ req[t].op # "attach" => f(t) # nf(s)
        /\ req[t].op \in Makes => nf(t) # nf(s)
    BY <2>1 DEF MakeInv
  <2>3. hold[t] \subseteq {f(t), nf(t)}
    BY <2>1 DEF HoldOK, TypeOK, AtWork
  <2> QED
    BY <2>1, <2>2, <2>3 DEF HoldOK, AtWork, Makes
<1>2. nf(s) \in Fid
  BY DEF TypeOK, Fcall, nf
<1> QED
  BY <1>1, <1>2, RefHolders, FS_Singleton

(* Whether another slave has a fid without a channel is up to that slave. *)
LEMMA UnsetKept ==
  ASSUME TypeOK, NEW s \in Slave, SlaveStep(s), NEW t \in Slave \ {s}, NEW x \in Fid
  PROVE  Unset(t, x)' <=> Unset(t, x)
BY AtWorkKept DEF Unset, nf

(* A step of s that gives no fid but possibly its own a new state and      *)
(* leaves none without a channel.                                          *)
LEMMA UnsetStep ==
  ASSUME TypeOK, ChanInv, NEW s \in Slave, SlaveStep(s),
         \A x \in Fid : fid'[x].here /\ fid'[x].chan = Nil =>
           \/ Unset(s, x)'
           \/ fid[x].here /\ fid[x].chan = Nil /\ ~Unset(s, x)
  PROVE  \A x \in Fid : fid'[x].here /\ fid'[x].chan = Nil => \E t \in Slave : Unset(t, x)'
<1> SUFFICES ASSUME NEW x \in Fid, fid'[x].here, fid'[x].chan = Nil, ~Unset(s, x)'
             PROVE  \E t \in Slave : Unset(t, x)'
  OBVIOUS
<1>1. fid[x].here /\ fid[x].chan = Nil /\ ~Unset(s, x)
  OBVIOUS
<1>2. PICK t \in Slave : Unset(t, x)
  BY <1>1 DEF ChanInv
<1> QED
  BY <1>1, <1>2, UnsetKept

LEMMA ChanInvStep ==
  ASSUME TypeOK, HoldInv, FidHeld, MakeInv, ChanInv, OwnInv,
         NEW s \in Slave, SlaveStep(s), TypeOK', HoldInv', FidHeld'
  PROVE  ChanInv'
<1>0. /\ req[s] \in Fcall /\ f(s) \in Fid /\ nf(s) \in Fid /\ req' = req
      /\ f(s)' = f(s) /\ nf(s)' = nf(s)
  BY AtWorkKept DEF TypeOK, Fcall, f, nf
<1>h. HoldOK(s)
  BY DEF HoldInv
<1>t. \A t \in Slave \ {s} : /\ pc'[t] = pc[t]
                            /\ pc[t] = "device" /\ req[t].op \in Makes =>
                                 /\ nf(t) # f(s) \/ req[s].op = "attach"
                                 /\ req[s].op \in Makes => nf(t) # nf(s)
  BY AtWorkKept DEF MakeInv, AtWork
<1>c. /\ \A x \in Fid : ~fid[x].here => fid[x].chan = Nil
      /\ \A t \in Slave : pc[t] = "device" /\ req[t].op \in Makes => fid[nf(t)].chan = Nil
  BY DEF ChanInv
<1>1. CASE Get(s)
  <2>1. \A x \in Fid : ~fid'[x].here => fid'[x].chan = Nil
    BY <1>0, <1>h, <1>c, <1>1, HeldIsHere DEF TypeOK, Get, Goto, HoldOK, f, nf, Makes, Moves, Exgetfid
  <2>3. \A x \in Fid : fid'[x].here /\ fid'[x].chan = Nil =>
           \/ Unset(s, x)'
           \/ fid[x].here /\ fid[x].chan = Nil /\ ~Unset(s, x)
    BY <1>0, <1>h, <1>1, NewChanType, FidAssumption DEF TypeOK, Get, Goto, Unset, HoldOK, nf, f, Makes, Moves, Exgetfid
  <2>4. \A t \in Slave : pc'[t] = "device" /\ req'[t].op \in Makes => fid'[nf(t)'].chan = Nil
    <3>1. \A t \in Slave \ {s} : pc'[t] = "device" /\ req'[t].op \in Makes => fid'[nf(t)'].chan = Nil
      BY <1>0, <1>t, <1>c, <1>1 DEF TypeOK, Get, Goto, nf, f, Makes, Moves, Fcall, Exgetfid
    <3>2. pc'[s] = "device" /\ req'[s].op \in Makes => fid'[nf(s)'].chan = Nil
      BY <1>0, <1>h, <1>c, <1>1 DEF TypeOK, Get, Goto, HoldOK, Makes, Exgetfid
    <3> QED
      BY <3>1, <3>2
  <2> QED
    BY <2>1, <2>3, <2>4, UnsetStep DEF ChanInv
<1>2. CASE GetFails(s)
  <2>1. \A x \in Fid : ~fid'[x].here => fid'[x].chan = Nil
    BY <1>0, <1>h, <1>c, <1>2, HeldIsHere DEF TypeOK, GetFails, Goto, HoldOK, f, nf, Makes, Moves
  <2>3. \A x \in Fid : fid'[x].here /\ fid'[x].chan = Nil =>
           \/ Unset(s, x)'
           \/ fid[x].here /\ fid[x].chan = Nil /\ ~Unset(s, x)
    BY <1>0, <1>h, <1>2, NewChanType, FidAssumption DEF TypeOK, GetFails, Goto, Unset, HoldOK, nf, f, Makes, Moves
  <2>4. \A t \in Slave : pc'[t] = "device" /\ req'[t].op \in Makes => fid'[nf(t)'].chan = Nil
    <3>1. \A t \in Slave \ {s} : pc'[t] = "device" /\ req'[t].op \in Makes => fid'[nf(t)'].chan = Nil
      BY <1>0, <1>t, <1>c, <1>2 DEF TypeOK, GetFails, Goto, nf, f, Makes, Moves, Fcall
    <3>2. pc'[s] = "device" /\ req'[s].op \in Makes => fid'[nf(s)'].chan = Nil
      BY <1>0, <1>h, <1>c, <1>2 DEF TypeOK, GetFails, Goto, HoldOK, Makes
    <3> QED
      BY <3>1, <3>2
  <2> QED
    BY <2>1, <2>3, <2>4, UnsetStep DEF ChanInv
<1>3. CASE Make(s)
  <2>1. \A x \in Fid : ~fid'[x].here => fid'[x].chan = Nil
    BY <1>0, <1>h, <1>c, <1>3, HeldIsHere DEF TypeOK, Make, Goto, HoldOK, f, nf, Makes, Moves, Exmkfid
  <2>3. \A x \in Fid : fid'[x].here /\ fid'[x].chan = Nil =>
           \/ Unset(s, x)'
           \/ fid[x].here /\ fid[x].chan = Nil /\ ~Unset(s, x)
    BY <1>0, <1>h, <1>3, NewChanType, FidAssumption DEF TypeOK, Make, Goto, Unset, HoldOK, nf, f, Makes, Moves, Exmkfid
  <2>4. \A t \in Slave : pc'[t] = "device" /\ req'[t].op \in Makes => fid'[nf(t)'].chan = Nil
    <3>1. \A t \in Slave \ {s} : pc'[t] = "device" /\ req'[t].op \in Makes => fid'[nf(t)'].chan = Nil
      BY <1>0, <1>t, <1>c, <1>3 DEF TypeOK, Make, Goto, nf, f, Makes, Moves, Fcall, Exmkfid
    <3>2. pc'[s] = "device" /\ req'[s].op \in Makes => fid'[nf(s)'].chan = Nil
      BY <1>0, <1>h, <1>c, <1>3 DEF TypeOK, Make, Goto, HoldOK, Makes, Exmkfid
    <3> QED
      BY <3>1, <3>2
  <2> QED
    BY <2>1, <2>3, <2>4, UnsetStep DEF ChanInv
<1>4. CASE MakeFails(s)
  <2>1. \A x \in Fid : ~fid'[x].here => fid'[x].chan = Nil
    BY <1>0, <1>h, <1>c, <1>4, HeldIsHere DEF TypeOK, MakeFails, Goto, HoldOK, f, nf, Makes, Moves
  <2>3. \A x \in Fid : fid'[x].here /\ fid'[x].chan = Nil =>
           \/ Unset(s, x)'
           \/ fid[x].here /\ fid[x].chan = Nil /\ ~Unset(s, x)
    BY <1>0, <1>h, <1>4, NewChanType, FidAssumption DEF TypeOK, MakeFails, Goto, Unset, HoldOK, nf, f, Makes, Moves
  <2>4. \A t \in Slave : pc'[t] = "device" /\ req'[t].op \in Makes => fid'[nf(t)'].chan = Nil
    <3>1. \A t \in Slave \ {s} : pc'[t] = "device" /\ req'[t].op \in Makes => fid'[nf(t)'].chan = Nil
      BY <1>0, <1>t, <1>c, <1>4 DEF TypeOK, MakeFails, Goto, nf, f, Makes, Moves, Fcall
    <3>2. pc'[s] = "device" /\ req'[s].op \in Makes => fid'[nf(s)'].chan = Nil
      BY <1>0, <1>h, <1>c, <1>4 DEF TypeOK, MakeFails, Goto, HoldOK, Makes
    <3> QED
      BY <3>1, <3>2
  <2> QED
    BY <2>1, <2>3, <2>4, UnsetStep DEF ChanInv
<1>5. CASE MakeChan(s)
  <2>1. \A x \in Fid : ~fid'[x].here => fid'[x].chan = Nil
    BY <1>0, <1>h, <1>c, <1>5, HeldIsHere DEF TypeOK, MakeChan, Goto, HoldOK, f, nf, Makes, Moves
  <2>3. \A x \in Fid : fid'[x].here /\ fid'[x].chan = Nil =>
           \/ Unset(s, x)'
           \/ fid[x].here /\ fid[x].chan = Nil /\ ~Unset(s, x)
    BY <1>0, <1>h, <1>5, NewChanType, FidAssumption DEF TypeOK, MakeChan, Goto, Unset, HoldOK, nf, f, Makes, Moves
  <2>4. \A t \in Slave : pc'[t] = "device" /\ req'[t].op \in Makes => fid'[nf(t)'].chan = Nil
    <3>1. \A t \in Slave \ {s} : pc'[t] = "device" /\ req'[t].op \in Makes => fid'[nf(t)'].chan = Nil
      BY <1>0, <1>t, <1>c, <1>5 DEF TypeOK, MakeChan, Goto, nf, f, Makes, Moves, Fcall
    <3>2. pc'[s] = "device" /\ req'[s].op \in Makes => fid'[nf(s)'].chan = Nil
      BY <1>0, <1>h, <1>c, <1>5 DEF TypeOK, MakeChan, Goto, HoldOK, Makes
    <3> QED
      BY <3>1, <3>2
  <2> QED
    BY <2>1, <2>3, <2>4, UnsetStep DEF ChanInv
<1>6. CASE AttachFails(s)
  <2>1. \A x \in Fid : ~fid'[x].here => fid'[x].chan = Nil
    BY <1>0, <1>h, <1>c, <1>6, HeldIsHere DEF TypeOK, AttachFails, Goto, HoldOK, f, nf, Makes, Moves
  <2>3. \A x \in Fid : fid'[x].here /\ fid'[x].chan = Nil =>
           \/ Unset(s, x)'
           \/ fid[x].here /\ fid[x].chan = Nil /\ ~Unset(s, x)
    BY <1>0, <1>h, <1>6, NewChanType, FidAssumption DEF TypeOK, AttachFails, Goto, Unset, HoldOK, nf, f, Makes, Moves
  <2>4. \A t \in Slave : pc'[t] = "device" /\ req'[t].op \in Makes => fid'[nf(t)'].chan = Nil
    <3>1. \A t \in Slave \ {s} : pc'[t] = "device" /\ req'[t].op \in Makes => fid'[nf(t)'].chan = Nil
      BY <1>0, <1>t, <1>c, <1>6 DEF TypeOK, AttachFails, Goto, nf, f, Makes, Moves, Fcall
    <3>2. pc'[s] = "device" /\ req'[s].op \in Makes => fid'[nf(s)'].chan = Nil
      BY <1>0, <1>h, <1>c, <1>6 DEF TypeOK, AttachFails, Goto, HoldOK, Makes
    <3> QED
      BY <3>1, <3>2
  <2> QED
    BY <2>1, <2>3, <2>4, UnsetStep DEF ChanInv
<1>7. CASE Call(s)
  <2>1. \A x \in Fid : ~fid'[x].here => fid'[x].chan = Nil
    BY <1>0, <1>h, <1>c, <1>7, HeldIsHere DEF TypeOK, Call, Goto, HoldOK, f, nf, Makes, Moves
  <2>3. \A x \in Fid : fid'[x].here /\ fid'[x].chan = Nil =>
           \/ Unset(s, x)'
           \/ fid[x].here /\ fid[x].chan = Nil /\ ~Unset(s, x)
    BY <1>0, <1>h, <1>7, NewChanType, FidAssumption DEF TypeOK, Call, Goto, Unset, HoldOK, nf, f, Makes, Moves
  <2>4. \A t \in Slave : pc'[t] = "device" /\ req'[t].op \in Makes => fid'[nf(t)'].chan = Nil
    <3>1. \A t \in Slave \ {s} : pc'[t] = "device" /\ req'[t].op \in Makes => fid'[nf(t)'].chan = Nil
      BY <1>0, <1>t, <1>c, <1>7 DEF TypeOK, Call, Goto, nf, f, Makes, Moves, Fcall
    <3>2. pc'[s] = "device" /\ req'[s].op \in Makes => fid'[nf(s)'].chan = Nil
      BY <1>0, <1>h, <1>c, <1>7 DEF TypeOK, Call, Goto, HoldOK, Makes
    <3> QED
      BY <3>1, <3>2
  <2> QED
    BY <2>1, <2>3, <2>4, UnsetStep DEF ChanInv
<1>8. CASE Move(s)
  <2>1. \A x \in Fid : ~fid'[x].here => fid'[x].chan = Nil
    BY <1>0, <1>h, <1>c, <1>8, HeldIsHere DEF TypeOK, Move, Goto, HoldOK, f, nf, Makes, Moves
  <2>3. \A x \in Fid : fid'[x].here /\ fid'[x].chan = Nil =>
           \/ Unset(s, x)'
           \/ fid[x].here /\ fid[x].chan = Nil /\ ~Unset(s, x)
    BY <1>0, <1>h, <1>8, NewChanType, FidAssumption DEF TypeOK, Move, Goto, Unset, HoldOK, nf, f, Makes, Moves
  <2>4. \A t \in Slave : pc'[t] = "device" /\ req'[t].op \in Makes => fid'[nf(t)'].chan = Nil
    <3>1. \A t \in Slave \ {s} : pc'[t] = "device" /\ req'[t].op \in Makes => fid'[nf(t)'].chan = Nil
      BY <1>0, <1>t, <1>c, <1>8 DEF TypeOK, Move, Goto, nf, f, Makes, Moves, Fcall
    <3>2. pc'[s] = "device" /\ req'[s].op \in Makes => fid'[nf(s)'].chan = Nil
      BY <1>0, <1>h, <1>c, <1>8 DEF TypeOK, Move, Goto, HoldOK, Makes
    <3> QED
      BY <3>1, <3>2
  <2> QED
    BY <2>1, <2>3, <2>4, UnsetStep DEF ChanInv
<1>9. CASE Remove(s)
  <2>1. \A x \in Fid : ~fid'[x].here => fid'[x].chan = Nil
    BY <1>0, <1>h, <1>c, <1>9, HeldIsHere DEF TypeOK, Remove, Goto, HoldOK, f, nf, Makes, Moves
  <2>3. \A x \in Fid : fid'[x].here /\ fid'[x].chan = Nil =>
           \/ Unset(s, x)'
           \/ fid[x].here /\ fid[x].chan = Nil /\ ~Unset(s, x)
    BY <1>0, <1>h, <1>9, NewChanType, FidAssumption DEF TypeOK, Remove, Goto, Unset, HoldOK, nf, f, Makes, Moves
  <2>4. \A t \in Slave : pc'[t] = "device" /\ req'[t].op \in Makes => fid'[nf(t)'].chan = Nil
    <3>1. \A t \in Slave \ {s} : pc'[t] = "device" /\ req'[t].op \in Makes => fid'[nf(t)'].chan = Nil
      BY <1>0, <1>t, <1>c, <1>9 DEF TypeOK, Remove, Goto, nf, f, Makes, Moves, Fcall
    <3>2. pc'[s] = "device" /\ req'[s].op \in Makes => fid'[nf(s)'].chan = Nil
      BY <1>0, <1>h, <1>c, <1>9 DEF TypeOK, Remove, Goto, HoldOK, Makes
    <3> QED
      BY <3>1, <3>2
  <2> QED
    BY <2>1, <2>3, <2>4, UnsetStep DEF ChanInv
<1>10. CASE Detach(s)
  <2>1. \A x \in Fid : ~fid'[x].here => fid'[x].chan = Nil
    BY <1>0, <1>h, <1>c, <1>10, HeldIsHere DEF TypeOK, Detach, Goto, HoldOK, f, nf, Makes, Moves
  <2>3. \A x \in Fid : fid'[x].here /\ fid'[x].chan = Nil =>
           \/ Unset(s, x)'
           \/ fid[x].here /\ fid[x].chan = Nil /\ ~Unset(s, x)
    BY <1>0, <1>h, <1>10, NewChanType, FidAssumption DEF TypeOK, Detach, Goto, Unset, HoldOK, nf, f, Makes, Moves
  <2>4. \A t \in Slave : pc'[t] = "device" /\ req'[t].op \in Makes => fid'[nf(t)'].chan = Nil
    <3>1. \A t \in Slave \ {s} : pc'[t] = "device" /\ req'[t].op \in Makes => fid'[nf(t)'].chan = Nil
      BY <1>0, <1>t, <1>c, <1>10 DEF TypeOK, Detach, Goto, nf, f, Makes, Moves, Fcall
    <3>2. pc'[s] = "device" /\ req'[s].op \in Makes => fid'[nf(s)'].chan = Nil
      BY <1>0, <1>h, <1>c, <1>10 DEF TypeOK, Detach, Goto, HoldOK, Makes
    <3> QED
      BY <3>1, <3>2
  <2> QED
    BY <2>1, <2>3, <2>4, UnsetStep DEF ChanInv
<1>11. CASE Put(s)
  <2>1. \A x \in Fid : ~fid'[x].here => fid'[x].chan = Nil
    BY <1>0, <1>h, <1>c, <1>11, HeldIsHere DEF TypeOK, Put, Goto, HoldOK, f, nf, Makes, Moves, Exputfid, NoFid
  <2> DEFINE z == IF f(s) \in hold[s] THEN f(s) ELSE nf(s)
  <2>z. Exputfid(z) /\ z \in Fid /\ z \in hold[s]
    BY <1>0, <1>h, <1>11 DEF Put, HoldOK, Goto
  <2>y. \A y \in Fid : /\ fid'[y].chan \in {fid[y].chan, Nil}
                       /\ fid'[y].here => fid[y].here /\ fid'[y].chan = fid[y].chan
    <3>1. CASE fid[z].ref = 1 /\ ~fid[z].attached
      BY <2>z, <3>1 DEF Exputfid, TypeOK, NoFid
    <3>2. CASE ~(fid[z].ref = 1 /\ ~fid[z].attached)
      <4>1. fid' = [fid EXCEPT ![z].ref = @ - 1]
        BY <2>z, <3>2 DEF Exputfid
      <4> QED
        BY <2>z, <4>1 DEF TypeOK
    <3> QED
      BY <3>1, <3>2
  <2>3. \A x \in Fid : fid'[x].here /\ fid'[x].chan = Nil =>
           \/ Unset(s, x)'
           \/ fid[x].here /\ fid[x].chan = Nil /\ ~Unset(s, x)
    <3> SUFFICES ASSUME NEW x \in Fid, fid'[x].here, fid'[x].chan = Nil, Unset(s, x)
                 PROVE  FALSE
      BY <2>y
    <3>1. /\ pc[s] = "put" /\ req[s].op = "attach" /\ ~ok[s]
          /\ x = nf(s) /\ x = f(s) /\ x \in hold[s] /\ x = z
      BY <1>h, <1>11 DEF Unset, Put, Goto, HoldOK
    <3>2. ~fid[x].attached
      BY <3>1 DEF OwnInv, OwnOK, AtWork, Makes
    <3>3. fid[x].ref = 1
      BY <3>1, SoleHolder DEF Makes
    <3> QED
      BY <2>z, <3>1, <3>2, <3>3 DEF Exputfid, NoFid, TypeOK
  <2>4. \A t \in Slave : pc'[t] = "device" /\ req'[t].op \in Makes => fid'[nf(t)'].chan = Nil
    <3> SUFFICES ASSUME NEW t \in Slave, pc'[t] = "device", req'[t].op \in Makes
                 PROVE  fid'[nf(t)'].chan = Nil
      OBVIOUS
    <3>1. pc[t] = "device" /\ req[t].op \in Makes /\ nf(t)' = nf(t) /\ nf(t) \in Fid
      BY <1>0, <1>11 DEF TypeOK, Put, Goto, nf, Fcall
    <3> QED
      BY <1>c, <2>y, <3>1
  <2> QED
    BY <2>1, <2>3, <2>4, UnsetStep DEF ChanInv
<1>12. CASE CreateFails(s)
  <2>1. \A x \in Fid : ~fid'[x].here => fid'[x].chan = Nil
    BY <1>0, <1>h, <1>c, <1>12, HeldIsHere DEF TypeOK, CreateFails, Goto, HoldOK, f, nf, Makes, Moves
  <2>3. \A x \in Fid : fid'[x].here /\ fid'[x].chan = Nil =>
           \/ Unset(s, x)'
           \/ fid[x].here /\ fid[x].chan = Nil /\ ~Unset(s, x)
    BY <1>0, <1>h, <1>12, NewChanType, FidAssumption DEF TypeOK, CreateFails, Goto, Unset, HoldOK, nf, f, Makes, Moves
  <2>4. \A t \in Slave : pc'[t] = "device" /\ req'[t].op \in Makes => fid'[nf(t)'].chan = Nil
    <3>1. \A t \in Slave \ {s} : pc'[t] = "device" /\ req'[t].op \in Makes => fid'[nf(t)'].chan = Nil
      BY <1>0, <1>t, <1>c, <1>12 DEF TypeOK, CreateFails, Goto, nf, f, Makes, Moves, Fcall
    <3>2. pc'[s] = "device" /\ req'[s].op \in Makes => fid'[nf(s)'].chan = Nil
      BY <1>0, <1>h, <1>c, <1>12 DEF TypeOK, CreateFails, Goto, HoldOK, Makes
    <3> QED
      BY <3>1, <3>2
  <2> QED
    BY <2>1, <2>3, <2>4, UnsetStep DEF ChanInv
<1>13. CASE UpFails(s)
  <2>1. \A x \in Fid : ~fid'[x].here => fid'[x].chan = Nil
    BY <1>0, <1>h, <1>c, <1>13, HeldIsHere DEF TypeOK, UpFails, Goto, HoldOK, f, nf, Makes, Moves
  <2>3. \A x \in Fid : fid'[x].here /\ fid'[x].chan = Nil =>
           \/ Unset(s, x)'
           \/ fid[x].here /\ fid[x].chan = Nil /\ ~Unset(s, x)
    BY <1>0, <1>h, <1>13, NewChanType, FidAssumption DEF TypeOK, UpFails, Goto, Unset, HoldOK, nf, f, Makes, Moves
  <2>4. \A t \in Slave : pc'[t] = "device" /\ req'[t].op \in Makes => fid'[nf(t)'].chan = Nil
    <3>1. \A t \in Slave \ {s} : pc'[t] = "device" /\ req'[t].op \in Makes => fid'[nf(t)'].chan = Nil
      BY <1>0, <1>t, <1>c, <1>13 DEF TypeOK, UpFails, Goto, nf, f, Makes, Moves, Fcall
    <3>2. pc'[s] = "device" /\ req'[s].op \in Makes => fid'[nf(s)'].chan = Nil
      BY <1>0, <1>h, <1>c, <1>13 DEF TypeOK, UpFails, Goto, HoldOK, Makes
    <3> QED
      BY <3>1, <3>2
  <2> QED
    BY <2>1, <2>3, <2>4, UnsetStep DEF ChanInv
<1> QED
  BY <1>1, <1>2, <1>3, <1>4, <1>5, <1>6, <1>7, <1>8, <1>9, <1>10, <1>11, <1>12, <1>13 DEF SlaveStep

(* The channels of the fids that are not torn: open, and each its own.     *)
LEMMA OpenStep ==
  ASSUME TypeOK, HoldInv, FidHeld, MakeInv, ChanInv, OpenInv, Distinct, NoChanLeak,
         NEW s \in Slave, SlaveStep(s)
  PROVE  OpenInv' /\ Distinct' /\ NoChanLeak'
<1> SUFFICES ASSUME ~harmed' PROVE OpenInv' /\ Distinct' /\ NoChanLeak'
  BY DEF OpenInv, Distinct, NoChanLeak
<1>0. req[s] \in Fcall /\ f(s) \in Fid /\ nf(s) \in Fid
  BY DEF TypeOK, Fcall, f, nf
<1>n. /\ ~harmed
      /\ ~CreateFails(s) /\ ~UpFails(s) => torn' = torn /\ lost' = lost
      /\ CreateFails(s) \/ UpFails(s) =>
           torn' = torn \cup {f(s)} /\ lost \subseteq lost' /\ f(s) \notin torn
      /\ MakeChan(s) \/ Call(s) \/ Move(s) \/ Remove(s) => f(s) \notin torn
  BY NotHarmed
<1>i. /\ \A x \in Fid \ torn : fid[x].chan \in open \cup {Nil}
      /\ \A x \in torn : fid[x].chan # Nil
      /\ \A x, y \in Fid \ torn : fid[x].chan = fid[y].chan => x = y \/ fid[x].chan = Nil
      /\ open \subseteq {fid[x].chan : x \in Fid \ torn} \cup lost
  BY <1>n DEF OpenInv, Distinct, NoChanLeak
<1>t. /\ fid \in [Fid -> [here : BOOLEAN, ref : Nat, attached : BOOLEAN, chan : Chan \cup {Nil}]]
      /\ torn \subseteq Fid
  BY DEF TypeOK
<1>1. ASSUME fid' = fid \/ \A x \in Fid : fid'[x].chan = fid[x].chan, open' = open,
             torn' = torn, lost' = lost
      PROVE  OpenInv' /\ Distinct' /\ NoChanLeak'
  <2>1. \A x \in Fid : fid'[x].chan = fid[x].chan
    BY <1>1
  <2>2. OpenInv' /\ Distinct'
    BY <1>1, <1>i, <1>t, <2>1 DEF OpenInv, Distinct
  <2>3. NoChanLeak'
    BY <1>1, <1>i, <2>1 DEF NoChanLeak
  <2> QED
    BY <2>2, <2>3
<1>2. CASE Get(s)
  BY <1>0, <1>1, <1>2, <1>n, <1>t DEF Get, Exgetfid, CreateFails, UpFails, Goto
<1>3. CASE GetFails(s)
  BY <1>1, <1>3, <1>n DEF GetFails, CreateFails, UpFails, Goto
<1>4. CASE Make(s)
  <2>1. \A x \in Fid : fid'[x].chan = fid[x].chan
    BY <1>0, <1>4, <1>t DEF Make, Exmkfid, ChanInv
  <2> QED
    BY <1>1, <1>4, <1>n, <2>1 DEF Make, CreateFails, UpFails, Goto
<1>5. CASE MakeFails(s)
  BY <1>1, <1>5, <1>n DEF MakeFails, CreateFails, UpFails, Goto
<1>6. CASE AttachFails(s)
  <2>1. torn' = torn /\ lost' = lost
    BY <1>6 DEF AttachFails, history
  <2> QED
    BY <1>0, <1>1, <1>6, <1>t, <2>1 DEF AttachFails
<1>7. CASE Call(s) \/ Remove(s)
  <2>1. torn' = torn /\ lost' = lost
    BY <1>7 DEF Call, Remove, UseChan, Harm, history
  <2> QED
    BY <1>1, <1>7, <2>1 DEF Call, Remove
<1>8. CASE Detach(s)
  <2>1. torn' = torn /\ lost' = lost
    BY <1>8 DEF Detach, history
  <2> QED
    BY <1>0, <1>1, <1>8, <1>t, <2>1 DEF Detach
<1>9. CASE MakeChan(s)
  <2>1. torn' = torn /\ lost' = lost /\ NewChan \in Chan /\ NewChan \notin open
    BY <1>9, NewChanType DEF MakeChan, UseChan, Harm, history
  <2>2. fid[nf(s)].chan = Nil /\ nf(s) \notin torn
    BY <1>9, <1>i DEF MakeChan, Goto, ChanInv
  <2>3. /\ fid'[nf(s)].chan = NewChan /\ \A x \in Fid \ {nf(s)} : fid'[x] = fid[x]
        /\ open' = open \cup {NewChan}
    BY <1>0, <1>9, <1>t DEF MakeChan
  <2>4. OpenInv' /\ Distinct'
    BY <1>0, <1>i, <1>t, <2>1, <2>2, <2>3, FidAssumption DEF OpenInv, Distinct
  <2>5. NoChanLeak'
    <3>1. \A c \in open : c \in lost \/ \E x \in Fid \ torn : fid[x].chan = c
      BY <1>i
    <3>2. ASSUME NEW c \in open' PROVE c \in lost' \/ \E x \in Fid \ torn' : fid'[x].chan = c
      <4>1. CASE c = NewChan
        BY <1>0, <2>1, <2>2, <2>3, <4>1
      <4>2. CASE c \in open
        <5> SUFFICES ASSUME c \notin lost PROVE \E x \in Fid \ torn : fid'[x].chan = c
          BY <2>1
        <5>1. PICK x \in Fid \ torn : fid[x].chan = c
          BY <3>1, <4>2
        <5>2. c # Nil
          BY <4>2, FidAssumption DEF TypeOK
        <5> QED
          BY <2>2, <2>3, <5>1, <5>2
      <4> QED
        BY <2>3, <3>2, <4>1, <4>2
    <3> QED
      BY <3>2 DEF NoChanLeak
  <2> QED
    BY <2>4, <2>5
<1>10. CASE Move(s)
  <2>1. torn' = torn /\ lost' = lost /\ f(s) \notin torn /\ NewChan \in Chan /\ NewChan \notin open
    BY <1>10, NewChanType DEF Move, UseChan, Harm, history
  <2>2. fid[f(s)].chan # Nil
    BY <1>10, UsedOpen DEF Move, Moves, Goto
  <2>3. /\ fid'[f(s)].chan = NewChan /\ \A x \in Fid \ {f(s)} : fid'[x] = fid[x]
        /\ open' = (open \ {fid[f(s)].chan}) \cup {NewChan}
    BY <1>0, <1>10, <1>t DEF Move
  <2>4. OpenInv' /\ Distinct'
    <3>1. \A x \in Fid \ (torn \cup {f(s)}) :
            fid[x].chan # fid[f(s)].chan /\ fid[x].chan # NewChan
      BY <1>0, <1>i, <2>1, <2>2, FidAssumption
    <3>2. OpenInv'
      BY <1>0, <1>i, <1>t, <2>1, <2>3, <3>1, FidAssumption DEF OpenInv
    <3>3. Distinct'
      BY <1>0, <1>i, <2>1, <2>3, <3>1 DEF Distinct
    <3> QED
      BY <3>2, <3>3
  <2>5. NoChanLeak'
    <3>1. ASSUME NEW c \in open', c \notin lost
          PROVE  \E x \in Fid \ torn : fid'[x].chan = c
      <4>1. CASE c = NewChan
        BY <1>0, <2>1, <2>3, <4>1
      <4>2. CASE c \in open /\ c # fid[f(s)].chan
        <5>1. PICK x \in Fid \ torn : fid[x].chan = c
          BY <1>i, <3>1, <4>2
        <5> QED
          BY <2>3, <4>2, <5>1
      <4> QED
        BY <2>3, <4>1, <4>2
    <3> QED
      BY <2>1, <3>1 DEF NoChanLeak
  <2> QED
    BY <2>4, <2>5
<1>11. CASE Put(s)
  <2> DEFINE z == IF f(s) \in hold[s] THEN f(s) ELSE nf(s)
  <2>1. Exputfid(z) /\ z \in Fid
    BY <1>0, <1>11 DEF Put
  <2>t. torn' = torn /\ lost' = lost
    BY <1>11, <1>n DEF Put, Goto, CreateFails, UpFails
  <2> HIDE DEF z
  <2>2. CASE fid[z].ref = 1 /\ ~fid[z].attached
    <3>1. fid' = [fid EXCEPT ![z] = NoFid] /\ open' = open \ {fid[z].chan} /\ z \notin torn
      BY <1>n, <2>1, <2>2 DEF Exputfid, Harm
    <3>2. /\ fid'[z].chan = Nil
          /\ \A x \in Fid \ {z} : fid'[x] = fid[x]
      BY <1>t, <2>1, <3>1 DEF NoFid
    <3>3. \A x \in Fid \ torn : x # z => fid[x].chan # fid[z].chan \/ fid[x].chan = Nil
      BY <1>i, <2>1, <3>1
    <3>4. OpenInv'
      BY <1>i, <2>t, <3>1, <3>2, <3>3 DEF OpenInv
    <3>5. Distinct'
      BY <1>i, <2>t, <3>2 DEF Distinct
    <3>6. NoChanLeak'
      BY <1>i, <2>t, <3>1, <3>2 DEF NoChanLeak
    <3> QED
      BY <3>4, <3>5, <3>6
  <2>3. CASE ~(fid[z].ref = 1 /\ ~fid[z].attached)
    <3>1. fid' = [fid EXCEPT ![z].ref = @ - 1] /\ open' = open
      BY <2>1, <2>3 DEF Exputfid
    <3>2. \A x \in Fid : fid'[x].chan = fid[x].chan
      BY <1>t, <2>1, <3>1
    <3> QED
      BY <1>1, <2>t, <3>1, <3>2
  <2> QED
    BY <2>2, <2>3
<1>12. CASE CreateFails(s) \/ UpFails(s)
  <2>1. /\ torn' = torn \cup {f(s)} /\ f(s) \notin torn /\ fid' = fid
        /\ fid[f(s)].chan # Nil
    BY <1>12, <1>n, UsedOpen DEF CreateFails, UpFails, Goto
  <2>2. PICK gone : TearChan(s, gone) /\ open' = (open \ {fid[f(s)].chan}) \cup gone
    <3> DEFINE Torn(gone) == TearChan(s, gone) /\ open' = (open \ {fid[f(s)].chan}) \cup gone
    <3>1. Torn({}) \/ Torn({NewChan})
      <4>1. (open \ {fid[f(s)].chan}) \cup {} = open \ {fid[f(s)].chan}
        OBVIOUS
      <4> QED
        BY <1>12, <4>1, Zenon DEF CreateFails, UpFails
    <3> HIDE DEF Torn
    <3>2. \E gone : Torn(gone)
      BY <3>1
    <3> QED
      BY <3>2 DEF Torn
  <2>3. lost' = lost \cup gone
    BY <1>n, <2>1, <2>2 DEF TearChan, Harm
  <2>4. OpenInv' /\ Distinct'
    BY <1>0, <1>i, <2>1, <2>2 DEF OpenInv, Distinct
  <2>5. NoChanLeak'
    BY <1>0, <1>i, <2>1, <2>2, <2>3 DEF NoChanLeak
  <2> QED
    BY <2>4, <2>5
<1> QED
  BY <1>2, <1>3, <1>4, <1>5, <1>6, <1>7, <1>8, <1>9, <1>10, <1>11, <1>12 DEF SlaveStep

(* The fids that a slave at work on something else answers for. *)
LEMMA AnswersKept ==
  ASSUME TypeOK, NEW s \in Slave, SlaveStep(s), NEW t \in Slave \ {s}, NEW x \in Fid
  PROVE  Answers(t, x)' <=> Answers(t, x)
BY AtWorkKept DEF Answers, f, nf

LEMMA AnswersStep ==
  ASSUME TypeOK, OwnInv, NEW s \in Slave, SlaveStep(s), owned \subseteq owned',
         \A x \in Fid : fid'[x].attached /\ x \notin owned' =>
           Answers(s, x)' \/ (fid[x].attached /\ ~Answers(s, x))
  PROVE  \A x \in Fid : fid'[x].attached /\ x \notin owned' => \E t \in Slave : Answers(t, x)'
<1> SUFFICES ASSUME NEW x \in Fid, fid'[x].attached, x \notin owned', ~Answers(s, x)'
             PROVE  \E t \in Slave : Answers(t, x)'
  OBVIOUS
<1>1. fid[x].attached /\ ~Answers(s, x) /\ x \notin owned
  OBVIOUS
<1>2. PICK t \in Slave : Answers(t, x)
  BY <1>1 DEF OwnInv
<1> QED
  BY <1>1, <1>2, AnswersKept

(* No other request concerns a fid that s makes, and none makes one that s *)
(* ends the use of.                                                        *)
LEMMA OthersOwn ==
  ASSUME TypeOK, MakeInv, OwnInv, NEW s \in Slave, SlaveStep(s), OwnOK(s)',
         \A t \in AtWork \ {s} :
           /\ req[t].op \in Makes => fid'[nf(t)].attached = fid[nf(t)].attached
           /\ req[t].op \in Makes /\ nf(t) \notin owned => nf(t) \notin owned'
           /\ req[t].op \in Ends /\ f(t) \notin owned => f(t) \notin owned'
  PROVE  \A t \in AtWork' : OwnOK(t)'
<1> SUFFICES ASSUME NEW t \in AtWork', t # s PROVE OwnOK(t)'
  OBVIOUS
<1>1. /\ t \in AtWork \ {s} /\ OwnOK(t) /\ pc'[t] = pc[t] /\ ok'[t] = ok[t]
      /\ req'[t] = req[t] /\ f(t)' = f(t) /\ nf(t)' = nf(t)
  BY AtWorkKept DEF OwnInv, AtWork, f, nf
<1>2. /\ req[t].op \in Makes => fid'[nf(t)].attached = fid[nf(t)].attached
      /\ req[t].op \in Makes /\ nf(t) \notin owned => nf(t) \notin owned'
      /\ req[t].op \in Ends /\ f(t) \notin owned => f(t) \notin owned'
  BY <1>1
<1> QED
  BY <1>1, <1>2, Zenon DEF OwnOK

LEMMA OwnInvStep ==
  ASSUME TypeOK, HoldInv, FidHeld, MakeInv, OwnInv, NEW s \in Slave, SlaveStep(s)
  PROVE  OwnInv'
<1>0. /\ req[s] \in Fcall /\ f(s) \in Fid /\ nf(s) \in Fid /\ req' = req
      /\ f(s)' = f(s) /\ nf(s)' = nf(s) /\ s \in AtWork
  BY AtWorkKept DEF TypeOK, Fcall, f, nf, AtWork
<1>h. HoldOK(s) /\ OwnOK(s)
  BY <1>0 DEF HoldInv, OwnInv
<1>t. \A t \in AtWork \ {s} :
        /\ req[t].op \in Makes =>
             /\ nf(t) # f(s) \/ req[s].op = "attach"
             /\ req[s].op \in Makes => nf(t) # nf(s)
             /\ nf(t) \in Fid
        /\ req[t].op \in Ends => f(t) \in Fid
        /\ req[t].op \in Ends /\ req[s].op \in Makes => f(t) # nf(s)
  BY <1>0 DEF MakeInv, AtWork, TypeOK, Fcall, f, nf, Ends
<1>o. owned \subseteq Fid /\ \A x \in owned : fid[x].attached
  BY DEF TypeOK, OwnInv
<1>1. CASE Get(s)
  <2>1. \A x \in owned' : fid'[x].attached
    BY <1>0, <1>h, <1>o, <1>1 DEF TypeOK, Get, Goto, OwnOK, HoldOK, f, nf, Makes, Ends, Exgetfid
  <2>2. \A x \in Fid : fid'[x].attached /\ x \notin owned' =>
           Answers(s, x)' \/ (fid[x].attached /\ ~Answers(s, x))
    BY <1>0, <1>h, <1>1 DEF TypeOK, Get, Goto, Answers, OwnOK, HoldOK, f, nf, Makes, Ends, Moves, Exgetfid
  <2>3. OwnOK(s)'
    BY <1>0, <1>h, <1>1 DEF TypeOK, Get, Goto, OwnOK, HoldOK, f, nf, Makes, Ends, Moves, Exgetfid
  <2>4. \A t \in AtWork \ {s} :
           /\ req[t].op \in Makes => fid'[nf(t)].attached = fid[nf(t)].attached
           /\ req[t].op \in Makes /\ nf(t) \notin owned => nf(t) \notin owned'
           /\ req[t].op \in Ends /\ f(t) \notin owned => f(t) \notin owned'
    BY <1>0, <1>t, <1>h, <1>1 DEF TypeOK, Get, Goto, HoldOK, Makes, Ends, Exgetfid
  <2>5. owned \subseteq owned'
    BY <1>1 DEF Get
  <2> QED
    BY <2>1, <2>2, <2>3, <2>4, <2>5, AnswersStep, OthersOwn DEF OwnInv
<1>2. CASE GetFails(s)
  <2>1. \A x \in owned' : fid'[x].attached
    BY <1>0, <1>h, <1>o, <1>2 DEF TypeOK, GetFails, Goto, OwnOK, HoldOK, f, nf, Makes, Ends
  <2>2. \A x \in Fid : fid'[x].attached /\ x \notin owned' =>
           Answers(s, x)' \/ (fid[x].attached /\ ~Answers(s, x))
    BY <1>0, <1>h, <1>2 DEF TypeOK, GetFails, Goto, Answers, OwnOK, HoldOK, f, nf, Makes, Ends, Moves
  <2>3. OwnOK(s)'
    BY <1>0, <1>h, <1>2 DEF TypeOK, GetFails, Goto, OwnOK, HoldOK, f, nf, Makes, Ends, Moves
  <2>4. \A t \in AtWork \ {s} :
           /\ req[t].op \in Makes => fid'[nf(t)].attached = fid[nf(t)].attached
           /\ req[t].op \in Makes /\ nf(t) \notin owned => nf(t) \notin owned'
           /\ req[t].op \in Ends /\ f(t) \notin owned => f(t) \notin owned'
    BY <1>0, <1>t, <1>h, <1>2 DEF TypeOK, GetFails, Goto, HoldOK, Makes, Ends
  <2>5. owned \subseteq owned'
    BY <1>2 DEF GetFails
  <2> QED
    BY <2>1, <2>2, <2>3, <2>4, <2>5, AnswersStep, OthersOwn DEF OwnInv
<1>3. CASE Make(s)
  <2>0. ~fid[nf(s)].attached /\ nf(s) \notin owned
    <3>1. ~fid[nf(s)].here
      BY <1>3 DEF Make, Exmkfid
    <3>2. ~fid[nf(s)].attached
      BY <1>0, <3>1 DEF FidHeld
    <3> QED
      BY <3>2, <1>o
  <2>1. \A x \in owned' : fid'[x].attached
    BY <1>0, <1>h, <1>o, <1>3 DEF TypeOK, Make, Goto, OwnOK, HoldOK, f, nf, Makes, Ends, Exmkfid
  <2>2. \A x \in Fid : fid'[x].attached /\ x \notin owned' =>
           Answers(s, x)' \/ (fid[x].attached /\ ~Answers(s, x))
    BY <1>0, <1>h, <1>3 DEF TypeOK, Make, Goto, Answers, OwnOK, HoldOK, f, nf, Makes, Ends, Moves, Exmkfid
  <2>3. OwnOK(s)'
    BY <1>0, <1>h, <1>3, <2>0 DEF TypeOK, Make, Goto, OwnOK, HoldOK, f, nf, Makes, Ends, Moves, Exmkfid
  <2>4. \A t \in AtWork \ {s} :
           /\ req[t].op \in Makes => fid'[nf(t)].attached = fid[nf(t)].attached
           /\ req[t].op \in Makes /\ nf(t) \notin owned => nf(t) \notin owned'
           /\ req[t].op \in Ends /\ f(t) \notin owned => f(t) \notin owned'
    BY <1>0, <1>t, <1>h, <1>3 DEF TypeOK, Make, Goto, HoldOK, Makes, Ends, Exmkfid
  <2>5. owned \subseteq owned'
    BY <1>3 DEF Make
  <2> QED
    BY <2>1, <2>2, <2>3, <2>4, <2>5, AnswersStep, OthersOwn DEF OwnInv
<1>4. CASE MakeFails(s)
  <2>1. \A x \in owned' : fid'[x].attached
    BY <1>0, <1>h, <1>o, <1>4 DEF TypeOK, MakeFails, Goto, OwnOK, HoldOK, f, nf, Makes, Ends
  <2>2. \A x \in Fid : fid'[x].attached /\ x \notin owned' =>
           Answers(s, x)' \/ (fid[x].attached /\ ~Answers(s, x))
    BY <1>0, <1>h, <1>4 DEF TypeOK, MakeFails, Goto, Answers, OwnOK, HoldOK, f, nf, Makes, Ends, Moves
  <2>3. OwnOK(s)'
    BY <1>0, <1>h, <1>4 DEF TypeOK, MakeFails, Goto, OwnOK, HoldOK, f, nf, Makes, Ends, Moves
  <2>4. \A t \in AtWork \ {s} :
           /\ req[t].op \in Makes => fid'[nf(t)].attached = fid[nf(t)].attached
           /\ req[t].op \in Makes /\ nf(t) \notin owned => nf(t) \notin owned'
           /\ req[t].op \in Ends /\ f(t) \notin owned => f(t) \notin owned'
    BY <1>0, <1>t, <1>h, <1>4 DEF TypeOK, MakeFails, Goto, HoldOK, Makes, Ends
  <2>5. owned \subseteq owned'
    BY <1>4 DEF MakeFails
  <2> QED
    BY <2>1, <2>2, <2>3, <2>4, <2>5, AnswersStep, OthersOwn DEF OwnInv
<1>5. CASE MakeChan(s)
  <2>1. \A x \in owned' : fid'[x].attached
    BY <1>0, <1>h, <1>o, <1>5 DEF TypeOK, MakeChan, Goto, OwnOK, HoldOK, f, nf, Makes, Ends
  <2>2. \A x \in Fid : fid'[x].attached /\ x \notin owned' =>
           Answers(s, x)' \/ (fid[x].attached /\ ~Answers(s, x))
    BY <1>0, <1>h, <1>5 DEF TypeOK, MakeChan, Goto, Answers, OwnOK, HoldOK, f, nf, Makes, Ends, Moves
  <2>3. OwnOK(s)'
    BY <1>0, <1>h, <1>5 DEF TypeOK, MakeChan, Goto, OwnOK, HoldOK, f, nf, Makes, Ends, Moves
  <2>4. \A t \in AtWork \ {s} :
           /\ req[t].op \in Makes => fid'[nf(t)].attached = fid[nf(t)].attached
           /\ req[t].op \in Makes /\ nf(t) \notin owned => nf(t) \notin owned'
           /\ req[t].op \in Ends /\ f(t) \notin owned => f(t) \notin owned'
    BY <1>0, <1>t, <1>h, <1>5 DEF TypeOK, MakeChan, Goto, HoldOK, Makes, Ends
  <2>5. owned \subseteq owned'
    BY <1>5 DEF MakeChan
  <2> QED
    BY <2>1, <2>2, <2>3, <2>4, <2>5, AnswersStep, OthersOwn DEF OwnInv
<1>6. CASE AttachFails(s)
  <2>1. \A x \in owned' : fid'[x].attached
    BY <1>0, <1>h, <1>o, <1>6 DEF TypeOK, AttachFails, Goto, OwnOK, HoldOK, f, nf, Makes, Ends
  <2>2. \A x \in Fid : fid'[x].attached /\ x \notin owned' =>
           Answers(s, x)' \/ (fid[x].attached /\ ~Answers(s, x))
    BY <1>0, <1>h, <1>6 DEF TypeOK, AttachFails, Goto, Answers, OwnOK, HoldOK, f, nf, Makes, Ends, Moves
  <2>3. OwnOK(s)'
    BY <1>0, <1>h, <1>6 DEF TypeOK, AttachFails, Goto, OwnOK, HoldOK, f, nf, Makes, Ends, Moves
  <2>4. \A t \in AtWork \ {s} :
           /\ req[t].op \in Makes => fid'[nf(t)].attached = fid[nf(t)].attached
           /\ req[t].op \in Makes /\ nf(t) \notin owned => nf(t) \notin owned'
           /\ req[t].op \in Ends /\ f(t) \notin owned => f(t) \notin owned'
    BY <1>0, <1>t, <1>h, <1>6 DEF TypeOK, AttachFails, Goto, HoldOK, Makes, Ends
  <2>5. owned \subseteq owned'
    BY <1>6 DEF AttachFails
  <2> QED
    BY <2>1, <2>2, <2>3, <2>4, <2>5, AnswersStep, OthersOwn DEF OwnInv
<1>7. CASE Call(s)
  <2>1. \A x \in owned' : fid'[x].attached
    BY <1>0, <1>h, <1>o, <1>7 DEF TypeOK, Call, Goto, OwnOK, HoldOK, f, nf, Makes, Ends
  <2>2. \A x \in Fid : fid'[x].attached /\ x \notin owned' =>
           Answers(s, x)' \/ (fid[x].attached /\ ~Answers(s, x))
    BY <1>0, <1>h, <1>7 DEF TypeOK, Call, Goto, Answers, OwnOK, HoldOK, f, nf, Makes, Ends, Moves
  <2>3. OwnOK(s)'
    BY <1>0, <1>h, <1>7 DEF TypeOK, Call, Goto, OwnOK, HoldOK, f, nf, Makes, Ends, Moves
  <2>4. \A t \in AtWork \ {s} :
           /\ req[t].op \in Makes => fid'[nf(t)].attached = fid[nf(t)].attached
           /\ req[t].op \in Makes /\ nf(t) \notin owned => nf(t) \notin owned'
           /\ req[t].op \in Ends /\ f(t) \notin owned => f(t) \notin owned'
    BY <1>0, <1>t, <1>h, <1>7 DEF TypeOK, Call, Goto, HoldOK, Makes, Ends
  <2>5. owned \subseteq owned'
    BY <1>7 DEF Call
  <2> QED
    BY <2>1, <2>2, <2>3, <2>4, <2>5, AnswersStep, OthersOwn DEF OwnInv
<1>8. CASE Move(s)
  <2>1. \A x \in owned' : fid'[x].attached
    BY <1>0, <1>h, <1>o, <1>8 DEF TypeOK, Move, Goto, OwnOK, HoldOK, f, nf, Makes, Ends
  <2>2. \A x \in Fid : fid'[x].attached /\ x \notin owned' =>
           Answers(s, x)' \/ (fid[x].attached /\ ~Answers(s, x))
    BY <1>0, <1>h, <1>8 DEF TypeOK, Move, Goto, Answers, OwnOK, HoldOK, f, nf, Makes, Ends, Moves
  <2>3. OwnOK(s)'
    BY <1>0, <1>h, <1>8 DEF TypeOK, Move, Goto, OwnOK, HoldOK, f, nf, Makes, Ends, Moves
  <2>4. \A t \in AtWork \ {s} :
           /\ req[t].op \in Makes => fid'[nf(t)].attached = fid[nf(t)].attached
           /\ req[t].op \in Makes /\ nf(t) \notin owned => nf(t) \notin owned'
           /\ req[t].op \in Ends /\ f(t) \notin owned => f(t) \notin owned'
    BY <1>0, <1>t, <1>h, <1>8 DEF TypeOK, Move, Goto, HoldOK, Makes, Ends
  <2>5. owned \subseteq owned'
    BY <1>8 DEF Move
  <2> QED
    BY <2>1, <2>2, <2>3, <2>4, <2>5, AnswersStep, OthersOwn DEF OwnInv
<1>9. CASE Remove(s)
  <2>1. \A x \in owned' : fid'[x].attached
    BY <1>0, <1>h, <1>o, <1>9 DEF TypeOK, Remove, Goto, OwnOK, HoldOK, f, nf, Makes, Ends
  <2>2. \A x \in Fid : fid'[x].attached /\ x \notin owned' =>
           Answers(s, x)' \/ (fid[x].attached /\ ~Answers(s, x))
    BY <1>0, <1>h, <1>9 DEF TypeOK, Remove, Goto, Answers, OwnOK, HoldOK, f, nf, Makes, Ends, Moves
  <2>3. OwnOK(s)'
    BY <1>0, <1>h, <1>9 DEF TypeOK, Remove, Goto, OwnOK, HoldOK, f, nf, Makes, Ends, Moves
  <2>4. \A t \in AtWork \ {s} :
           /\ req[t].op \in Makes => fid'[nf(t)].attached = fid[nf(t)].attached
           /\ req[t].op \in Makes /\ nf(t) \notin owned => nf(t) \notin owned'
           /\ req[t].op \in Ends /\ f(t) \notin owned => f(t) \notin owned'
    BY <1>0, <1>t, <1>h, <1>9 DEF TypeOK, Remove, Goto, HoldOK, Makes, Ends
  <2>5. owned \subseteq owned'
    BY <1>9 DEF Remove
  <2> QED
    BY <2>1, <2>2, <2>3, <2>4, <2>5, AnswersStep, OthersOwn DEF OwnInv
<1>10. CASE Detach(s)
  <2>1. \A x \in owned' : fid'[x].attached
    BY <1>0, <1>h, <1>o, <1>10 DEF TypeOK, Detach, Goto, OwnOK, HoldOK, f, nf, Makes, Ends
  <2>2. \A x \in Fid : fid'[x].attached /\ x \notin owned' =>
           Answers(s, x)' \/ (fid[x].attached /\ ~Answers(s, x))
    BY <1>0, <1>h, <1>10 DEF TypeOK, Detach, Goto, Answers, OwnOK, HoldOK, f, nf, Makes, Ends, Moves
  <2>3. OwnOK(s)'
    BY <1>0, <1>h, <1>10 DEF TypeOK, Detach, Goto, OwnOK, HoldOK, f, nf, Makes, Ends, Moves
  <2>4. \A t \in AtWork \ {s} :
           /\ req[t].op \in Makes => fid'[nf(t)].attached = fid[nf(t)].attached
           /\ req[t].op \in Makes /\ nf(t) \notin owned => nf(t) \notin owned'
           /\ req[t].op \in Ends /\ f(t) \notin owned => f(t) \notin owned'
    BY <1>0, <1>t, <1>h, <1>10 DEF TypeOK, Detach, Goto, HoldOK, Makes, Ends
  <2>5. owned \subseteq owned'
    BY <1>10 DEF Detach
  <2> QED
    BY <2>1, <2>2, <2>3, <2>4, <2>5, AnswersStep, OthersOwn DEF OwnInv
<1>11. CASE Put(s)
  <2>1. \A x \in owned' : fid'[x].attached
    BY <1>0, <1>h, <1>o, <1>11 DEF TypeOK, Put, Goto, OwnOK, HoldOK, f, nf, Makes, Ends, Exputfid, NoFid
  <2>2. \A x \in Fid : fid'[x].attached /\ x \notin owned' =>
           Answers(s, x)' \/ (fid[x].attached /\ ~Answers(s, x))
    BY <1>0, <1>h, <1>11 DEF TypeOK, Put, Goto, Answers, OwnOK, HoldOK, f, nf, Makes, Ends, Moves, Exputfid, NoFid
  <2>3. OwnOK(s)'
    BY <1>0, <1>h, <1>11 DEF TypeOK, Put, Goto, OwnOK, HoldOK, f, nf, Makes, Ends, Moves, Exputfid, NoFid
  <2>4. \A t \in AtWork \ {s} :
           /\ req[t].op \in Makes => fid'[nf(t)].attached = fid[nf(t)].attached
           /\ req[t].op \in Makes /\ nf(t) \notin owned => nf(t) \notin owned'
           /\ req[t].op \in Ends /\ f(t) \notin owned => f(t) \notin owned'
    BY <1>0, <1>t, <1>h, <1>11 DEF TypeOK, Put, Goto, HoldOK, Makes, Ends, Exputfid, NoFid
  <2>5. owned \subseteq owned'
    BY <1>11 DEF Put
  <2> QED
    BY <2>1, <2>2, <2>3, <2>4, <2>5, AnswersStep, OthersOwn DEF OwnInv
<1>12. CASE CreateFails(s)
  <2>1. \A x \in owned' : fid'[x].attached
    BY <1>0, <1>h, <1>o, <1>12 DEF TypeOK, CreateFails, Goto, OwnOK, HoldOK, f, nf, Makes, Ends
  <2>2. \A x \in Fid : fid'[x].attached /\ x \notin owned' =>
           Answers(s, x)' \/ (fid[x].attached /\ ~Answers(s, x))
    BY <1>0, <1>h, <1>12 DEF TypeOK, CreateFails, Goto, Answers, OwnOK, HoldOK, f, nf, Makes, Ends, Moves
  <2>3. OwnOK(s)'
    BY <1>0, <1>h, <1>12 DEF TypeOK, CreateFails, Goto, OwnOK, HoldOK, f, nf, Makes, Ends, Moves
  <2>4. \A t \in AtWork \ {s} :
           /\ req[t].op \in Makes => fid'[nf(t)].attached = fid[nf(t)].attached
           /\ req[t].op \in Makes /\ nf(t) \notin owned => nf(t) \notin owned'
           /\ req[t].op \in Ends /\ f(t) \notin owned => f(t) \notin owned'
    BY <1>0, <1>t, <1>h, <1>12 DEF TypeOK, CreateFails, Goto, HoldOK, Makes, Ends
  <2>5. owned \subseteq owned'
    BY <1>12 DEF CreateFails
  <2> QED
    BY <2>1, <2>2, <2>3, <2>4, <2>5, AnswersStep, OthersOwn DEF OwnInv
<1>13. CASE UpFails(s)
  <2>1. \A x \in owned' : fid'[x].attached
    BY <1>0, <1>h, <1>o, <1>13 DEF TypeOK, UpFails, Goto, OwnOK, HoldOK, f, nf, Makes, Ends
  <2>2. \A x \in Fid : fid'[x].attached /\ x \notin owned' =>
           Answers(s, x)' \/ (fid[x].attached /\ ~Answers(s, x))
    BY <1>0, <1>h, <1>13 DEF TypeOK, UpFails, Goto, Answers, OwnOK, HoldOK, f, nf, Makes, Ends, Moves
  <2>3. OwnOK(s)'
    BY <1>0, <1>h, <1>13 DEF TypeOK, UpFails, Goto, OwnOK, HoldOK, f, nf, Makes, Ends, Moves
  <2>4. \A t \in AtWork \ {s} :
           /\ req[t].op \in Makes => fid'[nf(t)].attached = fid[nf(t)].attached
           /\ req[t].op \in Makes /\ nf(t) \notin owned => nf(t) \notin owned'
           /\ req[t].op \in Ends /\ f(t) \notin owned => f(t) \notin owned'
    BY <1>0, <1>t, <1>h, <1>13 DEF TypeOK, UpFails, Goto, HoldOK, Makes, Ends
  <2>5. owned \subseteq owned'
    BY <1>13 DEF UpFails
  <2> QED
    BY <2>1, <2>2, <2>3, <2>4, <2>5, AnswersStep, OthersOwn DEF OwnInv
<1> QED
  BY <1>1, <1>2, <1>3, <1>4, <1>5, <1>6, <1>7, <1>8, <1>9, <1>10, <1>11, <1>12, <1>13 DEF SlaveStep

(* A request that the client sends touches no Fid: it is not yet making a  *)
(* channel, and a fid that it gives up is one that it answers for.         *)
LEMMA AskStep ==
  ASSUME ReuseEarly = FALSE, TypeOK, HoldInv, ChanInv, OpenInv, Distinct, NoChanLeak,
         OwnInv, NEW s \in Slave, NEW q \in Fcall, Ask(s, q)
  PROVE  (ChanInv /\ OpenInv /\ Distinct /\ NoChanLeak /\ OwnInv)'
<1>1. /\ pc[s] = "idle" /\ fid' = fid /\ open' = open /\ hold' = hold
      /\ pc'[s] \in {"get", "make"} /\ req'[s] = q /\ ok'[s] = TRUE
      /\ owned' = IF q.op \in Ends THEN owned \ {q.fid} ELSE owned
  BY DEF Ask, TypeOK
<1>2. \A t \in Slave \ {s} : pc'[t] = pc[t] /\ req'[t] = req[t] /\ ok'[t] = ok[t]
  BY DEF Ask, TypeOK
<1>3. AtWork' \subseteq AtWork \cup {s}
  BY <1>2 DEF AtWork
<1>4. hold[s] = {}
  BY <1>1 DEF HoldInv, HoldOK
<1>5. ChanInv'
  <2>1. \A t \in Slave, x \in Fid : Unset(t, x) => Unset(t, x)'
    BY <1>1, <1>2, <1>4 DEF Unset, nf
  <2>2. \A t \in Slave : pc'[t] = "device" => t # s
    BY <1>1
  <2> QED
    BY <1>1, <1>2, <2>1, <2>2 DEF ChanInv, nf
<1>6. OpenInv' /\ Distinct' /\ NoChanLeak'
  BY <1>1 DEF OpenInv, Distinct, NoChanLeak, Ask, history
<1>7. OwnInv'
  <2>1. \A x \in owned' : fid'[x].attached
    BY <1>1 DEF OwnInv
  <2>2. ASSUME NEW x \in Fid, fid'[x].attached, x \notin owned'
        PROVE  \E t \in Slave : Answers(t, x)'
    <3>1. CASE x \in owned
      <4>1. q.op \in Ends /\ q.fid = x /\ pc'[s] = "get"
        BY <1>1, <2>2, <3>1 DEF Ask, Ends, TypeOK
      <4> QED
        BY <1>1, <4>1 DEF Answers, f
    <3>2. CASE x \notin owned
      <4>1. PICK t \in Slave : Answers(t, x)
        BY <1>1, <2>2, <3>2 DEF OwnInv
      <4>2. t # s
        BY <1>1, <4>1 DEF Answers
      <4> QED
        BY <1>2, <4>1, <4>2 DEF Answers, f, nf
    <3> QED
      BY <3>1, <3>2
  <2>3. ASSUME NEW t \in AtWork' PROVE OwnOK(t)'
    <3>1. CASE t = s
      BY <1>1, <3>1 DEF OwnOK, Ends, f, nf
    <3>2. CASE t # s
      <4>1. OwnOK(t) /\ t \in Slave \ {s} /\ owned' \subseteq owned
        BY <1>1, <1>3, <2>3, <3>2 DEF OwnInv, AtWork
      <4> QED
        BY <1>1, <1>2, <4>1 DEF OwnOK, f, nf
    <3> QED
      BY <3>1, <3>2
  <2> QED
    BY <2>1, <2>2, <2>3, Zenon DEF OwnInv
<1> QED
  BY <1>5, <1>6, <1>7

LEMMA ExfreeStep ==
  ASSUME TypeOK, NoChanLeak, Exfree
  PROVE  (ChanInv /\ OpenInv /\ Distinct /\ NoChanLeak /\ OwnInv)'
<1>1. /\ \A x \in Fid : fid'[x] = NoFid
      /\ open' = open \ {fid[x].chan : x \in Fid} /\ owned' = {}
      /\ AtWork' = {} /\ \A t \in Slave : pc'[t] = "idle"
  BY DEF Exfree, slaves, AtWork
<1>2. ChanInv' /\ Distinct' /\ OwnInv'
  BY <1>1 DEF ChanInv, Distinct, OwnInv, NoFid
<1>3. OpenInv' /\ NoChanLeak'
  <2>1. ~harmed' => ~harmed /\ torn = {} /\ torn' = {} /\ lost' = lost
    BY DEF Exfree, Harm, history
  <2>2. OpenInv'
    BY <1>1, <2>1 DEF OpenInv, NoFid
  <2>3. NoChanLeak'
    BY <1>1, <2>1 DEF NoChanLeak
  <2> QED
    BY <2>2, <2>3
<1> QED
  BY <1>2, <1>3

LEMMA IndInvStep ==
  ASSUME ReuseEarly = FALSE, TypeOK, IndInv, TypeOK', HoldInv', FidHeld', [Next]_vars
  PROVE  IndInv'
<1> USE DEF IndInv
<1>1. MakeInv'
  BY MakeStep
<1>2. CASE \E s \in Slave, q \in Fcall : Ask(s, q)
  BY <1>1, <1>2, AskStep
<1>3. CASE \E s \in Slave : SlaveStep(s)
  BY <1>1, <1>3, ChanInvStep, OpenStep, OwnInvStep
<1>4. CASE Exfree
  BY <1>1, <1>4, ExfreeStep
<1>5. CASE UNCHANGED vars
  <2>1. /\ fid' = fid /\ open' = open /\ owned' = owned /\ pc' = pc
        /\ req' = req /\ hold' = hold /\ ok' = ok
        /\ torn' = torn /\ lost' = lost /\ harmed' = harmed
    BY <1>5 DEF vars, slaves, history
  <2>2. ChanInv' /\ OpenInv' /\ Distinct' /\ NoChanLeak'
    BY <2>1 DEF ChanInv, OpenInv, Unset, Distinct, NoChanLeak, nf
  <2>3. OwnInv'
    BY <2>1 DEF OwnInv, Answers, OwnOK, AtWork, f, nf
  <2> QED
    BY <1>1, <2>2, <2>3
<1> QED
  BY <1>2, <1>3, <1>4, <1>5 DEF Next, SlaveStep

LEMMA Inductive ==
  ASSUME ReuseEarly = FALSE
  PROVE  Spec => [](TypeOK /\ IndInv)
<1>1. Init => TypeOK /\ IndInv
  BY InitInd
<1>2. (TypeOK /\ HoldInv /\ FidHeld) /\ (TypeOK /\ HoldInv /\ FidHeld)' /\ IndInv /\ [Next]_vars => IndInv'
  BY IndInvStep
<1> QED
  BY <1>1, <1>2, CountsInv, PTL DEF Spec

(* Exwalk, Excreate and the calls that use a channel: as long as the       *)
(* client keeps to the protocol, and until the stale channel of a torn fid *)
(* is used, no slave calls a device with a channel that was closed except  *)
(* for a torn fid, and no other two fids share one.                        *)
THEOREM ChannelsOpen ==
  ASSUME ReuseEarly = FALSE
  PROVE  Spec => []ChanOpen
<1>1. TypeOK /\ IndInv => ChanOpen
  BY UsedOpen DEF IndInv, Distinct, ChanOpen
<1> QED
  BY <1>1, Inductive, PTL

(* Exputfid and exfree close every channel they take the last fid of; what *)
(* stays open without a fid is what a torn fid lost.                       *)
THEOREM NothingLeaks ==
  ASSUME ReuseEarly = FALSE
  PROVE  Spec => []NoChanLeak
BY Inductive, PTL DEF IndInv

(* Between requests the server has exactly the fids the client has.        *)
THEOREM ClientAndServerAgree ==
  ASSUME ReuseEarly = FALSE
  PROVE  Spec => []ClientAgrees
<1>1. ASSUME TypeOK, IndInv PROVE ClientAgrees
  <2>1. ASSUME NEW x \in Fid, x \notin owned \cup Using \cup Making, fid[x].here
        PROVE  FALSE
    <3>1. CASE fid[x].attached
      <4>1. PICK t \in Slave : Answers(t, x)
        BY <1>1, <2>1, <3>1 DEF IndInv, OwnInv
      <4>2. t \in AtWork
        BY <4>1 DEF Answers, AtWork
      <4> QED
        BY <2>1, <4>1, <4>2 DEF Answers, Using, Making, Makes, Ends, f, nf
    <3>2. CASE ~fid[x].attached
      <4>0. fid[x].ref > 0
        BY <1>1, <2>1, <3>2, HereIff DEF IndInv
      <4>1. PICK t \in Slave : x \in hold[t]
        <5>1. Holders(x) # {}
          BY <1>1, <4>0, RefHolders, FS_EmptySet DEF IndInv
        <5> QED
          BY <5>1 DEF Holders
      <4>2. HoldOK(t) /\ req[t] \in Fcall
        BY <1>1 DEF IndInv, HoldInv, TypeOK
      <4>3. t \in AtWork /\ (x = f(t) \/ x = nf(t))
        BY <4>1, <4>2, <1>1 DEF HoldOK, AtWork, TypeOK
      <4>4. req[t].op # "attach" \/ x = nf(t)
        BY <4>2, <4>3 DEF HoldOK, AtWork
      <4>5. req[t].op \in Makes \/ x = f(t)
        BY <4>2, <4>3 DEF HoldOK, AtWork, Makes
      <4> QED
        BY <2>1, <4>3, <4>4, <4>5 DEF Using, Making, Makes, f, nf
    <3> QED
      BY <3>1, <3>2
  <2>2. \A x \in Fid : x \in owned => fid[x].attached
    BY <1>1 DEF IndInv, OwnInv
  <2> QED
    BY <2>1, <2>2 DEF ClientAgrees
<1> QED
  BY <1>1, Inductive, PTL
=============================================================================
