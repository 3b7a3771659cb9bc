--------------------------- MODULE Transfer_proofs ---------------------------
(***************************************************************************)
(* Theorems about storageData() (Transfer) for any number of fragments,    *)
(* segments, peers and faults.  All of them rest on one inductive          *)
(* invariant, TypeOK /\ CallOK: what the locals of the call promise at     *)
(* each place of its loops.                                                *)
(***************************************************************************)
EXTENDS Transfer, TLAPS

(* A batch that is looked for a peer, or is being sent, was not reported   *)
(* when the call began; its peer has none of this call.                    *)
BatchOpen ==
  /\ pc \in {"peers", "send", "sent"} => complete[batch] = NoPeer
  /\ pc \in {"send", "sent"} => peer \in Peers /\ peer \notin sucPeer

(* While fragments are sent, the flag is set at the first one and clear    *)
(* from the second one on: a fragment that fails with the flag clear is    *)
(* passed over, so that a clear flag vouches for the first fragment only.  *)
FlagOK ==
  pc \in {"send", "sent"} =>
    /\ failed <=> frag = 1
    /\ ~failed => <<peer, batch, 1>> \in holds

CallOK == BatchOpen /\ FlagOK

IInv == TypeOK /\ CallOK /\ LoggedGotFirst

-----------------------------------------------------------------------------

(* The initial state is well typed and no batch is being sent.             *)
LEMMA InitIInv == Init => IInv
<1> SUFFICES ASSUME Init PROVE IInv
  OBVIOUS
<1> USE DEF Init
<1>1. faults \in 0 .. MaxFaults /\ frag \in 1 .. Segments + 1
  BY SegmentsAssumption, FaultsAssumption
<1>2. reported \in [Batches -> Peers \cup {NoPeer}]
  OBVIOUS
<1>3. TypeOK
  BY <1>1, <1>2 DEF TypeOK
<1>4. CallOK
  BY DEF CallOK, BatchOpen, FlagOK
<1>5. LoggedGotFirst
  BY DEF LoggedGotFirst
<1> QED BY <1>3, <1>4, <1>5 DEF IInv

(* Every step of storageData() and of a miner keeps the types.             *)
LEMMA TypeStep == IInv /\ [Next]_vars => TypeOK'
<1> SUFFICES ASSUME IInv, [Next]_vars PROVE TypeOK'
  OBVIOUS
<1> USE SegmentsAssumption, FaultsAssumption, NoPeerAssumption
    DEF IInv, TypeOK, Fragments, Fault, NoFault
<1>0. CASE NoIterator
  BY <1>0 DEF NoIterator, call
<1>1. CASE Begin
  <2> DEFINE known == {reported[b] : b \in Batches} \ {NoPeer}
  <2>1. known \subseteq Peers
    OBVIOUS
  <2>2. sucPeer' \subseteq known /\ faults' \in 0 .. MaxFaults
    BY <1>1 DEF Begin
  <2> QED BY <1>1, <2>1, <2>2 DEF Begin
<1>2. CASE NextBatch
  BY <1>2 DEF NextBatch
<1>3. CASE Return
  <2>1. 1 \in 1 .. Segments + 1
    OBVIOUS
  <2> QED BY <1>3, <2>1 DEF Return
<1>4. CASE NextPeer
  <2>1. PICK p \in peers : peers' = peers \ {p} /\ peer' = p /\ frag' = 1
                           /\ failed' = TRUE /\ pc' \in {"peers", "send"}
                           /\ faults' \in 0 .. MaxFaults
    BY <1>4 DEF NextPeer
  <2> QED BY <1>4, <2>1 DEF NextPeer
<1>5. CASE NoPeerLeft
  BY <1>5 DEF NoPeerLeft, call
<1>6. CASE SendFragment
  <2>1. peer \in Peers /\ frag \in 1 .. Segments
    BY <1>6 DEF SendFragment, CallOK, BatchOpen
  <2>2. holds' \subseteq Peers \X Batches \X (1 .. Segments)
    BY <1>6, <2>1 DEF SendFragment
  <2>3. failed' \in BOOLEAN /\ faults' \in 0 .. MaxFaults
    <3>1. CASE failed' = FALSE /\ NoFault
      BY <3>1
    <3>2. CASE UNCHANGED failed /\ Fault
      BY <3>2
    <3> QED BY <1>6, <3>1, <3>2 DEF SendFragment
  <2>4. frag' \in 1 .. Segments + 1 /\ pc' \in {"send", "sent"}
    BY <1>6, <2>1 DEF SendFragment
  <2> QED BY <1>6, <2>2, <2>3, <2>4 DEF SendFragment
<1>7. CASE BatchSent
  <2>1. peer \in Peers
    BY <1>7 DEF BatchSent, CallOK, BatchOpen
  <2>2. sucPeer' \subseteq Peers /\ logged' \subseteq Batches \X Peers
    BY <1>7, <2>1 DEF BatchSent
  <2> QED BY <1>7, <2>2 DEF BatchSent
<1>8. CASE \E p \in Peers, b \in Batches : MinerReports(p, b)
  BY <1>8 DEF MinerReports, call
<1>9. CASE UNCHANGED vars
  BY <1>9 DEF vars, call
<1> QED BY <1>0, <1>1, <1>2, <1>3, <1>4, <1>5, <1>6, <1>7, <1>8, <1>9
        DEF Next, StorageData

(* Every step keeps what the locals of the call promise, and a batch is    *)
(* logged only when the flag vouches for its first fragment.               *)
LEMMA CallStep == IInv /\ [Next]_vars => CallOK' /\ LoggedGotFirst'
<1> SUFFICES ASSUME IInv, [Next]_vars PROVE CallOK' /\ LoggedGotFirst'
  OBVIOUS
<1> USE SegmentsAssumption DEF IInv, CallOK, BatchOpen, FlagOK
<1>0. CASE NoIterator
  BY <1>0 DEF NoIterator, call, LoggedGotFirst
<1>1. CASE Begin
  BY <1>1 DEF Begin, LoggedGotFirst
<1>2. CASE NextBatch
  BY <1>2 DEF NextBatch, LoggedGotFirst
<1>3. CASE Return
  BY <1>3 DEF Return, LoggedGotFirst
<1>4. CASE NextPeer
  <2>1. pc' \in {"peers", "send"} /\ frag' = 1 /\ failed' = TRUE
    BY <1>4 DEF NextPeer
  <2>2. pc' = "send" => peer' \in Peers /\ peer' \notin sucPeer'
    BY <1>4 DEF NextPeer, TypeOK
  <2> QED BY <1>4, <2>1, <2>2 DEF NextPeer, LoggedGotFirst
<1>5. CASE NoPeerLeft
  BY <1>5 DEF NoPeerLeft, call, LoggedGotFirst
<1>6. CASE SendFragment
  <2>1. BatchOpen'
    BY <1>6 DEF SendFragment
  <2>2. holds \subseteq holds' /\ LoggedGotFirst'
    BY <1>6 DEF SendFragment, LoggedGotFirst
  <2>3. CASE holds' = holds \cup {<<peer, batch, frag>>} /\ failed' = FALSE
    <3>1. frag' = frag + 1 /\ frag \in Nat \ {0} /\ UNCHANGED <<peer, batch, pc>>
      BY <1>6, <2>3 DEF SendFragment, Fragments, TypeOK
    <3>2. <<peer, batch, 1>> \in holds'
      <4>1. CASE frag = 1
        BY <2>3, <3>1, <4>1
      <4>2. CASE frag # 1
        BY <1>6, <2>2, <3>1, <4>2 DEF SendFragment
      <4> QED BY <4>1, <4>2
    <3> QED BY <2>1, <2>2, <2>3, <3>1, <3>2
  <2>4. CASE UNCHANGED <<holds, failed>>
    <3>1. CASE failed
      BY <1>6, <2>1, <2>2, <2>4, <3>1 DEF SendFragment
    <3>2. CASE ~failed
      <4>1. frag' = frag + 1 /\ frag \in Nat \ {0} /\ UNCHANGED <<peer, batch, pc>>
        BY <1>6, <2>4, <3>2 DEF SendFragment, Fragments, TypeOK
      <4> QED BY <1>6, <2>1, <2>2, <2>4, <3>2, <4>1 DEF SendFragment
    <3> QED BY <3>1, <3>2
  <2> QED BY <1>6, <2>3, <2>4 DEF SendFragment
<1>7. CASE BatchSent
  <2>1. pc \in {"send", "sent"} /\ UNCHANGED <<holds, batch, peer, complete>>
    BY <1>7 DEF BatchSent
  <2>2. CASE failed
    BY <1>7, <2>1, <2>2 DEF BatchSent, LoggedGotFirst
  <2>3. CASE ~failed
    BY <1>7, <2>1, <2>3 DEF BatchSent, LoggedGotFirst
  <2> QED BY <2>2, <2>3
<1>8. CASE \E p \in Peers, b \in Batches : MinerReports(p, b)
  BY <1>8 DEF MinerReports, call, LoggedGotFirst
<1>9. CASE UNCHANGED vars
  BY <1>9 DEF vars, call, LoggedGotFirst
<1> QED BY <1>0, <1>1, <1>2, <1>3, <1>4, <1>5, <1>6, <1>7, <1>8, <1>9
        DEF Next, StorageData

(* The invariant holds in every reachable state of storageData().          *)
LEMMA Invariance == Spec => []IInv
<1>1. IInv /\ [Next]_vars => IInv'
  BY TypeStep, CallStep DEF IInv
<1> QED BY InitIInv, <1>1, PTL DEF Spec

(* The variables of the transfer keep their types.                         *)
THEOREM TypeCorrect == Spec => []TypeOK
<1>1. IInv => TypeOK
  BY DEF IInv
<1> QED BY Invariance, <1>1, PTL

(* storageData() logs a batch for a peer only if that peer got the first   *)
(* fragment of it: the flag starts set and only a success clears it.       *)
THEOREM FirstArrived == Spec => []LoggedGotFirst
<1>1. IInv => LoggedGotFirst
  BY DEF IInv
<1> QED BY Invariance, <1>1, PTL

(* Fragments are sent only for a batch that was missing on the chain when  *)
(* the call began, and never to a peer of the call's own list of peers     *)
(* that have one.                                                          *)
THEOREM NoTwoShards == Spec => SentWhereMissing
<1>1. IInv /\ [Next]_vars =>
        [holds' # holds => complete[batch] = NoPeer /\ peer \notin sucPeer]_vars
  <2> SUFFICES ASSUME IInv, [Next]_vars, holds' # holds
               PROVE  complete[batch] = NoPeer /\ peer \notin sucPeer
    OBVIOUS
  <2>1. SendFragment
    BY DEF Next, StorageData, NoIterator, Begin, NextBatch, Return, NextPeer, NoPeerLeft,
           BatchSent, MinerReports, vars, call
  <2> QED BY <2>1 DEF SendFragment, IInv, CallOK, BatchOpen
<1> QED BY Invariance, <1>1, PTL DEF Spec, SentWhereMissing
=============================================================================
