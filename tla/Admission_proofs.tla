--------------------------- MODULE Admission_proofs ---------------------------
(***************************************************************************)
(* Proofs about Admission: the tokens are conserved, for every number of   *)
(* requests, every size of the channels and every account and file; and    *)
(* the order of an admitted PUT finds no room only when other uploads have *)
(* overtaken it.                                                           *)
(***************************************************************************)
EXTENDS Admission, FiniteSetTheorems, SequenceTheorems, TLAPS

(* What the constants give each request.                                   *)
LEMMA RequestTypes ==
  ASSUME NEW r \in Requests
  PROVE  /\ Pool(r) \in Pools
         /\ FirstStep(r) \in {"check", "fetch"}
         /\ Account[r] \in Users
         /\ Asked(r) \in Int /\ Taken(r) \in Nat
<1>1. Size[r] \in Nat /\ Length[r] \in Int /\ Account[r] \in Users
  BY RequestsAssumption
<1>2. Asked(r) \in Int /\ Taken(r) \in Nat
  BY <1>1 DEF Asked, Taken
<1> QED
  BY <1>1, <1>2 DEF Pool, Pools, FirstStep

(* The parts of the type invariant, each disturbed by few of the actions.  *)
GateType == tokens \in [Pools -> Nat] /\ queue \in [Pools -> Seq(Requests)]
Steps == Inside \cup {"idle", "wait", "done"}
PcType == pc \in [Requests -> Steps]
StatusType == funded \in BOOLEAN /\ rpc \in BOOLEAN
RemainingType == remaining \in [Users -> Nat]
SeenType == seen \in [Requests -> Nat]
PendingType == pending \subseteq Requests /\ refused \subseteq pending
FaultsType == faults \in 0 .. MaxFaults

(* TypeOK is its parts, in this state and in the next.                     *)
LEMMA TypeParts ==
  /\ TypeOK => /\ GateType /\ PcType /\ StatusType /\ FaultsType
               /\ RemainingType /\ SeenType /\ PendingType
  /\ (/\ GateType /\ PcType /\ StatusType /\ FaultsType
      /\ RemainingType /\ SeenType /\ PendingType)' => TypeOK'
BY DEF TypeOK, GateType, PcType, Steps, StatusType, RemainingType, SeenType,
       PendingType, FaultsType

(* What is left alone keeps its type.                                      *)
LEMMA TypesKept ==
  /\ GateType /\ UNCHANGED gate => GateType'
  /\ PcType /\ UNCHANGED pc => PcType'
  /\ StatusType /\ UNCHANGED status => StatusType'
  /\ RemainingType /\ UNCHANGED remaining => RemainingType'
  /\ SeenType /\ UNCHANGED seen => SeenType'
  /\ PendingType /\ UNCHANGED <<pending, refused>> => PendingType'
  /\ FaultsType /\ UNCHANGED faults => FaultsType'
BY DEF GateType, PcType, StatusType, RemainingType, SeenType, PendingType,
       FaultsType, gate, status

(* A token more or less in one pool.                                       *)
LEMMA TokenMoved ==
  ASSUME GateType, NEW p \in Pools, NEW n \in Nat, UNCHANGED queue,
         tokens' = [tokens EXCEPT ![p] = n]
  PROVE  GateType'
BY DEF GateType

(* A request more or less in one queue.                                    *)
LEMMA RequestQueued ==
  ASSUME GateType, NEW p \in Pools, NEW q \in Seq(Requests), UNCHANGED tokens,
         queue' = [queue EXCEPT ![p] = q]
  PROVE  GateType'
BY DEF GateType

(* A request goes on to one of its steps.                                  *)
LEMMA GotoKeepsType ==
  ASSUME PcType, NEW r \in Requests, NEW step \in Steps, Goto(r, step)
  PROVE  PcType'
BY DEF PcType, Goto

(* A fault is counted up to the bound.                                     *)
LEMMA FaultKeepsType == FaultsType /\ (Fault \/ NoFault) => FaultsType'
BY FaultsAssumption DEF FaultsType, Fault, NoFault

(* An order takes space that is there, or its request becomes pending.     *)
LEMMA OrderKeepsTypes ==
  ASSUME RemainingType, PendingType, FaultsType,
         NEW r \in Requests, Order(r)
  PROVE  RemainingType' /\ PendingType' /\ FaultsType'
<1>1. PICK u \in Users : u = Account[r]
  BY RequestTypes
<1>2. Taken(r) \in Nat /\ remaining[u] \in Nat
  BY RequestTypes DEF RemainingType
<1>3. \/ UNCHANGED remaining
      \/ /\ Taken(r) <= remaining[u]
         /\ remaining' = [remaining EXCEPT ![u] = @ - Taken(r)]
  BY <1>1 DEF Order
<1>4. RemainingType'
  BY <1>2, <1>3 DEF RemainingType
<1>5. \/ pending' = pending \ {r} /\ refused' = refused \ {r}
      \/ pending' = pending \cup {r} /\ refused' = refused \cup {r}
      \/ pending' = pending \cup {r} /\ refused' = refused \ {r}
  BY DEF Order
<1>6. PendingType'
  BY <1>5 DEF PendingType
<1>7. FaultsType'
  BY FaultKeepsType DEF Order
<1> QED
  BY <1>4, <1>6, <1>7

(* Both limits are numbers.                                                *)
LEMMA LimitType == Limit \in [Pools -> Nat]
<1>1. \A p \in Pools :
        (IF p = "req" THEN max_concurrent_req ELSE max_concurrent_get) \in Nat
  BY LimitsAssumption
<1> QED
  BY <1>1 DEF Limit

(* The pools start full, and no request has arrived.                       *)
LEMMA InitType == Init => TypeOK
<1> SUFFICES ASSUME Init
             PROVE  TypeOK
  OBVIOUS
<1>1. tokens \in [Pools -> Nat] /\ queue \in [Pools -> Seq(Requests)]
  BY LimitType DEF Init
<1>2. pc \in [Requests -> Inside \cup {"idle", "wait", "done"}]
  BY DEF Init
<1>3. remaining \in [Users -> Nat] /\ seen \in [Requests -> Nat]
  BY SpaceAssumption DEF Init
<1>4. funded \in BOOLEAN /\ rpc \in BOOLEAN
  BY Zenon DEF Init
<1>5. /\ pending \subseteq Requests /\ refused \subseteq pending
      /\ faults \in 0 .. MaxFaults
  BY FaultsAssumption DEF Init
<1> QED
  BY <1>1, <1>2, <1>3, <1>4, <1>5 DEF TypeOK

(* Every step of a request, of refreshSelf and of the chain keeps the      *)
(* types.                                                                  *)
LEMMA StepKeepsType == TypeOK /\ [Next]_vars => TypeOK'
<1> SUFFICES ASSUME TypeOK, [Next]_vars
             PROVE  TypeOK'
  OBVIOUS
<1>t. /\ GateType /\ PcType /\ StatusType /\ FaultsType
      /\ RemainingType /\ SeenType /\ PendingType
  BY TypeParts
<1>1. ASSUME NEW r \in Requests, Arrive(r)
      PROVE  TypeOK'
  <2>1. Pool(r) \in Pools /\ FirstStep(r) \in Steps /\ "wait" \in Steps
    BY RequestTypes DEF Steps, Inside
  <2>2. PcType'
    BY <1>t, <1>1, <2>1, GotoKeepsType DEF Arrive
  <2>3. Append(queue[Pool(r)], r) \in Seq(Requests)
    BY <1>t, <2>1 DEF GateType
  <2>4. GateType'
    <3>1. \/ UNCHANGED gate
          \/ /\ tokens[Pool(r)] > 0 /\ UNCHANGED queue
             /\ tokens' = [tokens EXCEPT ![Pool(r)] = @ - 1]
          \/ /\ queue' = [queue EXCEPT ![Pool(r)] = Append(@, r)]
             /\ UNCHANGED tokens
      BY <1>1, Zenon DEF Arrive
    <3> QED
      <4>1. tokens[Pool(r)] > 0 => tokens[Pool(r)] - 1 \in Nat
        BY <1>t, <2>1 DEF GateType
      <4> QED
        BY <1>t, <2>1, <2>3, <3>1, <4>1, TokenMoved, RequestQueued, TypesKept
  <2> QED
    BY <1>t, <1>1, <2>2, <2>4, TypesKept, TypeParts DEF Arrive, space
<1>2. ASSUME NEW r \in Requests, Leave(r)
      PROVE  TypeOK'
  <2>1. Pool(r) \in Pools /\ "done" \in Steps
    BY RequestTypes DEF Steps
  <2>2. CASE ~NeedsToken(r) \/ queue[Pool(r)] = <<>>
    <3>1. Goto(r, "done")
      BY <1>2, <2>2 DEF Leave
    <3>2. PcType'
      BY <1>t, <2>1, <3>1, GotoKeepsType
    <3>3. GateType'
      <4>1. \/ UNCHANGED gate
            \/ /\ tokens' = [tokens EXCEPT ![Pool(r)] = @ + 1]
               /\ UNCHANGED queue
        BY <1>2, <2>2 DEF Leave
      <4>2. tokens[Pool(r)] + 1 \in Nat
        BY <1>t, <2>1 DEF GateType
      <4> QED
        BY <1>t, <2>1, <4>1, <4>2, TokenMoved, TypesKept
    <3> QED
      BY <1>t, <1>2, <3>2, <3>3, TypesKept, TypeParts DEF Leave, status, space
  <2>3. CASE NeedsToken(r) /\ queue[Pool(r)] # <<>>
    <3> DEFINE next == Head(queue[Pool(r)])
    <3>1. next \in Requests /\ Tail(queue[Pool(r)]) \in Seq(Requests)
      BY <1>t, <2>1, <2>3, HeadTailProperties DEF GateType
    <3>2. FirstStep(next) \in Steps
      BY <3>1, RequestTypes DEF Steps, Inside
    <3>3. /\ queue' = [queue EXCEPT ![Pool(r)] = Tail(@)]
          /\ pc' = [pc EXCEPT ![r] = "done", ![next] = FirstStep(next)]
          /\ tokens' = tokens
      BY <1>2, <2>3 DEF Leave
    <3> HIDE DEF next
    <3>4. PcType'
      BY <1>t, <2>1, <3>1, <3>2, <3>3 DEF PcType
    <3>5. GateType'
      BY <1>t, <2>1, <3>1, <3>3, RequestQueued
    <3> QED
      BY <1>t, <1>2, <3>4, <3>5, TypesKept, TypeParts DEF Leave, status, space
  <2> QED
    BY <2>2, <2>3
<1>3. ASSUME NEW r \in Requests,
             Fetch(r) \/ Check(r) \/ CreateBucket(r) \/ EarlyReturn(r)
      PROVE  TypeOK'
  <2>1. PcType'
    BY <1>t, <1>3, GotoKeepsType
       DEF Fetch, Check, CreateBucket, EarlyReturn, Steps, Inside
  <2> QED
    BY <1>t, <1>3, <2>1, TypesKept, TypeParts
       DEF Fetch, Check, CreateBucket, EarlyReturn, status, space
<1>4. ASSUME NEW r \in Requests, checkSapce(r)
      PROVE  TypeOK'
  <2>1. PcType'
    BY <1>t, <1>4, GotoKeepsType DEF checkSapce, Steps, Inside
  <2>2. FaultsType'
    BY <1>t, <1>4, FaultKeepsType DEF checkSapce
  <2>3. remaining[Account[r]] \in Nat
    BY <1>t, RequestTypes DEF RemainingType
  <2>4. SeenType'
    BY <1>t, <1>4, <2>3 DEF checkSapce, SeenType
  <2> QED
    BY <1>t, <1>4, <2>1, <2>2, <2>4, TypesKept, TypeParts
       DEF checkSapce
<1>5. ASSUME NEW r \in Requests, PlaceOrder(r) \/ OrderAgain(r)
      PROVE  TypeOK'
  <2>1. PcType'
    BY <1>t, <1>5, GotoKeepsType, TypesKept
       DEF PlaceOrder, OrderAgain, Steps, Inside
  <2>2. RemainingType' /\ PendingType' /\ FaultsType'
    BY <1>t, <1>5, OrderKeepsTypes DEF PlaceOrder, OrderAgain
  <2> QED
    BY <1>t, <1>5, <2>1, <2>2, TypesKept, TypeParts
       DEF PlaceOrder, OrderAgain
<1>6. ASSUME NEW u \in Users, SpaceFreed(u)
      PROVE  TypeOK'
  <2>1. RemainingType'
    BY <1>t, <1>6, SpaceAssumption DEF SpaceFreed, RemainingType
  <2> QED
    BY <1>t, <1>6, <2>1, FaultKeepsType, TypesKept, TypeParts DEF SpaceFreed
<1>7. CASE refreshSelf \/ RpcLost \/ ReconnectRpc
  <2>1. StatusType'
    BY <1>t, <1>7, Zenon
       DEF refreshSelf, RpcLost, ReconnectRpc, StatusType
  <2> QED
    BY <1>t, <1>7, <2>1, FaultKeepsType, TypesKept, TypeParts
       DEF refreshSelf, RpcLost, ReconnectRpc, space
<1>8. CASE Crash
  <2>1. PcType'
    BY <1>t, <1>8 DEF Crash, PcType, Steps
  <2>2. GateType'
    BY <1>t, <1>8, LimitType DEF Crash, GateType
  <2>3. StatusType'
    BY <1>8, Zenon DEF Crash, StatusType
  <2> QED
    BY <1>t, <1>8, <2>1, <2>2, <2>3, FaultKeepsType, TypesKept, TypeParts
       DEF Crash, space
<1>9. CASE UNCHANGED vars
  BY <1>t, <1>9, TypesKept, TypeParts DEF vars, gate, status, space
<1> QED
  BY <1>1, <1>2, <1>3, <1>4, <1>5, <1>6, <1>7, <1>8, <1>9 DEF Next, Handle

(* Every variable keeps its type; a channel never owes a token.            *)
THEOREM TypeCorrect == Spec => []TypeOK
BY InitType, StepKeepsType, PTL DEF Spec

-----------------------------------------------------------------------------
(* How the holders of a pool's tokens change with one request's step.      *)

(* Finitely many requests hold tokens.                                     *)
LEMMA HoldersFinite ==
  ASSUME NEW p
  PROVE  /\ IsFiniteSet(Holders(p))
         /\ Cardinality(Holders(p)) \in Nat
<1>1. Holders(p) \subseteq Requests
  BY DEF Holders
<1> QED
  BY <1>1, FS_Subset, FS_CardinalityType, RequestsAssumption

(* A request that goes on, or waits, changes no pool.                      *)
LEMMA HoldersKept ==
  ASSUME TypeOK, NEW r \in Requests, NEW step, Goto(r, step),
         pc[r] \in Inside <=> step \in Inside,
         NEW p
  PROVE  Holders(p)' = Holders(p)
  BY DEF TypeOK, Goto, Holders

(* One that goes in is one holder more of its pool, ...                    *)
LEMMA HolderAdded ==
  ASSUME TypeOK, NEW r \in Requests, NEW step \in Inside, Goto(r, step),
         pc[r] \notin Inside, NeedsToken(r),
         NEW p
  PROVE  Cardinality(Holders(p)') =
           Cardinality(Holders(p)) + (IF Pool(r) = p THEN 1 ELSE 0)
<1>1. Holders(p)' = IF Pool(r) = p THEN Holders(p) \cup {r} ELSE Holders(p)
  BY DEF TypeOK, Goto, Holders, NeedsToken, Pool
<1>2. r \notin Holders(p)
  BY DEF Holders
<1>3. Cardinality(Holders(p) \cup {r}) = Cardinality(Holders(p)) + 1
  BY <1>2, FS_AddElement, HoldersFinite
<1> QED
  BY <1>1, <1>3, HoldersFinite

(* ... and one that ends is one less.                                      *)
LEMMA HolderRemoved ==
  ASSUME TypeOK, NEW r \in Requests, Goto(r, "done"),
         pc[r] \in Inside, NeedsToken(r),
         NEW p
  PROVE  Cardinality(Holders(p)') =
           Cardinality(Holders(p)) - (IF Pool(r) = p THEN 1 ELSE 0)
<1>1. Holders(p)' = IF Pool(r) = p THEN Holders(p) \ {r} ELSE Holders(p)
  BY DEF TypeOK, Goto, Holders, NeedsToken, Pool, Inside
<1>2. Pool(r) = p => r \in Holders(p)
  BY DEF Holders
<1>3. Pool(r) = p => Cardinality(Holders(p) \ {r}) = Cardinality(Holders(p)) - 1
  BY <1>2, FS_RemoveElement, HoldersFinite
<1> QED
  BY <1>1, <1>3, HoldersFinite

(* One that needs no token is never a holder.                              *)
LEMMA FreeRequest ==
  ASSUME TypeOK, NEW r \in Requests, NEW step, Goto(r, step), ~NeedsToken(r),
         NEW p
  PROVE  Holders(p)' = Holders(p)
  BY DEF TypeOK, Goto, Holders, NeedsToken

(* Who takes over the token of another leaves the number of holders alone. *)
LEMMA HolderSwapped ==
  ASSUME TypeOK, NEW r \in Requests, NEW q \in Requests, NEW step \in Inside,
         pc' = [pc EXCEPT ![r] = "done", ![q] = step],
         pc[r] \in Inside, NeedsToken(r),
         pc[q] \notin Inside, NeedsToken(q), Pool(q) = Pool(r),
         NEW p
  PROVE  Cardinality(Holders(p)') = Cardinality(Holders(p))
<1>1. CASE Pool(r) # p
  <2>1. Holders(p)' = Holders(p)
    BY <1>1 DEF TypeOK, Holders, NeedsToken, Pool, Inside
  <2> QED
    BY <2>1
<1>2. CASE Pool(r) = p
  <2>1. Holders(p)' = (Holders(p) \ {r}) \cup {q}
    BY <1>2 DEF TypeOK, Holders, NeedsToken, Pool, Inside
  <2>2. r \in Holders(p) /\ q \notin Holders(p) \ {r}
    BY <1>2 DEF Holders
  <2>3. /\ IsFiniteSet(Holders(p) \ {r})
        /\ Cardinality(Holders(p) \ {r}) = Cardinality(Holders(p)) - 1
    BY <2>2, FS_RemoveElement, HoldersFinite
  <2>4. Cardinality((Holders(p) \ {r}) \cup {q})
          = Cardinality(Holders(p) \ {r}) + 1
    BY <2>2, <2>3, FS_AddElement
  <2> QED
    BY <2>1, <2>3, <2>4, HoldersFinite
<1> QED
  BY <1>1, <1>2

-----------------------------------------------------------------------------
(* Who waits.                                                              *)

(* The queues of the next state, spelled out.                              *)
LEMMA QueueInvNext ==
  ASSUME \A p \in Pools : \A i \in 1 .. Len(queue'[p]) :
           /\ pc'[queue'[p][i]] = "wait"
           /\ NeedsToken(queue'[p][i]) /\ Pool(queue'[p][i]) = p
           /\ \A j \in 1 .. Len(queue'[p]) :
                queue'[p][j] = queue'[p][i] => j = i
  PROVE  QueueInv'
BY DEF QueueInv, NeedsToken, Pool

(* Who arrives or goes on is in no queue: a queue keeps who waits only.    *)
LEMMA QueueKept ==
  ASSUME TypeOK, QueueInv, UNCHANGED queue,
         \A r \in Requests : pc[r] = "wait" => pc'[r] = "wait"
  PROVE  QueueInv'
<1> SUFFICES ASSUME NEW p \in Pools, NEW i \in 1 .. Len(queue[p])
             PROVE  LET r == queue[p][i]
                    IN  /\ pc'[r] = "wait" /\ NeedsToken(r) /\ Pool(r) = p
                        /\ \A j \in 1 .. Len(queue[p]) :
                             queue[p][j] = r => j = i
  BY DEF QueueInv, NeedsToken, Pool
<1>1. queue[p][i] \in Requests
  BY DEF TypeOK
<1> QED
  BY <1>1 DEF QueueInv

(* A request that steps without waiting leaves the queues as they were.    *)
LEMMA StepKeepsQueue ==
  ASSUME TypeOK, QueueInv, UNCHANGED queue,
         NEW r \in Requests, NEW step, Goto(r, step), pc[r] # "wait"
  PROVE  QueueInv'
<1>1. \A q \in Requests : pc[q] = "wait" => pc'[q] = "wait"
  BY DEF TypeOK, Goto
<1> QED
  BY <1>1, QueueKept

(* Who waits joins the end of the queue of its pool.                       *)
LEMMA WaitKeepsQueue ==
  ASSUME TypeOK, QueueInv,
         NEW r \in Requests, pc[r] = "idle", Goto(r, "wait"), NeedsToken(r),
         queue' = [queue EXCEPT ![Pool(r)] = Append(@, r)]
  PROVE  QueueInv'
<1> DEFINE old(p) == queue[p]
<1>1. \A p \in Pools : queue[p] \in Seq(Requests)
  BY DEF TypeOK
<1>2. Pool(r) \in Pools
  BY RequestTypes
<1>3. \A p \in Pools : \A i \in 1 .. Len(queue[p]) :
        queue[p][i] \in Requests /\ queue[p][i] # r
  BY <1>1 DEF QueueInv
<1>4. pc' = [pc EXCEPT ![r] = "wait"]
  BY DEF Goto
<1>5. \A q \in Requests : pc[q] = "wait" => pc'[q] = "wait"
  BY <1>4 DEF TypeOK
<1>6. pc'[r] = "wait"
  BY <1>4 DEF TypeOK
<1>7. ASSUME NEW p \in Pools, NEW i \in 1 .. Len(queue'[p])
      PROVE  /\ pc'[queue'[p][i]] = "wait"
             /\ NeedsToken(queue'[p][i]) /\ Pool(queue'[p][i]) = p
             /\ \A j \in 1 .. Len(queue'[p]) :
                  queue'[p][j] = queue'[p][i] => j = i
  <2>1. CASE p # Pool(r)
    <3>1. queue'[p] = queue[p]
      BY <2>1 DEF TypeOK
    <3> QED
      BY <1>3, <1>5, <1>7, <3>1, ZenonT(40) DEF QueueInv
  <2>2. CASE p = Pool(r)
    <3>1. queue'[p] = Append(queue[p], r)
      BY <2>2 DEF TypeOK
    <3>2. /\ Len(queue'[p]) = Len(queue[p]) + 1
          /\ Len(queue[p]) \in Nat
          /\ queue'[p][Len(queue[p]) + 1] = r
          /\ \A j \in 1 .. Len(queue[p]) : queue'[p][j] = queue[p][j]
      BY <1>1, <3>1, AppendProperties
    <3>3. \A j \in 1 .. Len(queue'[p]) :
            j \in 1 .. Len(queue[p]) \/ j = Len(queue[p]) + 1
      BY <3>2
    <3>4. CASE i = Len(queue[p]) + 1
      BY <1>3, <1>6, <2>2, <3>2, <3>3, <3>4
    <3>5. CASE i \in 1 .. Len(queue[p])
      <4>1. /\ pc[queue[p][i]] = "wait"
            /\ NeedsToken(queue[p][i]) /\ Pool(queue[p][i]) = p
            /\ \A j \in 1 .. Len(queue[p]) :
                 queue[p][j] = queue[p][i] => j = i
        BY <3>5 DEF QueueInv
      <4> QED
        BY <1>3, <1>5, <3>2, <3>3, <3>5, <4>1
    <3> QED
      BY <1>7, <3>3, <3>4, <3>5
  <2> QED
    BY <2>1, <2>2
<1> QED
  BY <1>7, QueueInvNext

(* The request that takes over a token leaves the head of its queue.       *)
LEMMA GrantKeepsQueue ==
  ASSUME TypeOK, QueueInv,
         NEW r \in Requests, pc[r] # "wait", NEW p \in Pools, queue[p] # <<>>,
         NEW step,
         queue' = [queue EXCEPT ![p] = Tail(@)],
         pc' = [pc EXCEPT ![r] = "done", ![Head(queue[p])] = step]
  PROVE  QueueInv'
<1> DEFINE next == Head(queue[p])
<1>1. \A x \in Pools : queue[x] \in Seq(Requests)
  BY DEF TypeOK
<1>2. /\ next \in Requests /\ next = queue[p][1]
      /\ Tail(queue[p]) \in Seq(Requests)
      /\ Len(queue[p]) \in Nat \ {0}
      /\ Len(Tail(queue[p])) = Len(queue[p]) - 1
      /\ \A i \in 1 .. Len(Tail(queue[p])) :
           Tail(queue[p])[i] = queue[p][i + 1]
  BY <1>1, HeadTailProperties
<1> HIDE DEF next
<1>3. pc' = [pc EXCEPT ![r] = "done", ![next] = step]
  BY DEF next
<1>4. \A q \in Requests : pc[q] = "wait" /\ q # next => pc'[q] = "wait"
  BY <1>3 DEF TypeOK
<1>5. 1 \in 1 .. Len(queue[p]) /\ Pool(next) = p
  BY <1>2 DEF QueueInv
<1>6. ASSUME NEW x \in Pools, NEW i \in 1 .. Len(queue'[x])
      PROVE  /\ pc'[queue'[x][i]] = "wait"
             /\ NeedsToken(queue'[x][i]) /\ Pool(queue'[x][i]) = x
             /\ \A j \in 1 .. Len(queue'[x]) :
                  queue'[x][j] = queue'[x][i] => j = i
  <2>1. CASE x # p
    <3>1. queue'[x] = queue[x]
      BY <2>1 DEF TypeOK
    <3>2. /\ pc[queue[x][i]] = "wait"
          /\ NeedsToken(queue[x][i]) /\ Pool(queue[x][i]) = x
          /\ \A j \in 1 .. Len(queue[x]) : queue[x][j] = queue[x][i] => j = i
      BY <1>6, <3>1 DEF QueueInv
    <3>3. queue[x][i] \in Requests
      BY <1>1, <1>6, <3>1
    <3> QED
      BY <1>4, <1>5, <2>1, <3>1, <3>2, <3>3
  <2>2. CASE x = p
    <3>1. queue'[x] = Tail(queue[p])
      BY <2>2 DEF TypeOK
    <3>2. \A j \in 1 .. Len(queue'[x]) :
            /\ j \in Nat /\ j >= 1 /\ j + 1 \in 1 .. Len(queue[p])
            /\ queue'[x][j] = queue[p][j + 1]
      <4>1. Len(queue'[x]) = Len(queue[p]) - 1 /\ Len(queue[p]) \in Nat
        BY <1>2, <3>1
      <4>2. \A j \in 1 .. Len(queue'[x]) : queue'[x][j] = queue[p][j + 1]
        BY <1>2, <3>1
      <4> QED
        BY <4>1, <4>2
    <3>3. /\ i + 1 \in 1 .. Len(queue[p]) /\ i + 1 # 1
          /\ queue'[x][i] = queue[p][i + 1]
      BY <1>6, <3>2
    <3>4. /\ pc[queue[p][i + 1]] = "wait"
          /\ NeedsToken(queue[p][i + 1]) /\ Pool(queue[p][i + 1]) = p
          /\ \A j \in 1 .. Len(queue[p]) :
               queue[p][j] = queue[p][i + 1] => j = i + 1
      BY <3>3 DEF QueueInv
    <3>5. queue[p][i + 1] \in Requests /\ queue[p][i + 1] # next
      BY <1>1, <1>2, <1>5, <3>3, <3>4
    <3>6. \A j \in 1 .. Len(queue'[x]) : queue'[x][j] = queue'[x][i] => j = i
      BY <1>6, <3>2, <3>3, <3>4
    <3> QED
      BY <1>4, <2>2, <3>3, <3>4, <3>5, <3>6
  <2> QED
    BY <2>1, <2>2
<1> QED
  BY <1>6, QueueInvNext

-----------------------------------------------------------------------------
(* The tokens.                                                             *)

IInv == TypeOK /\ QueueInv /\ TokensConserved

(* Who moves within the handlers, or among those outside, moves no token.  *)
LEMMA TokensKept ==
  ASSUME TypeOK, QueueInv, TokensConserved,
         NEW r \in Requests, NEW step, Goto(r, step), UNCHANGED gate,
         pc[r] # "wait",
         ~NeedsToken(r) \/ (pc[r] \in Inside <=> step \in Inside)
  PROVE  QueueInv' /\ TokensConserved'
<1>1. QueueInv'
  BY StepKeepsQueue DEF gate
<1>2. \A p \in Pools : Holders(p)' = Holders(p)
  BY HoldersKept, FreeRequest
<1> QED
  BY <1>1, <1>2 DEF TokensConserved, gate, Limit

(* Every token is in its channel or with one request, however the requests *)
(* come, wait and end: the deferred sends of putHandle, putChunksHandle    *)
(* and the download handlers lose none and make none.                      *)
THEOREM Conserved == Spec => []TokensConserved
<1>1. Init => IInv
  <2> SUFFICES ASSUME Init
               PROVE  IInv
    OBVIOUS
  <2>1. \A p \in Pools : Holders(p) = {}
    BY DEF Init, Holders, Inside
  <2>2. TokensConserved
    <3>1. \A p \in Pools : Cardinality(Holders(p)) = 0
      BY <2>1, FS_EmptySet
    <3>2. \A p \in Pools : tokens[p] = Limit[p] /\ Limit[p] \in Nat
      BY LimitType DEF Init
    <3> QED
      BY <3>1, <3>2 DEF TokensConserved
  <2>3. QueueInv
    BY DEF Init, QueueInv
  <2> QED
    BY <2>2, <2>3, InitType DEF IInv
<1>2. IInv /\ [Next]_vars => IInv'
  <2> SUFFICES ASSUME IInv, [Next]_vars
               PROVE  IInv'
    OBVIOUS
  <2>t. TypeOK /\ QueueInv /\ TokensConserved /\ TypeOK'
    BY StepKeepsType DEF IInv
  <2>h. \A p \in Pools : /\ tokens[p] \in Nat /\ Limit[p] \in Nat
                         /\ Cardinality(Holders(p)) \in Nat
    BY <2>t, LimitType, HoldersFinite DEF TypeOK
  <2>1. ASSUME NEW r \in Requests, Arrive(r)
        PROVE  QueueInv' /\ TokensConserved'
    <3>1. /\ pc[r] = "idle" /\ "idle" \notin Inside /\ "wait" \notin Inside
          /\ FirstStep(r) \in Inside
      BY <2>1, RequestTypes DEF Arrive, At, Inside
    <3>2. CASE ~NeedsToken(r)
      BY <2>t, <2>1, <3>1, <3>2, TokensKept DEF Arrive
    <3>3. CASE NeedsToken(r) /\ tokens[Pool(r)] > 0
      <4>1. /\ Goto(r, FirstStep(r)) /\ UNCHANGED queue
            /\ tokens' = [tokens EXCEPT ![Pool(r)] = @ - 1]
        BY <2>1, <3>3 DEF Arrive
      <4>2. QueueInv'
        BY <2>t, <3>1, <4>1, StepKeepsQueue
      <4>3. \A p \in Pools :
              Cardinality(Holders(p)') =
                Cardinality(Holders(p)) + (IF Pool(r) = p THEN 1 ELSE 0)
        BY <2>t, <3>1, <3>3, <4>1, HolderAdded
      <4>4. \A p \in Pools :
              tokens'[p] = tokens[p] - (IF Pool(r) = p THEN 1 ELSE 0)
        BY <2>t, <2>h, <4>1 DEF TypeOK
      <4> QED
        BY <2>t, <2>h, <4>2, <4>3, <4>4 DEF TokensConserved, Limit
    <3>4. CASE NeedsToken(r) /\ ~(tokens[Pool(r)] > 0)
      <4>1. /\ Goto(r, "wait") /\ UNCHANGED tokens
            /\ queue' = [queue EXCEPT ![Pool(r)] = Append(@, r)]
        BY <2>1, <3>4 DEF Arrive
      <4>2. QueueInv'
        BY <2>t, <3>1, <3>4, <4>1, WaitKeepsQueue
      <4>3. \A p \in Pools : Holders(p)' = Holders(p)
        BY <2>t, <3>1, <4>1, HoldersKept
      <4> QED
        BY <2>t, <4>1, <4>2, <4>3 DEF TokensConserved, Limit
    <3> QED
      BY <3>2, <3>3, <3>4
  <2>2. ASSUME NEW r \in Requests, Leave(r)
        PROVE  QueueInv' /\ TokensConserved'
    <3>1. /\ pc[r] = "leave" /\ "leave" \in Inside /\ "done" \notin Inside
          /\ "wait" \notin Inside /\ Pool(r) \in Pools
      BY <2>2, RequestTypes DEF Leave, At, Inside
    <3>2. CASE ~NeedsToken(r)
      BY <2>t, <2>2, <3>1, <3>2, TokensKept DEF Leave
    <3>3. CASE NeedsToken(r) /\ queue[Pool(r)] = <<>>
      <4>1. /\ Goto(r, "done") /\ UNCHANGED queue
            /\ tokens' = [tokens EXCEPT ![Pool(r)] = @ + 1]
        BY <2>2, <3>3 DEF Leave
      <4>2. QueueInv'
        BY <2>t, <3>1, <4>1, StepKeepsQueue
      <4>3. \A p \in Pools :
              Cardinality(Holders(p)') =
                Cardinality(Holders(p)) - (IF Pool(r) = p THEN 1 ELSE 0)
        BY <2>t, <3>1, <3>3, <4>1, HolderRemoved
      <4>4. \A p \in Pools :
              tokens'[p] = tokens[p] + (IF Pool(r) = p THEN 1 ELSE 0)
        BY <2>t, <2>h, <4>1 DEF TypeOK
      <4> QED
        BY <2>t, <2>h, <4>2, <4>3, <4>4 DEF TokensConserved, Limit
    <3>4. CASE NeedsToken(r) /\ queue[Pool(r)] # <<>>
      <4> DEFINE next == Head(queue[Pool(r)])
      <4>1. /\ UNCHANGED tokens
            /\ queue' = [queue EXCEPT ![Pool(r)] = Tail(@)]
            /\ pc' = [pc EXCEPT ![r] = "done", ![next] = FirstStep(next)]
        BY <2>2, <3>4 DEF Leave
      <4>2. QueueInv'
        BY <2>t, <3>1, <3>4, <4>1, GrantKeepsQueue
      <4>3. /\ next \in Requests /\ next = queue[Pool(r)][1]
            /\ 1 \in 1 .. Len(queue[Pool(r)])
        BY <2>t, <3>1, <3>4, HeadTailProperties DEF TypeOK
      <4>4. pc[next] = "wait" /\ NeedsToken(next) /\ Pool(next) = Pool(r)
        BY <2>t, <3>1, <4>3 DEF QueueInv
      <4>5. FirstStep(next) \in Inside
        BY <4>3, RequestTypes DEF Inside
      <4> HIDE DEF next
      <4>6. \A p \in Pools : Cardinality(Holders(p)') = Cardinality(Holders(p))
        BY <2>t, <3>1, <3>4, <4>1, <4>3, <4>4, <4>5, HolderSwapped, ZenonT(40)
      <4> QED
        BY <2>t, <4>1, <4>2, <4>6 DEF TokensConserved, Limit
    <3> QED
      BY <3>2, <3>3, <3>4
  <2>3. ASSUME NEW r \in Requests,
               \/ Fetch(r) \/ Check(r) \/ CreateBucket(r) \/ EarlyReturn(r)
               \/ checkSapce(r) \/ PlaceOrder(r)
        PROVE  QueueInv' /\ TokensConserved'
    <3>1. PICK step \in Inside : Goto(r, step)
      BY <2>3 DEF Fetch, Check, CreateBucket, EarlyReturn, checkSapce,
                  PlaceOrder, Inside
    <3>2. pc[r] \in Inside /\ pc[r] # "wait" /\ UNCHANGED gate
      BY <2>3 DEF Fetch, Check, CreateBucket, EarlyReturn, checkSapce,
                  PlaceOrder, At, Inside
    <3> QED
      BY <2>t, <3>1, <3>2, TokensKept
  <2>4. ASSUME UNCHANGED pc, UNCHANGED gate
        PROVE  QueueInv' /\ TokensConserved'
    <3>1. QueueInv'
      BY <2>t, <2>4, QueueKept DEF gate
    <3>2. \A p \in Pools : Holders(p)' = Holders(p)
      BY <2>4 DEF Holders, NeedsToken, Pool
    <3> QED
      BY <2>t, <2>4, <3>1, <3>2 DEF TokensConserved, Limit, gate
  <2>5. ASSUME Crash
        PROVE  QueueInv' /\ TokensConserved'
    <3>1. QueueInv'
      BY <2>5 DEF Crash, QueueInv
    <3>2. \A p \in Pools : Holders(p)' = {}
      BY <2>5 DEF Crash, Holders, Inside
    <3>3. \A p \in Pools : Cardinality(Holders(p)') = 0
      BY <3>2, FS_EmptySet
    <3>4. \A p \in Pools : tokens'[p] = Limit[p] /\ Limit[p] \in Nat
      BY <2>5, LimitType DEF Crash
    <3>5. \A p \in Pools : tokens'[p] + Cardinality(Holders(p)') = Limit[p]
      BY <3>3, <3>4
    <3> QED
      BY <3>1, <3>5 DEF TokensConserved
  <2>6. ASSUME NEW r \in Requests, OrderAgain(r)
        PROVE  QueueInv' /\ TokensConserved'
    BY <2>4, <2>6 DEF OrderAgain
  <2>7. ASSUME NEW u \in Users, SpaceFreed(u)
        PROVE  QueueInv' /\ TokensConserved'
    BY <2>4, <2>7 DEF SpaceFreed
  <2>8. ASSUME refreshSelf \/ RpcLost \/ ReconnectRpc
        PROVE  QueueInv' /\ TokensConserved'
    BY <2>4, <2>8 DEF refreshSelf, RpcLost, ReconnectRpc
  <2>9. ASSUME UNCHANGED vars
        PROVE  QueueInv' /\ TokensConserved'
    BY <2>4, <2>9 DEF vars, gate
  <2> QED
    BY <2>t, <2>1, <2>2, <2>3, <2>5, <2>6, <2>7, <2>8, <2>9
       DEF IInv, Next, Handle
<1>3. IInv => TokensConserved
  BY DEF IInv
<1> QED
  BY <1>1, <1>2, <1>3, PTL DEF Spec

-----------------------------------------------------------------------------
(* The space.                                                              *)

(* What a request that has its order before it asked for, it has seen.     *)
Ordering(r) == At(r, "order") \/ r \in pending
AdmittedInv == \A r \in Requests : Ordering(r) => Asked(r) <= seen[r]

(* A request that comes to an order has asked for no more than it saw.     *)
LEMMA StepKeepsAdmitted ==
  ASSUME TypeOK, AdmittedInv, [Next]_vars
  PROVE  AdmittedInv'
<1> SUFFICES ASSUME NEW q \in Requests, Ordering(q)'
             PROVE  Asked(q) <= seen'[q]
  BY DEF AdmittedInv, Asked
<1>1. CASE checkSapce(q) /\ pc'[q] = "order"
  <2>1. "leave" # "order" /\ q \in DOMAIN pc /\ q \in DOMAIN seen
    BY DEF TypeOK
  <2> QED
    BY <1>1, <2>1 DEF checkSapce, Goto
<1>2. CASE ~(checkSapce(q) /\ pc'[q] = "order")
  <2>1. Ordering(q) /\ seen'[q] = seen[q]
    <3>1. ASSUME NEW r \in Requests, Arrive(r)
          PROVE  Ordering(q) /\ seen'[q] = seen[q]
      <4>1. FirstStep(r) \in {"check", "fetch"}
        BY RequestTypes
      <4>2. PICK step \in {"check", "fetch", "wait"} : Goto(r, step)
        BY <3>1, <4>1 DEF Arrive
      <4> QED
        BY <3>1, <4>2 DEF Arrive, Goto, TypeOK, space, Ordering, At
    <3>2. ASSUME NEW r \in Requests, Leave(r)
          PROVE  Ordering(q) /\ seen'[q] = seen[q]
      <4>1. CASE Goto(r, "done")
        BY <3>2, <4>1 DEF Leave, Goto, TypeOK, space, Ordering, At
      <4>2. CASE ~Goto(r, "done")
        <5> DEFINE next == Head(queue[Pool(r)])
        <5>1. /\ queue[Pool(r)] # <<>>
              /\ pc' = [pc EXCEPT ![r] = "done", ![next] = FirstStep(next)]
          BY <3>2, <4>2 DEF Leave
        <5>2. next \in Requests
          BY <5>1, RequestTypes, HeadTailProperties DEF TypeOK
        <5>3. FirstStep(next) \in {"check", "fetch"}
          BY <5>2, RequestTypes
        <5> HIDE DEF next
        <5> QED
          BY <3>2, <5>1, <5>2, <5>3 DEF Leave, TypeOK, space, Ordering, At
      <4> QED
        BY <4>1, <4>2
    <3>3. ASSUME NEW r \in Requests,
                 Fetch(r) \/ Check(r) \/ CreateBucket(r) \/ EarlyReturn(r)
          PROVE  Ordering(q) /\ seen'[q] = seen[q]
      <4>1. /\ UNCHANGED space
            /\ \E step \in {"space", "leave"} : Goto(r, step)
        BY <3>3 DEF Fetch, Check, CreateBucket, EarlyReturn
      <4> QED
        BY <4>1 DEF Goto, TypeOK, space, Ordering, At
    <3>4. ASSUME NEW r \in Requests, checkSapce(r)
          PROVE  Ordering(q) /\ seen'[q] = seen[q]
      <4>1. UNCHANGED pending /\ \E step \in {"order", "leave"} : Goto(r, step)
        BY <3>4 DEF checkSapce
      <4>2. CASE r # q
        BY <3>4, <4>1, <4>2 DEF checkSapce, Goto, TypeOK, Ordering, At
      <4>3. CASE r = q
        <5>1. pc'[q] # "order" /\ q \in DOMAIN pc
          BY <1>2, <3>4, <4>3 DEF TypeOK
        <5>2. seen' = seen \/ Goto(q, "order")
          BY <3>4, <4>3 DEF checkSapce
        <5> QED
          BY <4>1, <5>1, <5>2 DEF Ordering, At, Goto
      <4> QED
        BY <4>2, <4>3
    <3>5. ASSUME NEW r \in Requests, PlaceOrder(r) \/ OrderAgain(r)
          PROVE  Ordering(q) /\ seen'[q] = seen[q]
      <4>1. /\ UNCHANGED seen /\ pending' \subseteq pending \cup {r}
            /\ UNCHANGED pc \/ Goto(r, "leave")
        BY <3>5 DEF PlaceOrder, OrderAgain, Order
      <4>2. Ordering(r)
        BY <3>5 DEF PlaceOrder, OrderAgain, Ordering
      <4> QED
        BY <4>1, <4>2 DEF Goto, TypeOK, Ordering, At
    <3>6. ASSUME NEW u \in Users, SpaceFreed(u)
          PROVE  Ordering(q) /\ seen'[q] = seen[q]
      BY <3>6 DEF SpaceFreed, Ordering, At
    <3>7. CASE refreshSelf \/ RpcLost \/ ReconnectRpc
      BY <3>7 DEF refreshSelf, RpcLost, ReconnectRpc, space, Ordering, At
    <3>8. CASE Crash
      BY <3>8 DEF Crash, space, Ordering, At, TypeOK
    <3>9. CASE UNCHANGED vars
      BY <3>9 DEF vars, space, Ordering, At
    <3> QED
      BY <3>1, <3>2, <3>3, <3>4, <3>5, <3>6, <3>7, <3>8, <3>9
         DEF Next, Handle
  <2> QED
    BY <2>1 DEF AdmittedInv
<1> QED
  BY <1>1, <1>2

(* A whole upload of an even size asks for what its order takes.           *)
LEMMA WholePutAsksAll ==
  ASSUME NEW r \in Requests, WholePut(r)
  PROVE  Asked(r) = Taken(r)
<1>1. Size[r] \in Nat /\ Size[r] % 2 = 0 /\ r \notin Chunked
  BY RequestsAssumption DEF WholePut
<1>2. PICK k \in Nat : Size[r] = 2 * k
  BY <1>1
<1>3. Asked(r) = (30 * k) \div 10 /\ Taken(r) = ((2 * k + 1) \div 2) * 3
  BY <1>1, <1>2 DEF Asked, Taken, WholePut
<1>4. (30 * k) \div 10 = 3 * k /\ (2 * k + 1) \div 2 = k
  OBVIOUS
<1> QED
  BY <1>3, <1>4

(* Orders are refused by the orders' own steps.                            *)
LEMMA RefusedByOrder ==
  ASSUME TypeOK, [Next]_vars, NEW r \in refused' \ refused
  PROVE  /\ r \in Requests /\ Ordering(r)
         /\ Taken(r) > remaining[Account[r]]
<1>1. ASSUME NEW q \in Requests, Order(q)
      PROVE  r = q /\ Taken(q) > remaining[Account[q]]
  BY <1>1 DEF Order
<1>2. ASSUME UNCHANGED space
      PROVE  FALSE
  BY <1>2 DEF space
<1>3. CASE \E q \in Requests : PlaceOrder(q) \/ OrderAgain(q)
  <2>1. PICK q \in Requests : PlaceOrder(q) \/ OrderAgain(q)
    BY <1>3
  <2>2. Order(q) /\ Ordering(q)
    BY <2>1 DEF PlaceOrder, OrderAgain, Ordering
  <2> QED
    BY <1>1, <2>2
<1>4. CASE \E q \in Requests : checkSapce(q)
  BY <1>4 DEF checkSapce
<1>5. CASE \E u \in Users : SpaceFreed(u)
  BY <1>5 DEF SpaceFreed
<1>6. CASE \E q \in Requests :
             \/ Arrive(q) \/ Leave(q) \/ Fetch(q) \/ Check(q)
             \/ CreateBucket(q) \/ EarlyReturn(q)
  BY <1>2, <1>6 DEF Arrive, Leave, Fetch, Check, CreateBucket, EarlyReturn
<1>7. CASE refreshSelf \/ RpcLost \/ ReconnectRpc \/ Crash
  BY <1>2, <1>7 DEF refreshSelf, RpcLost, ReconnectRpc, Crash
<1>8. CASE UNCHANGED vars
  BY <1>2, <1>8 DEF vars
<1> QED
  BY <1>3, <1>4, <1>5, <1>6, <1>7, <1>8 DEF Next, Handle

(* The chain has no room for an order of an admitted PUT (whole segments,  *)
(* length announced) only after other orders of the account have taken     *)
(* space that checkSapce had seen, whichever calls have failed before.     *)
THEOREM OvertakenOnly == Spec => RefusedOnlyOvertaken
<1>1. Init => AdmittedInv
  BY DEF Init, AdmittedInv, Ordering, At
<1>2. TypeOK /\ AdmittedInv /\ [Next]_vars => AdmittedInv'
  BY StepKeepsAdmitted
<1>3. TypeOK /\ AdmittedInv /\ [Next]_vars =>
        [\A r \in refused' \ refused :
           WholePut(r) => remaining[Account[r]] < seen[r]]_vars
  <2> SUFFICES ASSUME TypeOK, AdmittedInv, [Next]_vars,
                      NEW r \in refused' \ refused, WholePut(r)
               PROVE  remaining[Account[r]] < seen[r]
    OBVIOUS
  <2>1. /\ r \in Requests /\ Ordering(r)
        /\ Taken(r) > remaining[Account[r]]
    BY RefusedByOrder
  <2>2. Asked(r) <= seen[r] /\ Asked(r) = Taken(r)
    BY <2>1, WholePutAsksAll DEF AdmittedInv
  <2>3. /\ remaining[Account[r]] \in Nat /\ seen[r] \in Nat
        /\ Taken(r) \in Nat
    BY <2>1, RequestTypes DEF TypeOK
  <2> QED
    BY <2>1, <2>2, <2>3
<1> QED
  BY <1>1, <1>2, <1>3, TypeCorrect, PTL DEF Spec, RefusedOnlyOvertaken
=============================================================================
