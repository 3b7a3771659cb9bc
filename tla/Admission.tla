------------------------------ MODULE Admission ------------------------------
(***************************************************************************)
(* What a request passes before it does anything: the tokens that bound    *)
(* the requests at work (max_concurrent_req_ch for uploads, shared by      *)
(* putHandle and putChunksHandle, and max_concurrent_get_ch for the three  *)
(* download handlers), the state of the gateway, the access list, and the  *)
(* space of the account.  The space is read on the chain long before the   *)
(* storage order takes it: what other uploads take in between is what the  *)
(* module is about.                                                        *)
(*                                                                         *)
(* Sizes are in half segments: an order takes three halves for each        *)
(* segment begun.                                                          *)
(***************************************************************************)
EXTENDS Integers, Sequences, FiniteSets

CONSTANTS
  Users, Requests,
  Account,     \* Account[r]: the account that sends r
  Puts,        \* the requests that are PUTs of a file,
  Chunked,     \* or uploads in one chunk; the others are downloads
  Exempt,      \* the two accounts whose PUTs take no token
  Length,      \* Length[r]: the length r announces, -1 when it does not; a
               \* PUT of length 0 creates a bucket
  Size,        \* Size[r]: the size of the file r uploads
  Space,       \* Space[u]: the space u has rented
  max_concurrent_req, max_concurrent_get,
  Access, Accounts,   \* of the configuration
  MaxFaults    \* bound on crashes, failed queries and lost connections

ASSUME RequestsAssumption ==
  /\ IsFiniteSet(Requests)
  /\ Puts \subseteq Requests /\ Chunked \subseteq Requests \ Puts
  /\ Account \in [Requests -> Users]
  /\ Length \in [Requests -> Nat \cup {-1}] /\ Size \in [Requests -> Nat]
ASSUME SpaceAssumption == Space \in [Users -> Nat]
ASSUME LimitsAssumption ==
  max_concurrent_req \in Nat \ {0} /\ max_concurrent_get \in Nat \ {0}
ASSUME FaultsAssumption == MaxFaults \in Nat

Pools == {"req", "get"}
Limit == [p \in Pools |-> IF p = "req" THEN max_concurrent_req
                                       ELSE max_concurrent_get]
Pool(r) == IF r \in Puts \cup Chunked THEN "req" ELSE "get"
NeedsToken(r) == ~(r \in Puts /\ Account[r] \in Exempt)

VARIABLES
  tokens,     \* tokens[p]: in the channel
  queue,      \* queue[p]: the requests blocked on the receive, in order
  pc,         \* pc[r]: the next step of r
  funded,     \* GetBalances() > 1: what refreshSelf() has last seen
  rpc,        \* GetRpcState()
  remaining,  \* remaining[u]: u's space on the chain
  seen,       \* history: seen[r]: the space r was admitted for
  pending,    \* answered 200 without an order: trackFile() tries again
  refused,    \* history: those of them the chain had no room for at last
  faults

gate == <<tokens, queue>>
status == <<funded, rpc>>
space == <<remaining, seen, pending, refused>>
vars == <<gate, pc, status, space, faults>>

Inside == {"check", "space", "order", "fetch", "leave"}

TypeOK ==
  /\ tokens \in [Pools -> Nat]
  /\ queue \in [Pools -> Seq(Requests)]
  /\ pc \in [Requests -> Inside \cup {"idle", "wait", "done"}]
  /\ funded \in BOOLEAN /\ rpc \in BOOLEAN
  /\ remaining \in [Users -> Nat] /\ seen \in [Requests -> Nat]
  /\ pending \subseteq Requests /\ refused \subseteq pending
  /\ faults \in 0 .. MaxFaults

(* init() fills the channels; nobody has asked for the balance yet.        *)
Init ==
  /\ tokens = Limit
  /\ queue = [p \in Pools |-> <<>>]
  /\ pc = [r \in Requests |-> "idle"]
  /\ funded = FALSE /\ rpc = TRUE
  /\ remaining = Space /\ seen = [r \in Requests |-> 0]
  /\ pending = {} /\ refused = {}
  /\ faults = 0

-----------------------------------------------------------------------------
At(r, step) == pc[r] = step
Goto(r, step) == pc' = [pc EXCEPT ![r] = step]
Fault == faults < MaxFaults /\ faults' = faults + 1
NoFault == UNCHANGED faults

FirstStep(r) ==
  IF r \in Puts \cup Chunked THEN "check" ELSE "fetch"

(* Mutant: the channel is asked without blocking.                          *)
ArriveAtOnce(r) ==
  /\ At(r, "idle")
  /\ Goto(r, FirstStep(r))
  /\ IF NeedsToken(r)
     THEN tokens' = [tokens EXCEPT ![Pool(r)] = @ - 1] /\ UNCHANGED queue
     ELSE UNCHANGED gate
  /\ UNCHANGED <<status, space, faults>>

(* The receive: a token, or the end of the queue.                          *)
Arrive(r) ==
  /\ At(r, "idle")
  /\ LET p == Pool(r)
     IN  IF ~NeedsToken(r)
         THEN Goto(r, FirstStep(r)) /\ UNCHANGED gate
         ELSE IF tokens[p] > 0
         THEN /\ tokens' = [tokens EXCEPT ![p] = @ - 1]
              /\ Goto(r, FirstStep(r)) /\ UNCHANGED queue
         ELSE /\ queue' = [queue EXCEPT ![p] = Append(@, r)]
              /\ Goto(r, "wait") /\ UNCHANGED tokens
  /\ UNCHANGED <<status, space, faults>>

(* Mutants of Leave: the token is not sent back on every return; or it is  *)
(* sent back by the requests, too, that have not taken one.                *)
LeaveUnlessRefused(r) ==
  /\ At(r, "leave")
  /\ LET p == Pool(r)
     IN  IF ~NeedsToken(r) \/ seen[r] = 0
         THEN Goto(r, "done") /\ UNCHANGED gate
         ELSE IF queue[p] = <<>>
         THEN /\ tokens' = [tokens EXCEPT ![p] = @ + 1]
              /\ Goto(r, "done") /\ UNCHANGED queue
         ELSE LET next == Head(queue[p])
              IN  /\ queue' = [queue EXCEPT ![p] = Tail(@)]
                  /\ pc' = [pc EXCEPT ![r] = "done",
                                      ![next] = FirstStep(next)]
                  /\ UNCHANGED tokens
  /\ UNCHANGED <<status, space, faults>>

LeaveAlways(r) ==
  /\ At(r, "leave") /\ queue[Pool(r)] = <<>>
  /\ tokens' = [tokens EXCEPT ![Pool(r)] = @ + 1]
  /\ Goto(r, "done")
  /\ UNCHANGED <<queue, status, space, faults>>

(* The deferred send, on every return: the longest waiting goes in.        *)
Leave(r) ==
  /\ At(r, "leave")
  /\ LET p == Pool(r)
     IN  IF ~NeedsToken(r)
         THEN Goto(r, "done") /\ UNCHANGED gate
         ELSE IF queue[p] = <<>>
         THEN /\ tokens' = [tokens EXCEPT ![p] = @ + 1]
              /\ Goto(r, "done") /\ UNCHANGED queue
         ELSE LET next == Head(queue[p])
              IN  /\ queue' = [queue EXCEPT ![p] = Tail(@)]
                  /\ pc' = [pc EXCEPT ![r] = "done",
                                      ![next] = FirstStep(next)]
                  /\ UNCHANGED tokens
  /\ UNCHANGED <<status, space, faults>>

Fetch(r) ==
  /\ At(r, "fetch")
  /\ Goto(r, "leave")
  /\ UNCHANGED <<gate, status, space, faults>>

checkDeOSSStatus == funded /\ rpc

AccessControl(u) ==
  \/ Access = "public" /\ u \notin Accounts
  \/ Access = "private" /\ u \in Accounts

(* The state of the gateway, then the account.                             *)
Check(r) ==
  /\ At(r, "check")
  /\ Goto(r, IF checkDeOSSStatus /\ AccessControl(Account[r])
             THEN "space" ELSE "leave")
  /\ UNCHANGED <<gate, status, space, faults>>

(* Mutant: PUT, too, asks for the bare size.                               *)
AskedBare(r) == IF r \in Chunked THEN Size[r] ELSE Length[r]

(* What the check asks for: neither handler rounds up to whole segments,   *)
(* and an upload in chunks does not count the redundancy.                  *)
Asked(r) == IF r \in Chunked THEN Size[r] ELSE (Length[r] * 15) \div 10

(* What the chain takes for the order.                                     *)
Taken(r) == ((Size[r] + 1) \div 2) * 3

(* A PUT without a body ends with the creation of its bucket.              *)
NoBody(r) == r \in Puts /\ Length[r] = 0

CreateBucket(r) ==
  /\ At(r, "space") /\ NoBody(r)
  /\ Goto(r, "leave")
  /\ UNCHANGED <<gate, status, space, faults>>

(* checkSapce: one query, or its failure.                                  *)
checkSapce(r) ==
  /\ At(r, "space") /\ ~NoBody(r)
  /\ \/ /\ Asked(r) <= remaining[Account[r]] /\ Goto(r, "order")
        /\ seen' = [seen EXCEPT ![r] = remaining[Account[r]]] /\ NoFault
     \/ /\ Asked(r) > remaining[Account[r]] /\ Goto(r, "leave")
        /\ UNCHANGED seen /\ NoFault
     \/ Goto(r, "leave") /\ UNCHANGED seen /\ Fault
  /\ UNCHANGED <<gate, status, remaining, pending, refused>>

(* The other returns before the order: the gateway is not authorised, it   *)
(* has no memory or disk left, the body does not arrive whole, the file is *)
(* known already, a step of fileProcess fails.                             *)
EarlyReturn(r) ==
  /\ pc[r] \in {"space", "order"}
  /\ Goto(r, "leave")
  /\ UNCHANGED <<gate, status, space, faults>>

(* GenerateStorageOrder: the chain takes the space, whether or not its     *)
(* result arrives, or has no room; or the order does not get there.        *)
Order(r) ==
  LET u == Account[r]
  IN  \/ /\ Taken(r) <= remaining[u]
         /\ remaining' = [remaining EXCEPT ![u] = @ - Taken(r)]
         /\ pending' = pending \ {r} /\ refused' = refused \ {r} /\ NoFault
      \/ /\ Taken(r) > remaining[u] /\ UNCHANGED remaining
         /\ pending' = pending \cup {r} /\ refused' = refused \cup {r}
         /\ NoFault
      \/ /\ pending' = pending \cup {r} /\ refused' = refused \ {r}
         /\ UNCHANGED remaining /\ Fault

(* The file is received, processed and recorded, and the order placed; the *)
(* answer is 200 whatever comes of it.                                     *)
PlaceOrder(r) ==
  /\ At(r, "order")
  /\ Order(r)
  /\ Goto(r, "leave")
  /\ UNCHANGED <<gate, status, seen>>

(* trackFile() finds a record without an order and places it again.        *)
OrderAgain(r) ==
  /\ r \in pending
  /\ Order(r)
  /\ UNCHANGED <<gate, pc, status, seen>>

(* A file of u is deleted: its space is free again.                        *)
SpaceFreed(u) ==
  /\ remaining[u] < Space[u]
  /\ remaining' = [remaining EXCEPT ![u] = Space[u]]
  /\ UNCHANGED <<gate, pc, status, seen, pending, refused>> /\ Fault

(* TaskMgt: refreshSelf() every 57 seconds reads what the gateway's own    *)
(* account holds; ReconnectRpc() every 6 when the connection is lost.      *)
refreshSelf ==
  /\ funded' \in BOOLEAN
  /\ UNCHANGED <<gate, pc, rpc, space, faults>>

RpcLost ==
  /\ rpc /\ rpc' = FALSE /\ Fault
  /\ UNCHANGED <<gate, pc, funded, space>>

ReconnectRpc ==
  /\ rpc' = TRUE
  /\ UNCHANGED <<gate, pc, funded, space, faults>>

(* The process dies with its requests and starts with full channels.       *)
Crash ==
  /\ Fault
  /\ tokens' = Limit /\ queue' = [p \in Pools |-> <<>>]
  /\ pc' = [r \in Requests |-> IF pc[r] = "idle" THEN "idle" ELSE "done"]
  /\ funded' = FALSE /\ rpc' = TRUE
  /\ UNCHANGED space

Handle(r) ==
  \/ Leave(r) \/ Fetch(r) \/ Check(r) \/ CreateBucket(r) \/ checkSapce(r)
  \/ EarlyReturn(r) \/ PlaceOrder(r)

Next ==
  \/ \E r \in Requests : Arrive(r) \/ Handle(r) \/ OrderAgain(r)
  \/ \E u \in Users : SpaceFreed(u)
  \/ refreshSelf \/ RpcLost \/ ReconnectRpc \/ Crash

Spec == Init /\ [][Next]_vars

(* A handler that can go on does; a request need not arrive.               *)
FairSpec == Spec /\ \A r \in Requests : WF_vars(Handle(r))

-----------------------------------------------------------------------------
(* Properties                                                              *)

(* The requests that hold a token of p.                                    *)
Holders(p) ==
  {r \in Requests : pc[r] \in Inside /\ NeedsToken(r) /\ Pool(r) = p}

(* Every token is in its channel or with one request: no return loses one, *)
(* and never do more requests work than the channel has room for.          *)
TokensConserved ==
  \A p \in Pools : tokens[p] + Cardinality(Holders(p)) = Limit[p]

(* The strengthening that makes it inductive: who waits, waits once, in    *)
(* the queue of its own pool, and has no token.                            *)
QueueInv ==
  \A p \in Pools : \A i \in 1 .. Len(queue[p]) :
    LET r == queue[p][i]
    IN  /\ pc[r] = "wait" /\ NeedsToken(r) /\ Pool(r) = p
        /\ \A j \in 1 .. Len(queue[p]) : queue[p][j] = r => j = i

(* A request that waits for a token gets one: there is no answer for it    *)
(* otherwise, since the receive never fails and has no timeout.            *)
EveryoneServed == \A r \in Requests : At(r, "wait") ~> At(r, "done")

(* An order of an admitted PUT of whole segments that announced its length *)
(* is refused for lack of room, at once or when trackFile() repeats it,    *)
(* only if other orders have taken space that its check had seen.          *)
WholePut(r) == r \in Puts /\ Length[r] = Size[r] /\ Size[r] % 2 = 0

RefusedOnlyOvertaken ==
  [][\A r \in refused' \ refused :
        WholePut(r) => remaining[Account[r]] < seen[r]]_vars
=============================================================================
