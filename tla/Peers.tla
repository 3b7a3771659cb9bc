-------------------------------- MODULE Peers --------------------------------
(***************************************************************************)
(* What the gateway knows of the storage miners: storagePeers, the miners  *)
(* with room for a fragment, which two tasks read from the chain side by   *)
(* side (refreshMiner, which TaskMgt starts again now and then, and        *)
(* sdkMgt, once a minute), and the PeerRecord, the miners that have        *)
(* announced their addresses.  A task asks the chain for the list, then    *)
(* for each miner, and applies the answer after the chain may have moved   *)
(* on and the other task has applied its own.                              *)
(***************************************************************************)
EXTENDS Naturals, FiniteSets

CONSTANTS
  Miners,
  MaxChanges,  \* bound on what the miners and the operator change
  MaxFaults    \* bound on failed queries, lost answers and crashes

ASSUME PeersAssumption ==
  MaxChanges \in Nat /\ MaxFaults \in Nat /\ "nobody" \notin Miners

Tasks == {"refreshMiner", "sdkMgt"}

VARIABLES
  miner,         \* miner[m] on the chain: "none", "full" or "idle"
  changes,
  storagePeers,
  peerList,
  task,          \* task[t]: the task's next step
  todo,          \* todo[t]: the miners of the list it has not come to
  minerinfo,     \* minerinfo[t]: the answer it is about to apply
  faults

chain == <<miner, changes>>
known == <<storagePeers, peerList>>
tasks == <<task, todo, minerinfo>>

NoAnswer == [of |-> "nobody", idle |-> FALSE]
Answers == [of : Miners, idle : BOOLEAN] \cup {NoAnswer}

PeersTypeOK ==
  /\ miner \in [Miners -> {"none", "full", "idle"}]
  /\ changes \in 0 .. MaxChanges
  /\ storagePeers \subseteq Miners /\ peerList \subseteq Miners
  /\ task \in [Tasks -> {"off", "list", "items", "apply", "ended"}]
  /\ todo \in [Tasks -> SUBSET Miners]
  /\ minerinfo \in [Tasks -> Answers]
  /\ \A t \in Tasks : task[t] = "apply" => minerinfo[t].of \in Miners
  /\ faults \in 0 .. MaxFaults

Fault == faults < MaxFaults /\ faults' = faults + 1
Change == changes < MaxChanges /\ changes' = changes + 1

TasksAt(step) ==
  /\ task' = [t \in Tasks |-> step]
  /\ todo' = [t \in Tasks |-> {}]
  /\ minerinfo' = [t \in Tasks |-> NoAnswer]

PeersInit ==
  /\ miner = [m \in Miners |-> "none"] /\ changes = 0
  /\ storagePeers = {} /\ peerList = {}
  /\ task = [t \in Tasks |-> "off"]
  /\ todo = [t \in Tasks |-> {}]
  /\ minerinfo = [t \in Tasks |-> NoAnswer]
  /\ faults = 0

-----------------------------------------------------------------------------
(* A miner registers, fills up, makes room or leaves.                      *)
MinerChanges(m, s) ==
  /\ s # miner[m] /\ Change
  /\ miner' = [miner EXCEPT ![m] = s]
  /\ UNCHANGED <<known, tasks, faults>>

(* TaskMgt starts the two tasks; a dead process has none and knows nobody. *)
TaskMgtStarts == TasksAt("list") /\ UNCHANGED known
ForgetPeers == TasksAt("off") /\ storagePeers' = {} /\ peerList' = {}

(* After the last miner of the list refreshMiner sends its token, and      *)
(* sdkMgt waits for the next minute.                                       *)
RoundEnd(t) == IF t = "refreshMiner" THEN "ended" ELSE "list"
NextItem(t, rest) == IF rest = {} THEN RoundEnd(t) ELSE "items"

(* Mutant: sdkMgt returns, too, when it cannot have the list.              *)
QueryAllMinerReturns(t) ==
  /\ task[t] = "list"
  /\ \/ LET list == {m \in Miners : miner[m] # "none"}
        IN  /\ todo' = [todo EXCEPT ![t] = list]
            /\ task' = [task EXCEPT ![t] = NextItem(t, list)]
            /\ UNCHANGED faults
     \/ task' = [task EXCEPT ![t] = "ended"] /\ UNCHANGED todo /\ Fault
  /\ UNCHANGED <<chain, known, minerinfo>>

QueryAllMiner(t) ==
  /\ task[t] = "list"
  /\ \/ LET list == {m \in Miners : miner[m] # "none"}
        IN  /\ todo' = [todo EXCEPT ![t] = list]
            /\ task' = [task EXCEPT ![t] = NextItem(t, list)]
            /\ UNCHANGED faults
     \/ task' = [task EXCEPT ![t] = RoundEnd(t)] /\ UNCHANGED todo /\ Fault
  /\ UNCHANGED <<chain, known, minerinfo>>

(* Mutant: the error of the query is dropped.                              *)
QueryMinerItemsUnchecked(t) ==
  /\ task[t] = "items"
  /\ \E m \in todo[t] :
       /\ todo' = [todo EXCEPT ![t] = @ \ {m}]
       /\ minerinfo' = [minerinfo EXCEPT ![t] =
                          IF miner[m] = "none" THEN NoAnswer
                          ELSE [of |-> m, idle |-> miner[m] = "idle"]]
       /\ task' = [task EXCEPT ![t] = "apply"]
  /\ UNCHANGED <<chain, known, faults>>

(* A miner that has left since, or a failed query: the next one.           *)
QueryMinerItems(t) ==
  /\ task[t] = "items"
  /\ \E m \in todo[t] :
       LET rest == todo[t] \ {m}
           skip == /\ task' = [task EXCEPT ![t] = NextItem(t, rest)]
                   /\ UNCHANGED minerinfo
       IN  /\ todo' = [todo EXCEPT ![t] = rest]
           /\ \/ /\ miner[m] # "none"
                 /\ minerinfo' = [minerinfo EXCEPT ![t] =
                                    [of |-> m, idle |-> miner[m] = "idle"]]
                 /\ task' = [task EXCEPT ![t] = "apply"] /\ UNCHANGED faults
              \/ miner[m] = "none" /\ skip /\ UNCHANGED faults
              \/ skip /\ Fault
  /\ UNCHANGED <<chain, known>>

(* SaveStoragePeer() or DeleteStoragePeer().                               *)
ApplyItems(t) ==
  /\ task[t] = "apply"
  /\ storagePeers' = IF minerinfo[t].idle
                     THEN storagePeers \cup {minerinfo[t].of}
                     ELSE storagePeers \ {minerinfo[t].of}
  /\ minerinfo' = [minerinfo EXCEPT ![t] = NoAnswer]
  /\ task' = [task EXCEPT ![t] = NextItem(t, todo[t])]
  /\ UNCHANGED <<chain, todo, peerList, faults>>

TaskStep(t) == QueryAllMiner(t) \/ QueryMinerItems(t) \/ ApplyItems(t)

(* TaskMgt has the token, in an hour that five divides.                    *)
RestartRefreshMiner ==
  /\ task["refreshMiner"] = "ended"
  /\ task' = [task EXCEPT !["refreshMiner"] = "list"]
  /\ UNCHANGED <<chain, known, todo, minerinfo, faults>>

SavePeer(m) == peerList' = peerList \cup {m}
HasStoragePeer(m) == m \in storagePeers

-----------------------------------------------------------------------------
(* Whether the gateway is right about m, as long as m is listed at all.    *)
RightAbout(m) == miner[m] # "none" => (HasStoragePeer(m) <=> miner[m] = "idle")
=============================================================================
