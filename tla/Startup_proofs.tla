---------------------------- MODULE Startup_proofs ----------------------------
(***************************************************************************)
(* Proofs about Startup, for any number of miners, failed queries, lost    *)
(* answers, crashes and exits: no start loses a record it must keep, the   *)
(* chain knows the gateway that runs, and a nil selector is used only      *)
(* where its initialisation had failed.                                    *)
(***************************************************************************)
EXTENDS Startup, TLAPS

Late == {"rebuild", "dirs", "selector", "stores", "run"}

(* Whoever is not running has no storage peers and no task; whoever runs   *)
(* has been past InitNodeSelector().                                       *)
SelectorInv ==
  /\ phase # "run" =>
       /\ storagePeers = {}
       /\ \A t \in Tasks : task[t] = "off"
  /\ phase = "run" => selector # "nil"
  /\ phase = "stores" => selector # "nil"
  /\ selector \in {"nil", "failed", "ready"}
  /\ NilOnlyIfFailed

(* What the process has of the chain is what the chain has: nobody else    *)
(* registers this account or updates it.                                   *)
AnnouncedInv ==
  /\ phase = "announce" => ossinfo = info
  /\ phase \in Late /\ registered => info = Own

(* Who is about to rebuild has just registered.                            *)
RecordsInv ==
  /\ owned => registered
  /\ phase = "announce" /\ registerFlag => ~registered
  /\ phase = "rebuild" => ~owned

-----------------------------------------------------------------------------
(* Every step of the process, the chain and the peers keeps it.           *)
LEMMA SelectorStep == SelectorInv /\ [Next]_vars => SelectorInv'
<1> SUFFICES ASSUME SelectorInv, [Next]_vars
             PROVE  SelectorInv'
  OBVIOUS
<1> USE DEF SelectorInv, NilOnlyIfFailed
<1>1. CASE Dead /\ UNCHANGED panics
  <2>1. phase' = "off" /\ selector' = "nil" /\ storagePeers' = {}
    BY <1>1 DEF Dead, ForgetPeers
  <2>2. \A t \in Tasks : task'[t] = "off"
    BY <1>1 DEF Dead, ForgetPeers, TasksAt
  <2> QED
    BY <1>1, <2>1, <2>2
<1>2. ASSUME NEW p, p # "run", p # "stores", phase # "run", StepTo(p),
             UNCHANGED panics
      PROVE  SelectorInv'
  BY <1>2 DEF StepTo, peers, known, tasks
<1>3. CASE Start \/ QueryOss \/ KeyLost
  BY <1>3 DEF Start, StartFile, StartFlags, QueryOss, KeyLost, history, peers,
              known, tasks
<1>4. CASE RegisterOss
  BY <1>1, <1>2, <1>4 DEF RegisterOss, history
<1>5. CASE RebuildDirs \/ buildDir
  BY <1>2, <1>5 DEF RebuildDirs, buildDir, history
<1>6. CASE UpdateOss
  BY <1>1, <1>2, <1>6 DEF UpdateOss, history
<1>7. CASE InitNodeSelector
  BY <1>7 DEF InitNodeSelector, history, peers, known, tasks
<1>8. CASE Run
  BY <1>8 DEF Run, history, TaskMgtStarts, known
<1>9. ASSUME NilSelector, selector = "failed"
      PROVE  SelectorInv'
  <2>1. phase' = "off" /\ selector' = "nil" /\ storagePeers' = {}
    BY <1>9 DEF NilSelector, Dead, ForgetPeers
  <2>2. \A t \in Tasks : task'[t] = "off"
    BY <1>9 DEF NilSelector, Dead, ForgetPeers, TasksAt
  <2>3. panics' \subseteq {"failed"}
    BY <1>9 DEF NilSelector
  <2> QED
    BY <2>1, <2>2, <2>3
<1>10. ASSUME NEW m \in Miners, FoundPeer(m)
       PROVE  SelectorInv'
  <2>1. CASE HasStoragePeer(m) /\ selector # "ready"
    <3>1. selector = "failed"
      BY <2>1 DEF HasStoragePeer
    <3> QED
      BY <1>9, <1>10, <2>1, <3>1 DEF FoundPeer
  <2>2. CASE ~(HasStoragePeer(m) /\ selector # "ready")
    BY <1>10, <2>2 DEF FoundPeer, own, starting, history, tasks
  <2> QED
    BY <2>1, <2>2
<1>11. CASE Upload
  BY <1>11 DEF Upload, starting, history, peers, known, tasks
<1>12. CASE Track
  <2>1. CASE NilSelector /\ selector # "ready"
    BY <1>9, <1>12, <2>1 DEF Track
  <2>2. CASE UNCHANGED <<starting, history, peers>>
    BY <2>2 DEF starting, history, peers, known, tasks
  <2> QED
    BY <1>12, <2>1, <2>2 DEF Track
<1>13. CASE Exit
  BY <1>13 DEF Exit, starting, peers, known, tasks
<1>14. CASE Crash
  BY <1>1, <1>14 DEF Crash, history
<1>15. CASE PeerStep
  <2>1. UNCHANGED <<phase, selector, panics>>
    BY <1>15 DEF PeerStep, own, starting, history
  <2>2. ASSUME NEW m \in Miners, NEW s, MinerChanges(m, s)
        PROVE  SelectorInv'
    BY <2>1, <2>2 DEF MinerChanges, known, tasks
  <2>3. ASSUME NEW t \in Tasks, TaskStep(t)
        PROVE  SelectorInv'
    <3>1. phase = "run"
      BY <2>3 DEF TaskStep, QueryAllMiner, QueryMinerItems, ApplyItems
    <3> QED
      BY <2>1, <3>1
  <2>4. CASE RestartRefreshMiner
    <3>1. phase = "run"
      BY <2>4 DEF RestartRefreshMiner, Tasks
    <3> QED
      BY <2>1, <3>1
  <2> QED
    BY <1>15, <2>2, <2>3, <2>4 DEF PeerStep
<1>16. CASE UNCHANGED vars
  BY <1>16 DEF vars, own, starting, history, known, tasks
<1> QED
  BY <1>3, <1>4, <1>5, <1>6, <1>7, <1>8, <1>10, <1>11, <1>12, <1>13, <1>14,
     <1>15, <1>16 DEF Next, StartStep

(* A nil selector is used only after a failed InitNodeSelector(): what     *)
(* Subscribe() finds during the start is nobody the gateway would flush.   *)
THEOREM NilUse == Spec => []NilOnlyIfFailed
<1>1. Init => SelectorInv
  BY DEF Init, PeersInit, SelectorInv, NilOnlyIfFailed
<1>2. SelectorInv => NilOnlyIfFailed
  BY DEF SelectorInv
<1> QED
  BY <1>1, <1>2, SelectorStep, PTL DEF Spec

-----------------------------------------------------------------------------
(* The other two invariants speak of the start and the chain only.         *)
StartState ==
  <<phase, key, domain, registerFlag, ossinfo, registered, info, record, owned>>

(* What a step can do to them: a step of the start, an upload, an exit, a  *)
(* record that is done with, the end of the process, or nothing.           *)
LEMMA OtherSteps ==
  ASSUME [Next]_vars
  PROVE  \/ StartFile \/ StartFlags \/ KeyLost \/ QueryOss \/ RegisterOss
         \/ RebuildDirs \/ UpdateOss \/ buildDir \/ InitNodeSelector \/ Run
         \/ Upload \/ Exit
         \/ phase = "run" /\ record' = FALSE /\ owned' = FALSE
            /\ UNCHANGED <<starting, oss>>
         \/ Dead /\ UNCHANGED <<key, oss, disk>>
         \/ UNCHANGED StartState
<1>1. ASSUME NEW m \in Miners, FoundPeer(m)
      PROVE  UNCHANGED StartState \/ (Dead /\ UNCHANGED <<key, oss, disk>>)
  BY <1>1
     DEF FoundPeer, NilSelector, own, starting, oss, disk, StartState
<1>2. CASE Track
  BY <1>2 DEF Track, NilSelector
<1>3. CASE Crash
  BY <1>3 DEF Crash
<1>4. CASE PeerStep
  BY <1>4 DEF PeerStep, own, starting, oss, disk, StartState
<1>5. CASE UNCHANGED vars
  BY <1>5 DEF vars, own, starting, oss, disk, StartState
<1> QED
  BY <1>1, <1>2, <1>3, <1>4, <1>5 DEF Next, Start, StartStep

(* A start that dies half way is followed by one that compares again.      *)
LEMMA AnnouncedStep == AnnouncedInv /\ [Next]_vars => AnnouncedInv'
<1> SUFFICES ASSUME AnnouncedInv, [Next]_vars
             PROVE  AnnouncedInv'
  OBVIOUS
<1> USE DEF AnnouncedInv, Late, Own
<1>1. CASE Dead
  BY <1>1 DEF Dead
<1>2. ASSUME NEW p \in Late, StepTo(p), UNCHANGED <<info, registered>>,
             registered => info = Own
      PROVE  AnnouncedInv'
  BY <1>2 DEF StepTo, StartingKept
<1>3. CASE StartFile \/ StartFlags \/ KeyLost
  BY <1>3 DEF StartFile, StartFlags, KeyLost, oss
<1>4. CASE QueryOss
  BY <1>4 DEF QueryOss, oss
<1>5. CASE RegisterOss
  BY <1>1, <1>5 DEF RegisterOss, StepTo, StartingKept
<1>6. CASE RebuildDirs \/ buildDir
  BY <1>2, <1>6 DEF RebuildDirs, buildDir, oss
<1>7. CASE UpdateOss
  BY <1>1, <1>7 DEF UpdateOss, StepTo, StartingKept, oss
<1>8. CASE InitNodeSelector \/ Run
  BY <1>8 DEF InitNodeSelector, Run, StartingKept, oss
<1>9. CASE Upload \/ Exit
  BY <1>9 DEF Upload, Exit, starting, oss
<1>10. CASE phase = "run" /\ UNCHANGED <<starting, oss>>
  BY <1>10 DEF starting, oss
<1>11. CASE UNCHANGED StartState
  BY <1>11 DEF StartState
<1> QED
  BY <1>1, <1>3, <1>4, <1>5, <1>6, <1>7, <1>8, <1>9, <1>10, <1>11, OtherSteps

(* The chain has the peer id and the domain of the gateway that runs.      *)
THEOREM Announced == Spec => []RunsAnnounced
<1>1. Init => AnnouncedInv
  BY DEF Init, AnnouncedInv, Late
<1>2. AnnouncedInv => RunsAnnounced
  BY DEF AnnouncedInv, RunsAnnounced, Late
<1> QED
  BY <1>1, <1>2, AnnouncedStep, PTL DEF Spec

(* Only a registration leads to RebuildDirs(), and it owns no record yet.  *)
LEMMA RecordsStep == RecordsInv /\ [Next]_vars => RecordsInv'
<1> SUFFICES ASSUME RecordsInv, [Next]_vars
             PROVE  RecordsInv'
  OBVIOUS
<1> USE DEF RecordsInv
<1>1. CASE Dead /\ UNCHANGED disk /\ (owned => registered')
  BY <1>1 DEF Dead, disk
<1>2. CASE StartFile \/ StartFlags \/ KeyLost
  BY <1>2 DEF StartFile, StartFlags, KeyLost, oss, disk
<1>3. CASE QueryOss
  BY <1>3 DEF QueryOss, oss, disk
<1>4. CASE RegisterOss
  BY <1>1, <1>4 DEF RegisterOss, StepTo, oss, disk
<1>5. CASE RebuildDirs \/ buildDir
  BY <1>5 DEF RebuildDirs, buildDir, StepTo, oss, disk
<1>6. CASE UpdateOss
  BY <1>1, <1>6 DEF UpdateOss, StepTo, oss, disk
<1>7. CASE InitNodeSelector \/ Run
  BY <1>7 DEF InitNodeSelector, Run, oss, disk
<1>8. CASE Upload \/ Exit
  BY <1>8 DEF Upload, Exit, starting, oss
<1>9. CASE phase = "run" /\ owned' = FALSE /\ UNCHANGED <<starting, oss>>
  BY <1>9 DEF starting, oss
<1>10. CASE Dead /\ UNCHANGED <<key, oss, disk>>
  BY <1>1, <1>10 DEF oss
<1>11. CASE UNCHANGED StartState
  BY <1>11 DEF StartState
<1> QED
  BY <1>2, <1>3, <1>4, <1>5, <1>6, <1>7, <1>8, <1>9, <1>10, <1>11, OtherSteps

(* No start loses the record of an upload that was acknowledged since the  *)
(* gateway was registered, unless it has been unregistered by command.     *)
THEOREM Survive == Spec => RecordsSurvive
<1>1. Init => RecordsInv
  BY DEF Init, RecordsInv
<1>2. RecordsInv /\ [Next]_vars =>
        [record /\ ~record' /\ phase # "run" => ~owned]_vars
  <2> SUFFICES ASSUME RecordsInv, Next, record, ~record', phase # "run"
               PROVE  ~owned
    OBVIOUS
  <2>1. CASE RebuildDirs
    BY <2>1 DEF RebuildDirs, RecordsInv
  <2>2. CASE ~RebuildDirs
    <3>1. ~UNCHANGED record
      OBVIOUS
    <3> QED
      BY <2>2, <3>1, OtherSteps
         DEF StartFile, StartFlags, KeyLost, QueryOss, RegisterOss, UpdateOss,
             buildDir, InitNodeSelector, Run, Upload, Exit, disk, StartState
  <2> QED
    BY <2>1, <2>2
<1> QED
  BY <1>1, <1>2, RecordsStep, PTL DEF Spec, RecordsSurvive

-----------------------------------------------------------------------------
(* Each key file that was lost is one of the bounded changes.              *)
TypeInv == TypeOK /\ key \in 0 .. changes

(* A fault or none, a change or none: the counters stay within bounds.     *)
LEMMA CounterTypes ==
  ASSUME PeersTypeOK
  PROVE  /\ Fault \/ UNCHANGED faults => faults' \in 0 .. MaxFaults
         /\ Change => changes' \in 0 .. MaxChanges /\ changes' = changes + 1
  BY PeersAssumption DEF PeersTypeOK, Fault, Change

(* Where the tasks of a new or a dead process begin.                       *)
LEMMA TasksAtTypes ==
  ASSUME NEW step \in {"off", "list"}, TasksAt(step)
  PROVE  /\ task' \in [Tasks -> {"off", "list", "items", "apply", "ended"}]
         /\ todo' \in [Tasks -> SUBSET Miners]
         /\ minerinfo' \in [Tasks -> Answers]
         /\ \A t \in Tasks : task'[t] # "apply"
  BY DEF TasksAt, Answers

(* A task keeps to the miners of the list, and applies only answers about  *)
(* one of them.                                                            *)
LEMMA TaskTypes ==
  ASSUME PeersTypeOK, NEW t \in Tasks, TaskStep(t)
  PROVE  PeersTypeOK'
<1> USE DEF PeersTypeOK, chain, known
<1>1. \A rest : NextItem(t, rest) \in {"ended", "list", "items"}
  BY DEF NextItem, RoundEnd
<1>2. RoundEnd(t) \in {"ended", "list"}
  BY DEF RoundEnd
<1>3. CASE QueryAllMiner(t)
  <2>1. faults' \in 0 .. MaxFaults
    BY <1>3, CounterTypes DEF QueryAllMiner
  <2>2. UNCHANGED <<miner, changes, storagePeers, peerList, minerinfo>>
    BY <1>3 DEF QueryAllMiner
  <2>3. todo' \in [Tasks -> SUBSET Miners]
    <3>1. {m \in Miners : miner[m] # "none"} \in SUBSET Miners
      OBVIOUS
    <3> QED
      BY <1>3, <3>1 DEF QueryAllMiner
  <2>4. PICK step \in {"ended", "list", "items"} :
          task' = [task EXCEPT ![t] = step]
    BY <1>1, <1>2, <1>3 DEF QueryAllMiner
  <2> QED
    BY <2>1, <2>2, <2>3, <2>4
<1>4. CASE QueryMinerItems(t)
  <2>1. PICK m \in todo[t] :
          /\ todo' = [todo EXCEPT ![t] = todo[t] \ {m}]
          /\ \/ /\ minerinfo' = [minerinfo EXCEPT ![t] =
                                   [of |-> m, idle |-> miner[m] = "idle"]]
                /\ task' = [task EXCEPT ![t] = "apply"]
                /\ UNCHANGED faults
             \/ /\ task' = [task EXCEPT ![t] = NextItem(t, todo[t] \ {m})]
                /\ UNCHANGED minerinfo
                /\ Fault \/ UNCHANGED faults
    BY <1>4 DEF QueryMinerItems
  <2>2. m \in Miners
    BY <2>1
  <2>3. faults' \in 0 .. MaxFaults
    BY <2>1, CounterTypes
  <2>4. UNCHANGED <<miner, changes, storagePeers, peerList>>
    BY <1>4 DEF QueryMinerItems
  <2>5. todo' \in [Tasks -> SUBSET Miners]
    BY <2>1
  <2>6. CASE /\ minerinfo' = [minerinfo EXCEPT ![t] =
                                [of |-> m, idle |-> miner[m] = "idle"]]
             /\ task' = [task EXCEPT ![t] = "apply"]
    <3>1. /\ [of |-> m, idle |-> miner[m] = "idle"] \in Answers
          /\ [of |-> m, idle |-> miner[m] = "idle"].of = m
      BY <2>2 DEF Answers
    <3> QED
      BY <2>2, <2>3, <2>4, <2>5, <2>6, <3>1
  <2>7. CASE /\ task' = [task EXCEPT ![t] = NextItem(t, todo[t] \ {m})]
             /\ UNCHANGED minerinfo
    <3>1. NextItem(t, todo[t] \ {m}) \in {"ended", "list", "items"}
      BY <1>1
    <3> QED
      BY <2>3, <2>4, <2>5, <2>7, <3>1
  <2> QED
    BY <2>1, <2>6, <2>7
<1>5. CASE ApplyItems(t)
  <2>1. storagePeers' \subseteq Miners
    BY <1>5 DEF ApplyItems
  <2>2. /\ minerinfo' \in [Tasks -> Answers]
        /\ minerinfo' = [minerinfo EXCEPT ![t] = NoAnswer]
    BY <1>5 DEF ApplyItems, Answers
  <2>3. PICK step \in {"ended", "list", "items"} :
          task' = [task EXCEPT ![t] = step]
    BY <1>1, <1>5 DEF ApplyItems
  <2>4. UNCHANGED <<miner, changes, todo, peerList, faults>>
    BY <1>5 DEF ApplyItems
  <2> QED
    BY <2>1, <2>2, <2>3, <2>4
<1> QED
  BY <1>3, <1>4, <1>5 DEF TaskStep

(* Nothing is registered with peer 0, the first key, and no domain.        *)
LEMMA NoInfoType == NoInfo \in Infos /\ 0 \in Keys
<1>1. 0 \in Keys
  BY PeersAssumption DEF Keys
<1>2. "" \in Domains
  BY DEF Domains
<1> QED
  BY <1>1, <1>2 DEF NoInfo, Infos

(* The end of the process keeps the types of what it leaves behind.        *)
LEMMA DeadTypes ==
  ASSUME TypeInv, Dead,
         UNCHANGED <<ws, key, record, owned, exits, miner, changes>>,
         registered' \in BOOLEAN, info' \in Infos,
         faults' \in 0 .. MaxFaults, panics' \subseteq {"nil", "failed"}
  PROVE  TypeInv'
<1>1. /\ phase' = "off" /\ domain' = "" /\ access' = FALSE
      /\ registerFlag' = FALSE /\ ossinfo' = NoInfo /\ selector' = "nil"
      /\ storagePeers' = {} /\ peerList' = {} /\ TasksAt("off")
  BY DEF Dead, ForgetPeers
<1>2. NoInfo \in Infos
  BY NoInfoType
<1>3. PeersTypeOK'
  BY <1>1, TasksAtTypes DEF PeersTypeOK, TypeInv, TypeOK
<1> QED
  BY <1>1, <1>2, <1>3 DEF TypeInv, TypeOK, Phases, Domains

(* A step of the start that only goes on, or changes the registration.     *)
LEMMA StepToTypes ==
  ASSUME TypeInv, NEW p \in Phases, StepTo(p),
         UNCHANGED <<panics, exits, chain, faults>>,
         registered' \in BOOLEAN, info' \in Infos,
         record' \in BOOLEAN, owned' \in BOOLEAN
  PROVE  TypeInv'
<1>1. UNCHANGED <<ws, key, domain, access, registerFlag, ossinfo, selector>>
      /\ phase' = p
  BY DEF StepTo, StartingKept
<1>2. PeersTypeOK'
  BY DEF StepTo, peers, known, tasks, chain, PeersTypeOK, TypeInv, TypeOK
<1> QED
  BY <1>1, <1>2 DEF TypeInv, TypeOK, chain

(* The start, the peers it hears of, the chain and the two tasks keep to   *)
(* their types, the answers still to be applied included.                  *)
THEOREM TypeCorrect == Spec => []TypeOK
<1>1. Init => TypeInv
  <2> SUFFICES ASSUME Init
               PROVE  TypeInv
    OBVIOUS
  <2>1. changes = 0 /\ faults = 0 /\ exits = 0 /\ key = 0
    BY DEF Init, PeersInit
  <2>2. /\ 0 \in 0 .. MaxChanges /\ 0 \in 0 .. MaxFaults
        /\ 0 \in 0 .. MaxExits /\ 0 \in 0 .. 0
    BY PeersAssumption, ExitsAssumption
  <2>3. PeersTypeOK
    BY <2>1, <2>2 DEF Init, PeersInit, PeersTypeOK, Answers
  <2>4. NoInfo \in Infos /\ 0 \in Keys
    BY NoInfoType
  <2>5. domain \in Domains /\ phase \in Phases
    BY DEF Init, Domains, Phases
  <2> QED
    BY <2>1, <2>2, <2>3, <2>4, <2>5 DEF Init, TypeInv, TypeOK
<1>2. TypeInv /\ [Next]_vars => TypeInv'
  <2> SUFFICES ASSUME TypeInv, [Next]_vars
               PROVE  TypeInv'
    OBVIOUS
  <2> USE DEF own, starting, oss, disk, history, peers, known, tasks, chain
  <2>1. Own \in Infos
    BY DEF TypeInv, TypeOK, Own, Infos
  <2>2. CASE StartFile \/ StartFlags \/ QueryOss
    BY <2>2 DEF StartFile, StartFlags, ParseFails, QueryOss, TypeInv, TypeOK, PeersTypeOK,
                Phases, Subscribed, Domains
  <2>3. CASE KeyLost
    <3>1. changes' = changes + 1 /\ changes' \in 0 .. MaxChanges
      BY <2>3, CounterTypes DEF KeyLost, TypeInv, TypeOK
    <3>2. key' \in 0 .. changes' /\ key' \in Keys
      <4>1. key' = key + 1 /\ key \in 0 .. changes
        BY <2>3 DEF KeyLost, TypeInv
      <4>2. changes \in Nat /\ MaxChanges \in Nat
        BY PeersAssumption DEF TypeInv, TypeOK, PeersTypeOK
      <4> QED
        BY <3>1, <4>1, <4>2 DEF Keys
    <3> QED
      BY <2>3, <3>1, <3>2 DEF KeyLost, TypeInv, TypeOK, PeersTypeOK
  <2>4. CASE RegisterOss
    <3>1. CASE Dead
      <4>1. /\ registered' \in BOOLEAN /\ info' \in Infos
            /\ faults' \in 0 .. MaxFaults
            /\ UNCHANGED <<ws, key, record, owned, exits, panics, miner,
                           changes>>
        BY <2>1, <2>4, <3>1, CounterTypes
           DEF RegisterOss, StepTo, StartingKept, TypeInv, TypeOK, PeersTypeOK
      <4> QED
        BY <3>1, <4>1, DeadTypes DEF TypeInv, TypeOK
    <3>2. CASE ~Dead
      <4>1. StepTo("rebuild") /\ registered' = TRUE /\ info' = Own
            /\ UNCHANGED <<record, owned, panics, exits, chain, faults>>
        BY <2>4, <3>2 DEF RegisterOss
      <4> QED
        BY <2>1, <4>1, StepToTypes
           DEF TypeInv, TypeOK, Phases, Subscribed
    <3> QED
      BY <3>1, <3>2
  <2>5. CASE UpdateOss
    <3>1. CASE Dead
      <4>1. /\ registered' \in BOOLEAN /\ info' \in Infos
            /\ faults' \in 0 .. MaxFaults
            /\ UNCHANGED <<ws, key, record, owned, exits, panics, miner,
                           changes>>
        BY <2>1, <2>5, <3>1, CounterTypes
           DEF UpdateOss, StepTo, StartingKept, TypeInv, TypeOK, PeersTypeOK
      <4> QED
        BY <3>1, <4>1, DeadTypes DEF TypeInv, TypeOK
    <3>2. CASE ~Dead
      <4>1. StepTo("dirs") /\ UNCHANGED registered /\ info' \in {info, Own}
            /\ UNCHANGED <<record, owned, panics, exits, chain, faults>>
        BY <2>5, <3>2 DEF UpdateOss
      <4> QED
        BY <2>1, <4>1, StepToTypes
           DEF TypeInv, TypeOK, Phases, Subscribed
    <3> QED
      BY <3>1, <3>2
  <2>6. CASE RebuildDirs \/ buildDir
    <3>1. PICK p \in {"dirs", "selector"} : StepTo(p)
      BY <2>6 DEF RebuildDirs, buildDir
    <3> QED
      BY <2>6, <3>1, StepToTypes
         DEF RebuildDirs, buildDir, TypeInv, TypeOK, Phases, Subscribed
  <2>7. CASE InitNodeSelector
    <3>1. faults' \in 0 .. MaxFaults
      BY <2>7, CounterTypes DEF InitNodeSelector, TypeInv, TypeOK
    <3> QED
      BY <2>7, <3>1 DEF InitNodeSelector, StartingKept, TypeInv, TypeOK,
                        PeersTypeOK, Phases, Subscribed
  <2>8. CASE Run
    <3>1. PeersTypeOK'
      BY <2>8, TasksAtTypes
         DEF Run, TaskMgtStarts, TypeInv, TypeOK, PeersTypeOK
    <3>2. NoInfo \in Infos
      BY NoInfoType
    <3> QED
      BY <2>8, <3>1, <3>2 DEF Run, TypeInv, TypeOK, Phases, Subscribed
  <2>9. ASSUME NilSelector, selector # "ready"
         PROVE  TypeInv'
    <3>1. panics' \subseteq {"nil", "failed"}
      BY <2>9 DEF NilSelector, TypeInv, TypeOK
    <3> QED
      BY <2>9, <3>1, DeadTypes
         DEF NilSelector, TypeInv, TypeOK, PeersTypeOK
  <2>10. ASSUME NEW m \in Miners, FoundPeer(m)
         PROVE  TypeInv'
    <3>1. CASE NilSelector /\ selector # "ready"
      BY <2>9, <3>1
    <3>2. CASE /\ SavePeer(m)
               /\ UNCHANGED <<own, chain, storagePeers, tasks, faults>>
      BY <3>2 DEF SavePeer, TypeInv, TypeOK, PeersTypeOK
    <3> QED
      BY <2>10, <3>1, <3>2 DEF FoundPeer
  <2>11. CASE Track
    <3>1. CASE NilSelector /\ selector # "ready"
      BY <2>9, <3>1
    <3>2. CASE /\ record' = FALSE /\ owned' = FALSE
               /\ UNCHANGED <<starting, oss, history, chain, peers, faults>>
      BY <3>2 DEF TypeInv, TypeOK, PeersTypeOK
    <3> QED
      BY <2>11, <3>1, <3>2 DEF Track
  <2>12. CASE Upload
    BY <2>12 DEF Upload, TypeInv, TypeOK, PeersTypeOK
  <2>13. CASE Exit
    <3>1. exits' \in 0 .. MaxExits
      BY <2>13, ExitsAssumption DEF Exit, TypeInv, TypeOK
    <3> QED
      BY <2>13, <3>1 DEF Exit, TypeInv, TypeOK, PeersTypeOK
  <2>14. CASE Crash
    <3>1. faults' \in 0 .. MaxFaults
      BY <2>14, CounterTypes DEF Crash, TypeInv, TypeOK
    <3> QED
      BY <2>14, <3>1, DeadTypes DEF Crash, TypeInv, TypeOK
  <2>15. CASE PeerStep
    <3>1. UNCHANGED own
      BY <2>15 DEF PeerStep
    <3>2. ASSUME PeersTypeOK', changes \in Nat, changes' \in Nat,
                 changes =< changes'
          PROVE  TypeInv'
      BY <3>1, <3>2 DEF TypeInv, TypeOK, Keys
    <3>3. changes \in Nat
      BY PeersAssumption DEF TypeInv, TypeOK, PeersTypeOK
    <3>4. ASSUME NEW m \in Miners, NEW s \in {"none", "full", "idle"},
                 MinerChanges(m, s)
          PROVE  TypeInv'
      <4>1. changes' = changes + 1 /\ changes' \in 0 .. MaxChanges
        BY <3>4, CounterTypes DEF MinerChanges, TypeInv, TypeOK
      <4>2. PeersTypeOK'
        BY <3>4, <4>1 DEF MinerChanges, TypeInv, TypeOK, PeersTypeOK
      <4> QED
        BY <3>2, <3>3, <4>1, <4>2
    <3>5. ASSUME NEW t \in Tasks, TaskStep(t)
          PROVE  TypeInv'
      <4>1. PeersTypeOK'
        BY <3>5, TaskTypes DEF TypeInv, TypeOK
      <4>2. UNCHANGED changes
        BY <3>5 DEF TaskStep, QueryAllMiner, QueryMinerItems, ApplyItems
      <4> QED
        BY <3>2, <3>3, <4>1, <4>2
    <3>6. CASE RestartRefreshMiner
      <4>1. PeersTypeOK' /\ UNCHANGED changes
        BY <3>6
           DEF RestartRefreshMiner, TypeInv, TypeOK, PeersTypeOK, Tasks
      <4> QED
        BY <3>2, <3>3, <4>1
    <3> QED
      BY <2>15, <3>4, <3>5, <3>6 DEF PeerStep
  <2>16. CASE UNCHANGED vars
    BY <2>16 DEF vars, TypeInv, TypeOK, PeersTypeOK
  <2> QED
    BY <2>2, <2>3, <2>4, <2>5, <2>6, <2>7, <2>8, <2>10, <2>11, <2>12, <2>13,
       <2>14, <2>15, <2>16 DEF Next, Start, StartStep
<1>3. TypeInv => TypeOK
  BY DEF TypeInv
<1> QED
  BY <1>1, <1>2, <1>3, PTL DEF Spec
=============================================================================
