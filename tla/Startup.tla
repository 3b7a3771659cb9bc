------------------------------- MODULE Startup -------------------------------
(***************************************************************************)
(* The life of the process: cmd_run_func from the configuration to Run(),  *)
(* what it leaves behind at every point where it may die, and the next     *)
(* start.  The registration of the gateway is on the chain, the records of *)
(* unfinished uploads are in the track directory, and RebuildDirs(), which *)
(* a start calls after it has registered, removes them.  Subscribe() runs  *)
(* from the middle of the start on and hands the peers it hears of to a    *)
(* Selector that may not be there.  Composed with Peers.                   *)
(***************************************************************************)
EXTENDS Peers

CONSTANT MaxExits  \* bound on the uses of the exit command

ASSUME ExitsAssumption == MaxExits \in Nat

Domains == {"", "domain"}  \* none, or what a configuration file has
Keys == 0 .. MaxChanges    \* the peer keys the gateway has had
Infos == [peer : Keys, domain : Domains]

VARIABLES
  phase,         \* where cmd_run_func is
  ws,            \* the workspace exists
  key, domain,   \* of the process (its peer id), and of its configuration
  access,        \* the configuration has a valid Access
  registered, info,  \* the gateway on the chain
  registerFlag, ossinfo,  \* what QueryOss() answered
  selector,      \* "nil": not yet, "failed": nil for ever, or "ready"
  record,        \* the track directory has the record of an upload
  owned,         \* history: acknowledged under the present registration
  panics,        \* history: how the selector was when a nil one was used
  exits

starting == <<phase, ws, key, domain, access, registerFlag, ossinfo, selector>>
oss == <<registered, info>>
disk == <<record, owned>>
history == <<panics, exits>>
own == <<starting, oss, disk, history>>
vars == <<own, chain, known, tasks, faults>>

Subscribed == {"announce", "rebuild", "dirs", "selector", "stores", "run"}
Phases == {"off", "query"} \cup Subscribed

TypeOK ==
  /\ PeersTypeOK
  /\ phase \in Phases
  /\ ws \in BOOLEAN /\ access \in BOOLEAN /\ registered \in BOOLEAN
  /\ registerFlag \in BOOLEAN /\ record \in BOOLEAN /\ owned \in BOOLEAN
  /\ key \in Keys /\ domain \in Domains
  /\ info \in Infos /\ ossinfo \in Infos
  /\ selector \in {"nil", "failed", "ready"}
  /\ panics \subseteq {"nil", "failed"}
  /\ exits \in 0 .. MaxExits

NoInfo == [peer |-> 0, domain |-> ""]

Init ==
  /\ PeersInit
  /\ phase = "off" /\ ws = FALSE /\ key = 0 /\ domain = "" /\ access = FALSE
  /\ registered = FALSE /\ info = NoInfo
  /\ registerFlag = FALSE /\ ossinfo = NoInfo /\ selector = "nil"
  /\ record = FALSE /\ owned = FALSE
  /\ panics = {} /\ exits = 0

-----------------------------------------------------------------------------
peers == <<known, tasks>>

(* The end of the process: what it held in memory is gone.                 *)
Dead ==
  /\ phase' = "off" /\ domain' = "" /\ access' = FALSE
  /\ registerFlag' = FALSE /\ ossinfo' = NoInfo /\ selector' = "nil"
  /\ ForgetPeers

StartingKept == UNCHANGED <<ws, key, domain, access, registerFlag, ossinfo>>
StepTo(p) ==
  /\ phase' = p
  /\ StartingKept /\ UNCHANGED <<selector, peers>>

(* With a valid configuration file: Parse() makes the workspace.           *)
StartFile ==
  /\ phase = "off"
  /\ phase' = "query" /\ ws' = TRUE /\ domain' = "domain" /\ access' = TRUE
  /\ UNCHANGED <<key, registerFlag, ossinfo, selector>>
  /\ UNCHANGED <<oss, disk, history, chain, peers, faults>>

(* Parse() fails, before or after it has read the domain and Access.       *)
ParseFails == domain' \in Domains /\ access' \in BOOLEAN

(* With flags, which set neither of the two.  SetWorkspace() uses the      *)
(* answer of a Stat() that has failed when it has made the directory, and  *)
(* the process panics.                                                     *)
StartFlags ==
  /\ phase = "off"
  /\ ws' = TRUE
  /\ IF ws
     THEN phase' = "query" /\ ParseFails
     ELSE UNCHANGED <<phase, domain, access>>
  /\ UNCHANGED <<key, registerFlag, ossinfo, selector>>
  /\ UNCHANGED <<oss, disk, history, chain, peers, faults>>

(* The key file in the workspace is lost: the peer id is another one.      *)
KeyLost ==
  /\ phase = "off" /\ Change
  /\ key' = key + 1
  /\ UNCHANGED <<phase, ws, domain, access, registerFlag, ossinfo, selector>>
  /\ UNCHANGED <<oss, disk, history, miner, peers, faults>>

(* Mutant: every answer of QueryOss() sets the flag.                       *)
QueryOssFlags ==
  /\ phase = "query"
  /\ registerFlag' = TRUE /\ ossinfo' = info
  /\ phase' = "announce"
  /\ UNCHANGED <<ws, key, domain, access, selector>>
  /\ UNCHANGED <<oss, disk, history, chain, peers, faults>>

(* QueryOss(); then the peer node is built and Subscribe() started.        *)
QueryOss ==
  /\ phase = "query"
  /\ registerFlag' = ~registered /\ ossinfo' = info
  /\ phase' = "announce"
  /\ UNCHANGED <<ws, key, domain, access, selector>>
  /\ UNCHANGED <<oss, disk, history, chain, peers, faults>>

Own == [peer |-> key, domain |-> domain]

(* The transaction does its work, and the answer comes or is lost; an      *)
(* account that is registered is refused.                                  *)
RegisterOss ==
  /\ phase = "announce" /\ registerFlag
  /\ IF registered
     THEN Dead /\ UNCHANGED <<oss, ws, key, faults>>
     ELSE /\ registered' = TRUE /\ info' = Own
          /\ \/ StepTo("rebuild") /\ UNCHANGED faults
             \/ Dead /\ UNCHANGED <<ws, key>> /\ Fault
  /\ UNCHANGED <<disk, history, chain>>

RebuildDirs ==
  /\ phase = "rebuild"
  /\ record' = FALSE /\ owned' = FALSE
  /\ StepTo("dirs")
  /\ UNCHANGED <<oss, history, chain, faults>>

(* Mutants of UpdateOss: both must differ; or a new peer id means new      *)
(* directories, too.                                                       *)
UpdateOssBoth ==
  /\ phase = "announce" /\ ~registerFlag
  /\ IF ossinfo.peer = key \/ ossinfo.domain = domain
     THEN StepTo("dirs") /\ UNCHANGED <<oss, faults>>
     ELSE /\ registered
          /\ info' = Own /\ UNCHANGED registered
          /\ StepTo("dirs") /\ UNCHANGED faults
  /\ UNCHANGED <<disk, history, chain>>

UpdateOssRebuilds ==
  /\ phase = "announce" /\ ~registerFlag
  /\ IF ossinfo = Own
     THEN StepTo("dirs") /\ UNCHANGED oss
     ELSE /\ registered
          /\ info' = Own /\ UNCHANGED registered
          /\ StepTo("rebuild")
  /\ UNCHANGED <<disk, history, chain, faults>>

(* What is registered is compared with what is so; the update fails when   *)
(* the gateway has been unregistered since the query.                      *)
UpdateOss ==
  /\ phase = "announce" /\ ~registerFlag
  /\ IF ossinfo = Own
     THEN StepTo("dirs") /\ UNCHANGED <<oss, faults>>
     ELSE IF registered
     THEN /\ info' = Own /\ UNCHANGED registered
          /\ \/ StepTo("dirs") /\ UNCHANGED faults
             \/ Dead /\ UNCHANGED <<ws, key>> /\ Fault
     ELSE Dead /\ UNCHANGED <<oss, ws, key, faults>>
  /\ UNCHANGED <<disk, history, chain>>

buildDir ==
  /\ phase = "dirs"
  /\ StepTo("selector")
  /\ UNCHANGED <<oss, disk, history, chain, faults>>

(* Nobody looks at the error of InitNodeSelector().                        *)
InitNodeSelector ==
  /\ phase = "selector"
  /\ \/ selector' = "ready" /\ UNCHANGED faults
     \/ selector' = "failed" /\ Fault
  /\ phase' = "stores" /\ StartingKept
  /\ UNCHANGED <<oss, disk, history, chain, peers>>

(* The database and the logs are open: Run(); nobody reads what QueryOss() *)
(* has answered any more.                                                  *)
Run ==
  /\ phase = "stores"
  /\ phase' = "run" /\ registerFlag' = FALSE /\ ossinfo' = NoInfo
  /\ UNCHANGED <<ws, key, domain, access, selector>>
  /\ TaskMgtStarts
  /\ UNCHANGED <<oss, disk, history, chain, faults>>

-----------------------------------------------------------------------------
(* A nil Selector in a goroutine without recover() ends the process.       *)
NilSelector ==
  /\ panics' = panics \cup {selector}
  /\ Dead
  /\ UNCHANGED <<ws, key, oss, disk, exits, chain, faults>>

(* Mutant: the callback flushes every peer.                                *)
FoundAnyPeer(m) ==
  /\ phase \in Subscribed
  /\ IF selector # "ready"
     THEN NilSelector
     ELSE /\ SavePeer(m)
          /\ UNCHANGED <<own, chain, storagePeers, tasks, faults>>

(* The callback of Subscribe().                                            *)
FoundPeer(m) ==
  /\ phase \in Subscribed
  /\ IF HasStoragePeer(m) /\ selector # "ready"
     THEN NilSelector
     ELSE /\ SavePeer(m)
          /\ UNCHANGED <<own, chain, storagePeers, tasks, faults>>

(* An upload is acknowledged: its record is in the track directory.        *)
Upload ==
  /\ phase = "run" /\ access /\ ~record
  /\ record' = TRUE /\ owned' = registered
  /\ UNCHANGED <<starting, oss, history, chain, peers, faults>>

(* trackFile() finds the upload stored, or withdrawn, and drops its        *)
(* record; or it comes to storageData(), which asks the selector.          *)
Track ==
  /\ phase = "run" /\ record
  /\ \/ /\ record' = FALSE /\ owned' = FALSE
        /\ UNCHANGED <<starting, oss, history, chain, peers, faults>>
     \/ selector # "ready" /\ NilSelector

(* The exit command, in a process of its own: DestroyOss().                *)
Exit ==
  /\ registered /\ exits < MaxExits
  /\ registered' = FALSE /\ owned' = FALSE /\ exits' = exits + 1
  /\ UNCHANGED <<starting, info, record, panics, chain, peers, faults>>

(* A crash, or one of the errors on which cmd_run_func calls os.Exit(1).   *)
Crash ==
  /\ phase # "off" /\ Fault
  /\ Dead
  /\ UNCHANGED <<ws, key, oss, disk, history, chain>>

PeerStep ==
  /\ \/ \E m \in Miners, s \in {"none", "full", "idle"} : MinerChanges(m, s)
     \/ \E t \in Tasks : TaskStep(t)
     \/ RestartRefreshMiner
  /\ UNCHANGED own

Start == StartFile \/ StartFlags
StartStep ==
  \/ QueryOss \/ RegisterOss \/ RebuildDirs \/ UpdateOss
  \/ buildDir \/ InitNodeSelector \/ Run

Next ==
  \/ Start \/ StartStep \/ KeyLost
  \/ \E m \in Miners : FoundPeer(m)
  \/ Upload \/ Track \/ Exit \/ Crash
  \/ PeerStep

Spec == Init /\ [][Next]_vars

(* The operator starts the process again, the start goes on, and so do the *)
(* tasks of the running process.  TaskMgt need not meet the hour in which  *)
(* it starts refreshMiner again.                                           *)
FairSpec ==
  /\ Spec
  /\ WF_vars(Start) /\ WF_vars(StartStep)
  /\ \A t \in Tasks : WF_vars(TaskStep(t) /\ UNCHANGED own)

-----------------------------------------------------------------------------
(* Properties                                                              *)

(* A record that was acknowledged under the present registration is lost   *)
(* in no start: RebuildDirs() runs only when the gateway had been          *)
(* unregistered on purpose.                                                *)
RecordsSurvive == [][record /\ ~record' /\ phase # "run" => ~owned]_vars

(* A gateway that runs and is registered is known by its own peer id and   *)
(* domain, whatever starts have failed half way before.                    *)
RunsAnnounced == phase = "run" /\ registered => info = Own

(* No peer that is found during the start reaches a selector that is not   *)
(* there yet: only a failed InitNodeSelector() leaves one to panic on.     *)
NilOnlyIfFailed == panics \subseteq {"failed"}

(* Whatever has failed before, in the end a start comes through and the    *)
(* gateway stays up: no start leaves anything the next one trips over.     *)
EventuallyRuns == <>[](phase = "run")

(* When the miners change no more, the gateway ends up right about those   *)
(* that are listed, though two tasks write what they have read before.     *)
PeersSettle ==
  \A m \in Miners : <>[](phase = "run" => RightAbout(m))
=============================================================================
