------------------------------ MODULE TrackPool ------------------------------
(***************************************************************************)
(* The scheduling of track files: the lock-protected pool of               *)
(* inter/trackfile.go, the endless loop tracker() that lists the track     *)
(* directory and starts one goroutine per file, the deferred release in    *)
(* trackFileThread(), and TaskMgt(), which starts the loop again after a   *)
(* panic.  What a goroutine does with its file is module UploadTrack; here *)
(* it runs, may leave or remove the record, and returns.                   *)
(***************************************************************************)
EXTENDS Integers, FiniteSets

CONSTANTS Files,            \* names in the track directory; Glob lists them in
                            \* lexical order, here the order of the numbers
          MaxTrackThread,   \* configs.MaxTrackThread
          MaxFaults         \* bound on panics of the loop and process crashes

ASSUME FilesAssumption == Files \subseteq Nat
ASSUME LimitAssumption == MaxTrackThread \in Nat \ {0}
ASSUME FaultsAssumption == MaxFaults \in Nat

VARIABLES
  trackDir,    \* names present in the track directory (disk)
  trackFiles,  \* TrackFileType.trackFiles, the registered names (memory)
  tpc,         \* where tracker() is; "down": its channel holds a token
  listed,      \* names of the last listing the loop has not visited yet
  cur,         \* the name the loop is visiting
  running,     \* running[f]: goroutines of f inside trackFile
  returned,    \* returned[f]: goroutines of f about to run their defer
  faults

vars == <<trackDir, trackFiles, tpc, listed, cur, running, returned, faults>>
loop == <<tpc, listed, cur>>
disk == <<trackDir>>
pool == <<trackFiles>>
threads == <<running, returned>>

Threads(f) == running[f] + returned[f]

TypeOK ==
  /\ trackDir \subseteq Files
  /\ trackFiles \subseteq Files
  /\ tpc \in {"list", "count", "scan", "add", "spawn", "down"}
  /\ listed \subseteq Files
  /\ cur \in Files
  /\ running \in [Files -> Nat]
  /\ returned \in [Files -> Nat]
  /\ faults \in 0 .. MaxFaults

Init ==
  /\ trackDir \in SUBSET Files           \* what earlier runs left on disk
  /\ trackFiles = {}
  /\ tpc = "list"
  /\ listed = {}
  /\ cur \in Files
  /\ running = [f \in Files |-> 0]
  /\ returned = [f \in Files |-> 0]
  /\ faults = 0

-----------------------------------------------------------------------------
(* The pool, one critical section per operation.                           *)

(* Mutants of CanAdd: a registered name again; one name too many.          *)
CanAddAgain(f) == Cardinality(trackFiles) < MaxTrackThread
CanAddOneMore(f) == Cardinality(trackFiles) <= MaxTrackThread /\ f \notin trackFiles

CanAdd(f) == Cardinality(trackFiles) < MaxTrackThread /\ f \notin trackFiles

GetTrackFileNum == Cardinality(trackFiles)

-----------------------------------------------------------------------------
(* tracker(), one action per call that reads or writes shared state.       *)

(* An empty listing sleeps and lists again: no change of state.            *)
ListTrackFiles ==
  /\ tpc = "list" /\ trackDir # {}
  /\ listed' = trackDir
  /\ tpc' = "count"
  /\ UNCHANGED <<cur, faults>> /\ UNCHANGED <<disk, pool, threads>>

CheckRoom ==
  /\ tpc = "count"
  /\ tpc' = IF GetTrackFileNum < MaxTrackThread THEN "scan" ELSE "list"
  /\ UNCHANGED <<listed, cur, faults>> /\ UNCHANGED <<disk, pool, threads>>

EndScan ==
  /\ tpc = "scan" /\ listed = {}
  /\ tpc' = "list"
  /\ UNCHANGED <<listed, cur, faults>> /\ UNCHANGED <<disk, pool, threads>>

(* os.Stat of the next listed name; one that is gone is passed over.       *)
StatNext ==
  /\ tpc = "scan"
  /\ \E v \in listed :
       /\ \A w \in listed : v <= w
       /\ listed' = listed \ {v}
       /\ cur' = v
       /\ tpc' = IF v \in trackDir THEN "add" ELSE "scan"
  /\ UNCHANGED faults /\ UNCHANGED <<disk, pool, threads>>

(* Mutant: the goroutine is started without registering the name.          *)
AddTrackFileUnregistered ==
  /\ tpc = "add" /\ CanAdd(cur)
  /\ tpc' = "spawn"
  /\ UNCHANGED <<listed, cur, faults>> /\ UNCHANGED <<disk, pool, threads>>

AddTrackFile ==
  /\ tpc = "add" /\ CanAdd(cur)
  /\ trackFiles' = trackFiles \cup {cur}
  /\ tpc' = "spawn"
  /\ UNCHANGED <<listed, cur, faults>> /\ UNCHANGED <<disk, threads>>

(* "track queue is full" or "already in track": on to the next name.       *)
AddTrackFileFails ==
  /\ tpc = "add" /\ ~CanAdd(cur)
  /\ tpc' = "scan"
  /\ UNCHANGED <<listed, cur, faults>> /\ UNCHANGED <<disk, pool, threads>>

GoTrackFileThread ==
  /\ tpc = "spawn"
  /\ running' = [running EXCEPT ![cur] = @ + 1]
  /\ tpc' = "scan"
  /\ UNCHANGED <<listed, cur, returned, faults>> /\ UNCHANGED <<disk, pool>>

(* A panic in the loop is recovered after the channel got its token; what  *)
(* the loop held on its stack is lost, the pool and the goroutines stay.   *)
TrackerPanic ==
  /\ tpc # "down" /\ faults < MaxFaults
  /\ faults' = faults + 1
  /\ tpc' = "down"
  /\ listed' = {}
  /\ UNCHANGED cur /\ UNCHANGED <<disk, pool, threads>>

(* Mutant: the select of TaskMgt lacks the case of tracker()'s channel.    *)
TaskMgtIgnores == tpc = "down" /\ UNCHANGED vars

TaskMgtRestart ==
  /\ tpc = "down"
  /\ tpc' = "list"
  /\ UNCHANGED <<listed, cur, faults>> /\ UNCHANGED <<disk, pool, threads>>

-----------------------------------------------------------------------------
(* trackFileThread(f): trackFile returns, with or without having removed   *)
(* the record; then the deferred DelTrackFile runs.                        *)

(* Mutant: released on return, and by the deferred call once more.         *)
TrackFileReturnsReleased(f) ==
  /\ running[f] > 0
  /\ running' = [running EXCEPT ![f] = @ - 1]
  /\ returned' = [returned EXCEPT ![f] = @ + 1]
  /\ trackDir' \in {trackDir, trackDir \ {f}}
  /\ trackFiles' = trackFiles \ {f}
  /\ UNCHANGED <<loop, faults>>

TrackFileReturns(f) ==
  /\ running[f] > 0
  /\ running' = [running EXCEPT ![f] = @ - 1]
  /\ returned' = [returned EXCEPT ![f] = @ + 1]
  /\ trackDir' \in {trackDir, trackDir \ {f}}
  /\ UNCHANGED <<loop, pool, faults>>

(* Mutant: runs while the goroutine is still in trackFile.                 *)
DelTrackFileEarly(f) ==
  /\ running[f] > 0
  /\ returned' = [returned EXCEPT ![f] = @ - 1]
  /\ trackFiles' = trackFiles \ {f}
  /\ UNCHANGED <<running, faults>> /\ UNCHANGED <<loop, disk>>

DelTrackFile(f) ==
  /\ returned[f] > 0
  /\ returned' = [returned EXCEPT ![f] = @ - 1]
  /\ trackFiles' = trackFiles \ {f}
  /\ UNCHANGED <<running, faults>> /\ UNCHANGED <<loop, disk>>

(* Upload, restore and delete handlers, in goroutines of the HTTP server.  *)
HandlerWrites(f) ==
  /\ f \notin trackDir
  /\ trackDir' = trackDir \cup {f}
  /\ UNCHANGED <<loop, pool, threads, faults>>

HandlerDeletes(f) ==
  /\ f \in trackDir
  /\ trackDir' = trackDir \ {f}
  /\ UNCHANGED <<loop, pool, threads, faults>>

(* The process dies and starts again: only the directory is left.          *)
Crash ==
  /\ faults < MaxFaults
  /\ faults' = faults + 1
  /\ trackFiles' = {}
  /\ tpc' = "list" /\ listed' = {} /\ UNCHANGED cur
  /\ running' = [f \in Files |-> 0]
  /\ returned' = [f \in Files |-> 0]
  /\ UNCHANGED disk

Tracker ==
  \/ ListTrackFiles \/ CheckRoom \/ StatNext \/ EndScan
  \/ AddTrackFile \/ AddTrackFileFails \/ GoTrackFileThread

Thread(f) == TrackFileReturns(f) \/ DelTrackFile(f)

Handler(f) == HandlerWrites(f) \/ HandlerDeletes(f)

Next ==
  \/ Tracker
  \/ TrackerPanic
  \/ TaskMgtRestart
  \/ Crash
  \/ \E f \in Files : Thread(f) \/ Handler(f)

Spec == Init /\ [][Next]_vars

(* The loop, TaskMgt's select and a deferred call always get to run; that  *)
(* a goroutine returns is NOT assumed here: trackFile loops for as long as *)
(* its file is not stored.                                                 *)
Fairness ==
  /\ WF_vars(Tracker)
  /\ WF_vars(TaskMgtRestart)
  /\ \A f \in Files : WF_vars(DelTrackFile(f))

FairSpec == Spec /\ Fairness

-----------------------------------------------------------------------------
(* Properties                                                              *)

(* The names the pool holds for nobody: the loop panicked between          *)
(* AddTrackFile and the go statement (tracker.go:73-78).                   *)
Leaked == {f \in trackFiles : Threads(f) = 0 /\ ~(tpc = "spawn" /\ cur = f)}

(* A file never has two goroutines at work on it, however its goroutine's  *)
(* return, its release and the loop's visits interleave.                   *)
OneThreadPerFile == \A f \in Files : Threads(f) <= 1

(* Never more than MaxTrackThread goroutines transfer files, across panics *)
(* of the loop and crashes.                                                *)
ThreadsBounded == Cardinality({f \in Files : Threads(f) > 0}) <= MaxTrackThread

(* The strengthening that makes both inductive: a goroutine, and the loop  *)
(* about to start one, each own a distinct registration.                   *)
Owners(f) == Threads(f) + (IF tpc = "spawn" /\ cur = f THEN 1 ELSE 0)

RegistrationInv ==
  /\ IsFiniteSet(trackFiles)
  /\ Cardinality(trackFiles) <= MaxTrackThread
  /\ \A f \in Files : Owners(f) <= (IF f \in trackFiles THEN 1 ELSE 0)

(* The pool keeps what KeyedWorkers promises.                              *)
Workers == INSTANCE KeyedWorkers
             WITH Keys <- Files, Limit <- MaxTrackThread,
                  work <- [f \in Files |-> Threads(f)]

WorkersSpec == Workers!Spec

(* When goroutines do return, and once uploads pause and the directory     *)
(* holds no more records than the pool has room for, every record is       *)
(* picked up: none is starved                                              *)
(* by the listing order, by a full pool or by restarts of the loop.  With  *)
(* more records than room this is false: the loop tries the names in the   *)
(* listing's order and a full pool passes over the last ones every time.   *)
ServedWhenRoomy ==
  (/\ \A f \in Files : []<>(running[f] = 0)
   /\ [](Leaked = {})
   /\ <>[](Cardinality(trackDir) <= MaxTrackThread)
   /\ <>[][trackDir' \subseteq trackDir]_vars)
  => \A f \in Files : (f \in trackDir) ~> (f \notin trackDir \/ Threads(f) > 0)
=============================================================================
