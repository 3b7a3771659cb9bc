--------------------------- MODULE TrackPool_proofs ---------------------------
(***************************************************************************)
(* Proofs about TrackPool, for every set of names and every pool size: the *)
(* registration invariant, the two safety properties the runs check, and   *)
(* that the pool implements KeyedWorkers.                                  *)
(***************************************************************************)
EXTENDS TrackPool, FiniteSetTheorems, TLAPS

(* Every variable of the pool and the loop keeps its type.                 *)
THEOREM TypeCorrect == Spec => []TypeOK
<1>1. Init => TypeOK
  BY FaultsAssumption DEF Init, TypeOK
<1>2. TypeOK /\ [Next]_vars => TypeOK'
  <2> SUFFICES ASSUME TypeOK, [Next]_vars
               PROVE  TypeOK'
    OBVIOUS
  <2> USE DEF TypeOK
  <2>1. CASE Tracker
    BY <2>1 DEF Tracker, ListTrackFiles, CheckRoom, StatNext, EndScan,
                AddTrackFile, AddTrackFileFails, GoTrackFileThread,
                disk, pool, threads
  <2>2. CASE TrackerPanic
    BY <2>2, FaultsAssumption DEF TrackerPanic, disk, pool, threads
  <2>3. CASE TaskMgtRestart
    BY <2>3 DEF TaskMgtRestart, disk, pool, threads
  <2>4. CASE Crash
    BY <2>4, FaultsAssumption DEF Crash, disk
  <2>5. ASSUME NEW f \in Files, TrackFileReturns(f)
        PROVE  TypeOK'
    BY <2>5 DEF TrackFileReturns, loop, pool
  <2>6. ASSUME NEW f \in Files, DelTrackFile(f)
        PROVE  TypeOK'
    BY <2>6 DEF DelTrackFile, loop, disk
  <2>7. ASSUME NEW f \in Files, Handler(f)
        PROVE  TypeOK'
    BY <2>7 DEF Handler, HandlerWrites, HandlerDeletes, loop, pool, threads
  <2>8. CASE UNCHANGED vars
    BY <2>8 DEF vars
  <2> QED
    BY <2>1, <2>2, <2>3, <2>4, <2>5, <2>6, <2>7, <2>8 DEF Next, Thread
<1> QED
  BY <1>1, <1>2, PTL DEF Spec

(* Each goroutine, and the loop about to start one, owns a registration of *)
(* its own, and the pool is never over its size: the counters of the pool  *)
(* mean what trackfile.go:37-62 needs them to mean.                        *)
THEOREM Registration == Spec => []RegistrationInv
<1>1. Init => RegistrationInv
  BY FS_EmptySet, LimitAssumption
     DEF Init, RegistrationInv, Owners, Threads
<1>2. TypeOK /\ RegistrationInv /\ [Next]_vars => RegistrationInv'
  <2> SUFFICES ASSUME TypeOK, RegistrationInv, [Next]_vars
               PROVE  RegistrationInv'
    OBVIOUS
  <2> USE DEF TypeOK, RegistrationInv, Owners, Threads
  <2>1. CASE ListTrackFiles \/ CheckRoom \/ StatNext \/ EndScan
             \/ AddTrackFileFails
    BY <2>1 DEF ListTrackFiles, CheckRoom, StatNext, EndScan,
                AddTrackFileFails, disk, pool, threads
  <2>2. CASE AddTrackFile
    <3>1. IsFiniteSet(trackFiles') /\ Cardinality(trackFiles') <= MaxTrackThread
      <4>1. cur \notin trackFiles /\ Cardinality(trackFiles) < MaxTrackThread
        BY <2>2 DEF AddTrackFile, CanAdd
      <4>2. /\ IsFiniteSet(trackFiles \cup {cur})
            /\ Cardinality(trackFiles \cup {cur}) = Cardinality(trackFiles) + 1
        BY <4>1, FS_AddElement
      <4>3. Cardinality(trackFiles) \in Nat
        BY FS_CardinalityType
      <4> QED
        BY <2>2, <4>1, <4>2, <4>3, LimitAssumption DEF AddTrackFile
    <3>2. ASSUME NEW f \in Files
          PROVE  Owners(f)' <= (IF f \in trackFiles' THEN 1 ELSE 0)
      BY <2>2, <3>2 DEF AddTrackFile, CanAdd, threads
    <3> QED
      BY <3>1, <3>2
  <2>3. CASE GoTrackFileThread
    BY <2>3 DEF GoTrackFileThread, disk, pool
  <2>4. CASE TrackerPanic
    BY <2>4 DEF TrackerPanic, disk, pool, threads
  <2>5. CASE TaskMgtRestart
    BY <2>5 DEF TaskMgtRestart, disk, pool, threads
  <2>6. CASE Crash
    BY <2>6, FS_EmptySet, LimitAssumption DEF Crash, disk
  <2>7. ASSUME NEW f \in Files, TrackFileReturns(f)
        PROVE  RegistrationInv'
    BY <2>7 DEF TrackFileReturns, loop, pool
  <2>8. ASSUME NEW f \in Files, DelTrackFile(f)
        PROVE  RegistrationInv'
    <3>1. /\ IsFiniteSet(trackFiles \ {f})
          /\ Cardinality(trackFiles \ {f}) <= Cardinality(trackFiles)
      BY FS_Subset, FS_RemoveElement
    <3>2. Cardinality(trackFiles) \in Nat /\ Cardinality(trackFiles \ {f}) \in Nat
      BY <3>1, FS_CardinalityType
    <3>3. IsFiniteSet(trackFiles') /\ Cardinality(trackFiles') <= MaxTrackThread
      BY <2>8, <3>1, <3>2, LimitAssumption DEF DelTrackFile
    <3>4. ASSUME NEW g \in Files
          PROVE  Owners(g)' <= (IF g \in trackFiles' THEN 1 ELSE 0)
      BY <2>8, <3>4 DEF DelTrackFile, loop
    <3> QED
      BY <3>3, <3>4
  <2>9. ASSUME NEW f \in Files, Handler(f)
        PROVE  RegistrationInv'
    BY <2>9 DEF Handler, HandlerWrites, HandlerDeletes, loop, pool, threads
  <2>10. CASE UNCHANGED vars
    BY <2>10 DEF vars
  <2> QED
    BY <2>1, <2>2, <2>3, <2>4, <2>5, <2>6, <2>7, <2>8, <2>9, <2>10
       DEF Next, Tracker, Thread
<1> QED
  BY <1>1, <1>2, TypeCorrect, PTL DEF Spec

(* No file ever has two goroutines.                                        *)
THEOREM NoDoubleThread == Spec => []OneThreadPerFile
<1>1. TypeOK /\ RegistrationInv => OneThreadPerFile
  BY DEF TypeOK, RegistrationInv, OneThreadPerFile, Owners, Threads
<1> QED
  BY <1>1, TypeCorrect, Registration, PTL

(* The names with a goroutine are registered, and while the loop is about  *)
(* to start one for cur there is still room for it.                        *)
LEMMA BusyFiles ==
  ASSUME TypeOK, RegistrationInv
  PROVE  LET busy == {f \in Files : Threads(f) > 0}
         IN  /\ IsFiniteSet(busy)
             /\ Cardinality(busy) <= MaxTrackThread
             /\ tpc = "spawn" => Cardinality(busy) < MaxTrackThread
<1> DEFINE busy == {f \in Files : Threads(f) > 0}
<1> USE DEF TypeOK, RegistrationInv, Owners, Threads
<1>1. busy \subseteq trackFiles
  OBVIOUS
<1>2. /\ IsFiniteSet(busy) /\ Cardinality(busy) <= Cardinality(trackFiles)
      /\ Cardinality(busy) \in Nat /\ Cardinality(trackFiles) \in Nat
  BY <1>1, FS_Subset, FS_CardinalityType
<1>3. ASSUME tpc = "spawn"
      PROVE  Cardinality(busy) < MaxTrackThread
  <2>1. busy \subseteq trackFiles \ {cur} /\ cur \in trackFiles
    BY <1>3
  <2>2. /\ IsFiniteSet(trackFiles \ {cur})
        /\ Cardinality(trackFiles \ {cur}) = Cardinality(trackFiles) - 1
    BY <2>1, FS_RemoveElement
  <2>3. Cardinality(busy) <= Cardinality(trackFiles \ {cur})
    BY <2>1, <2>2, FS_Subset
  <2> QED
    BY <1>2, <2>2, <2>3, LimitAssumption
<1> QED
  BY <1>2, <1>3, LimitAssumption

(* Never more than MaxTrackThread files are worked on.                     *)
THEOREM PoolNeverOverrun == Spec => []ThreadsBounded
<1>1. TypeOK /\ RegistrationInv => ThreadsBounded
  BY BusyFiles DEF ThreadsBounded
<1> QED
  BY <1>1, TypeCorrect, Registration, PTL

(* The cardinality the instance of KeyedWorkers uses is the one used here. *)
LEMMA SameCardinality ==
  ASSUME NEW S
  PROVE  Workers!Cardinality(S) = Cardinality(S)
  BY DEF Workers!Cardinality, Cardinality

(* Every step of the pool, the loop and the goroutines is a step of        *)
(* KeyedWorkers or leaves its variable alone.                              *)
THEOREM PoolImplementsWorkers == Spec => WorkersSpec
<1> DEFINE work == [f \in Files |-> Threads(f)]
<1>1. Init => Workers!Init
  BY DEF Init, Workers!Init, Threads
<1>2. TypeOK /\ RegistrationInv /\ RegistrationInv' /\ [Next]_vars
        => [Workers!Next]_work
  <2> SUFFICES ASSUME TypeOK, RegistrationInv, RegistrationInv', [Next]_vars
               PROVE  Workers!Next \/ work' = work
    OBVIOUS
  <2> USE DEF TypeOK
  <2>1. CASE UNCHANGED threads
    BY <2>1 DEF threads, Threads
  <2>2. CASE GoTrackFileThread
    <3>1. Threads(cur) = 0 /\ tpc = "spawn"
      BY <2>2 DEF GoTrackFileThread, RegistrationInv, Owners, Threads
    <3>2. Workers!Busy = {f \in Files : Threads(f) > 0}
      BY DEF Workers!Busy
    <3>3. Workers!Cardinality(Workers!Busy) < MaxTrackThread
      BY <3>1, <3>2, BusyFiles, SameCardinality
    <3>4. work' = [work EXCEPT ![cur] = 1]
      <4>1. \A f \in Files : Threads(f)' = IF f = cur THEN 1 ELSE Threads(f)
        BY <2>2, <3>1 DEF GoTrackFileThread, Threads
      <4> QED
        BY <4>1
    <3> QED
      BY <3>1, <3>3, <3>4 DEF Workers!Next, Workers!Start
  <2>3. CASE Crash
    BY <2>3 DEF Crash, Workers!Next, Workers!Restart, Threads
  <2>4. ASSUME NEW f \in Files, TrackFileReturns(f)
        PROVE  work' = work
    BY <2>4 DEF TrackFileReturns, Threads
  <2>5. ASSUME NEW f \in Files, DelTrackFile(f)
        PROVE  Workers!Next
    <3>1. Threads(f) = 1
      BY <2>5 DEF DelTrackFile, RegistrationInv, Owners, Threads
    <3>2. work' = [work EXCEPT ![f] = 0]
      <4>1. \A g \in Files : Threads(g)' = IF g = f THEN 0 ELSE Threads(g)
        BY <2>5, <3>1 DEF DelTrackFile, Threads
      <4> QED
        BY <4>1
    <3> QED
      BY <3>1, <3>2 DEF Workers!Next, Workers!Finish
  <2>6. CASE \/ ListTrackFiles \/ CheckRoom \/ StatNext \/ EndScan
             \/ AddTrackFile \/ AddTrackFileFails
             \/ TrackerPanic \/ TaskMgtRestart
             \/ (\E f \in Files : Handler(f)) \/ UNCHANGED vars
    <3>1. UNCHANGED threads
      BY <2>6 DEF ListTrackFiles, CheckRoom, StatNext, EndScan, AddTrackFile,
                  AddTrackFileFails, TrackerPanic, TaskMgtRestart, Handler,
                  HandlerWrites, HandlerDeletes, vars, threads
    <3> QED
      BY <3>1, <2>1
  <2> QED
    BY <2>2, <2>3, <2>4, <2>5, <2>6 DEF Next, Tracker, Thread
<1> QED
  BY <1>1, <1>2, TypeCorrect, Registration, PTL
     DEF Spec, WorkersSpec, Workers!Spec
=============================================================================
