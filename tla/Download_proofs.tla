--------------------------- MODULE Download_proofs ---------------------------
(***************************************************************************)
(* Theorems about the download handlers and fetchFiles() (Download), for   *)
(* any clients, any number of segments and of requests at once, and any    *)
(* crashes and failed calls.                                               *)
(***************************************************************************)
EXTENDS Download, TLAPS

(* A descriptor that still has a path has a file there.                    *)
OpenInv == \A c \in Clients : fd[c] # NoFile => files[fd[c]] # NoFile

TypeInv == TypeOK /\ OpenInv

(* What an answer carries was a file at its path, so it is well typed.     *)
LEMMA ServeType ==
  ASSUME TypeOK, NEW c \in Clients, NEW p \in Paths, Serve(c, p)
  PROVE  /\ code' \in [Clients -> {NoCode, 200, 404, 500}]
         /\ got' \in [Clients -> Contents \cup {NoFile}]
BY DEF TypeOK, Serve, Status

(* An error ends the request with its status.                              *)
LEMMA ErrorType ==
  ASSUME TypeOK, NEW c \in Clients, NEW n \in {404, 500}, Error(c, n)
  PROVE  /\ code' \in [Clients -> {NoCode, 200, 404, 500}]
         /\ got' \in [Clients -> Contents \cup {NoFile}]
         /\ pc' \in [Clients -> Steps \cup {"idle"}]
         /\ fd' \in [Clients -> Paths \cup {NoFile}]
BY DEF TypeOK, Error, Status, Finish, Goto

(* The count of faults keeps its bound.                                    *)
LEMMA FaultType ==
  ASSUME TypeOK, Fault \/ NoFault
  PROVE  faults' \in 0 .. MaxFaults
BY FaultsAssumption DEF TypeOK, Fault, NoFault

(* One file put at a path.                                                 *)
LEMMA PutType ==
  ASSUME NEW fs \in [Paths -> Contents \cup {NoFile}], NEW p \in Paths,
         NEW v \in Contents \cup {NoFile}
  PROVE  [fs EXCEPT ![p] = v] \in [Paths -> Contents \cup {NoFile}]
OBVIOUS

(* An open file whose path is removed has none.                            *)
LEMMA DetachType ==
  ASSUME TypeOK, NEW p \in Paths
  PROVE  Detach(p) \in [Clients -> Paths \cup {NoFile}]
BY DEF TypeOK, Detach

(* The file moved to the cache takes its open descriptors with it.         *)
LEMMA MoveType ==
  ASSUME TypeOK, NEW c \in Clients, Move(c)
  PROVE  TypeOK'
<1> USE DEF TypeOK
<1>1. faults' \in 0 .. MaxFaults
  BY FaultType DEF Move
<1>2. path[c] \in Paths /\ "cache" \in Paths
  BY DEF Paths
<1>3. files' \in [Paths -> Contents \cup {NoFile}]
  <2>1. files[path[c]] \in Contents \cup {NoFile}
    BY <1>2
  <2>2. [files EXCEPT ![path[c]] = NoFile, !["cache"] = files[path[c]]]
          \in [Paths -> Contents \cup {NoFile}]
    BY <1>2, <2>1
  <2> QED BY <2>2 DEF Move
<1>4. fd' \in [Clients -> Paths \cup {NoFile}]
  BY <1>2 DEF Move
<1>5. pc' \in [Clients -> Steps \cup {"idle"}]
  BY DEF Move, Goto, Steps
<1> QED BY <1>1, <1>3, <1>4, <1>5 DEF Move, locals

(* The initial state is well typed.                                        *)
LEMMA InitType == Init => TypeOK
<1> SUFFICES ASSUME Init PROVE TypeOK
  OBVIOUS
<1>1. SegmentList \in Contents
  BY DEF Contents
<1>2. files \in [Paths -> Contents \cup {NoFile}]
  BY <1>1 DEF Init
<1>3. 1 \in 1 .. Segments + 1 /\ faults \in 0 .. MaxFaults
  BY SegmentsAssumption, FaultsAssumption DEF Init
<1> QED BY <1>2, <1>3 DEF Init, TypeOK, Paths

(* Every step of fetchFiles keeps the types.                               *)
LEMMA FetchType ==
  ASSUME TypeInv, NEW c \in Clients, FetchFiles(c)
  PROVE  TypeOK'
<1> USE DEF TypeInv, TypeOK, disk, locals
<1>0. /\ "user" \in Paths /\ "home" \in Paths /\ {} \in Contents
      /\ \A s \in Steps : [pc EXCEPT ![c] = s] \in [Clients -> Steps \cup {"idle"}]
      /\ 1 \in 1 .. Segments + 1
  BY SegmentsAssumption DEF Paths, Contents
<1>1. CASE StatUser(c)
  BY <1>0, <1>1 DEF StatUser, Fetched, Goto, Steps
<1>2. CASE CreateUser(c)
  <2>1. faults' \in 0 .. MaxFaults
    BY <1>2, FaultType DEF CreateUser
  <2>2. CASE Error(c, 500) /\ UNCHANGED files
    BY <1>2, <2>1, <2>2, ErrorType DEF CreateUser
  <2>3. CASE /\ files' = [files EXCEPT !["user"] = {}]
             /\ fd' = [fd EXCEPT ![c] = "user"]
             /\ Goto(c, "owner") /\ UNCHANGED <<code, got>>
    <3>1. files' \in [Paths -> Contents \cup {NoFile}]
      BY <1>0, <2>3, PutType
    <3>2. fd' \in [Clients -> Paths \cup {NoFile}]
      BY <1>0, <2>3
    <3>3. pc' \in [Clients -> Steps \cup {"idle"}]
      BY <1>0, <2>3 DEF Goto, Steps
    <3> QED BY <1>2, <2>1, <2>3, <3>1, <3>2, <3>3 DEF CreateUser
  <2> QED BY <1>2, <2>2, <2>3 DEF CreateUser
<1>3. CASE FindOwner(c)
  <2>1. faults' \in 0 .. MaxFaults
    BY <1>3, FaultType DEF FindOwner
  <2>2. CASE Error(c, 500) /\ UNCHANGED <<path, seg>>
    BY <1>3, <2>1, <2>2, ErrorType DEF FindOwner
  <2>3. CASE ~(Error(c, 500) /\ UNCHANGED <<path, seg>>)
    BY <1>3, <2>1, <2>3, <1>0 DEF FindOwner, Fetched, Goto, Steps
  <2> QED BY <2>2, <2>3
<1>4. CASE Restore(c)
  <2>1. faults' \in 0 .. MaxFaults
    BY <1>4, FaultType DEF Restore
  <2>2. CASE Fault /\ RemoveSegments /\ Error(c, 500) /\ UNCHANGED seg
    BY <1>4, <2>1, <2>2, ErrorType DEF Restore, RemoveSegments
  <2>3. CASE seg[c] <= Segments /\ segs' = segs \cup {seg[c]}
             /\ seg' = [seg EXCEPT ![c] = @ + 1] /\ UNCHANGED <<pc, fd, code, got>>
    <3>1. seg[c] \in SegmentList /\ seg[c] + 1 \in 1 .. Segments + 1
      BY <2>3, SegmentsAssumption DEF SegmentList
    <3> QED BY <1>4, <2>1, <2>3, <3>1 DEF Restore
  <2>4. CASE seg' = [seg EXCEPT ![c] = 1] /\ Goto(c, "write")
             /\ UNCHANGED <<segs, fd, code, got>>
    BY <1>4, <2>1, <2>4, <1>0 DEF Restore, Goto, Steps
  <2> QED BY <1>4, <2>2, <2>3, <2>4 DEF Restore
<1>5. CASE Write(c)
  <2>1. faults' \in 0 .. MaxFaults
    BY <1>5, FaultType DEF Write
  <2>2. seg[c] \in SegmentList /\ seg[c] + 1 \in 1 .. Segments + 1
    BY <1>5, SegmentsAssumption DEF Write, SegmentList
  <2>3. CASE seg[c] \in segs
    <3>1. files' \in [Paths -> Contents \cup {NoFile}]
      <4>1. CASE UNCHANGED files
        BY <4>1
      <4>2. CASE files' = [p \in Paths |->
                   IF p = fd[c] THEN files[p] \cup {seg[c]} ELSE files[p]]
        <5>1. ASSUME NEW p \in Paths, p = fd[c]
              PROVE  files[p] \cup {seg[c]} \in Contents
          <6>1. files[p] \in Contents
            BY <5>1, NoFileAssumption DEF OpenInv
          <6> QED BY <6>1, <2>2 DEF Contents
        <5> QED BY <4>2, <5>1
      <4> QED BY <1>5, <2>3, <4>1, <4>2 DEF Write
    <3>2. seg' = [seg EXCEPT ![c] = seg[c] + 1]
      BY <1>5, <2>3 DEF Write
    <3>3. seg' \in [Clients -> 1 .. Segments + 1]
      BY <2>2, <3>2
    <3>4. UNCHANGED <<up, pc, fd>> /\ UNCHANGED <<chain, segs, path, whole, code, got>>
      BY <1>5, <2>3 DEF Write
    <3> HIDE <1>5, <2>3
    <3> QED BY <2>1, <3>1, <3>3, <3>4
  <2>4. CASE seg[c] \notin segs
    <3>1. Die /\ UNCHANGED <<files, seg>>
          /\ UNCHANGED <<chain, segs, path, whole, code, got>>
      BY <1>5, <2>4 DEF Write
    <3>2. up' \in BOOLEAN /\ pc' \in [Clients -> Steps \cup {"idle"}]
          /\ fd' \in [Clients -> Paths \cup {NoFile}]
      BY <3>1 DEF Die
    <3> QED BY <2>1, <3>1, <3>2
  <2> QED BY <2>3, <2>4
<1>6. CASE Written(c)
  BY <1>0, <1>6 DEF Written, RemoveSegments, Fetched, Goto, Steps
<1> QED BY <1>1, <1>2, <1>3, <1>4, <1>5, <1>6 DEF FetchFiles

(* Every step keeps the types.                                             *)
LEMMA TypeStep == TypeInv /\ [Next]_vars => TypeOK'
<1> SUFFICES ASSUME TypeInv, [Next]_vars PROVE TypeOK'
  OBVIOUS
<1> USE DEF TypeInv, TypeOK, disk, locals
<1>0. /\ "user" \in Paths /\ "cache" \in Paths /\ {} \in Contents
      /\ SegmentList \in Contents
      /\ \A n \in Nat : n < Segments => 1 .. n \in Contents
  BY SegmentsAssumption DEF Paths, Contents, SegmentList
<1>1. ASSUME NEW c \in Clients, Begin(c) PROVE TypeOK'
  BY <1>1 DEF Begin, Goto, Steps
<1>2. ASSUME NEW c \in Clients, Handle(c) PROVE TypeOK'
  <2>1. CASE CacheHit(c)
    <3>1. pc' \in [Clients -> Steps \cup {"idle"}]
          /\ fd' \in [Clients -> Paths \cup {NoFile}]
      BY <2>1 DEF CacheHit, Finish, Goto
    <3> QED BY <2>1, <3>1, <1>0, ServeType DEF CacheHit
  <2>2. CASE CacheEmpty(c)
    <3>1. pc' \in [Clients -> Steps \cup {"idle"}]
      BY <2>2 DEF CacheEmpty, AfterCache, Goto, Steps
    <3> QED BY <2>2, <3>1, <1>0, PutType, DetachType DEF CacheEmpty
  <2>3. CASE CacheMiss(c)
    <3>1. pc' \in [Clients -> Steps \cup {"idle"}]
      BY <2>3 DEF CacheMiss, AfterCache, Goto, Steps
    <3> QED BY <2>3, <3>1 DEF CacheMiss, Status
  <2>4. CASE Query(c)
    <3>1. faults' \in 0 .. MaxFaults
      BY <2>4, FaultType DEF Query
    <3>2. CASE UNCHANGED whole /\ \E n \in {404, 500} : Error(c, n)
      BY <2>4, <3>1, <3>2, ErrorType DEF Query
    <3>3. CASE /\ whole' = [whole EXCEPT ![c] = (chain = "stored")]
               /\ Goto(c, IF c \in Opens THEN "cache" ELSE "peers")
               /\ UNCHANGED <<fd, code, got>>
      BY <2>4, <3>1, <3>3 DEF Query, Goto, Steps
    <3> QED BY <2>4, <3>2, <3>3 DEF Query
  <2>5. CASE PeerSends(c)
    BY <2>5, <1>0, PutType DEF PeerSends, Goto, Steps
  <2>6. CASE PeersFail(c)
    <3>1. faults' \in 0 .. MaxFaults
      BY <2>6, FaultType DEF PeersFail
    <3>2. files' \in [Paths -> Contents \cup {NoFile}]
      <4>1. CASE UNCHANGED files
        BY <4>1
      <4>2. CASE \E n \in 0 .. Segments - 1 : files' = [files EXCEPT !["user"] = 1 .. n]
        <5>1. PICK n \in 0 .. Segments - 1 : files' = [files EXCEPT !["user"] = 1 .. n]
          BY <4>2
        <5>2. 1 .. n \in Contents
          BY <1>0, SegmentsAssumption
        <5> QED BY <1>0, <5>1, <5>2, PutType
      <4> QED BY <2>6, <4>1, <4>2 DEF PeersFail
    <3>3. CASE whole[c]
      BY <2>6, <3>1, <3>2, <3>3 DEF PeersFail, Goto, Steps
    <3>4. CASE ~whole[c]
      <4>1. PICK n \in {404, 500} : Error(c, n)
        BY <2>6, <3>4 DEF PeersFail
      <4> QED BY <2>6, <3>1, <3>2, <4>1, ErrorType DEF PeersFail
    <3> QED BY <3>3, <3>4
  <2>7. CASE FetchFiles(c)
    BY <2>7, FetchType
  <2>8. CASE Send(c)
    <3>1. pc' \in [Clients -> Steps \cup {"idle"}]
      BY <2>8 DEF Send, Goto, Steps
    <3> QED BY <2>8, <3>1, ServeType DEF Send
  <2>9. CASE OpenStat(c)
    <3>1. path[c] \in Paths
      OBVIOUS
    <3>2. CASE files[path[c]] \in {NoFile, {}}
      <4>1. files' \in [Paths -> Contents \cup {NoFile}]
        BY <2>9, <3>1, <3>2, PutType DEF OpenStat
      <4>2. fd' \in [Clients -> Paths \cup {NoFile}]
        BY <2>9, <3>1, <3>2, DetachType DEF OpenStat
      <4>3. /\ pc' \in [Clients -> Steps \cup {"idle"}]
            /\ code' \in [Clients -> {NoCode, 200, 404, 500}]
        BY <2>9, <3>2 DEF OpenStat, Goto, Status
      <4> QED BY <2>9, <3>2, <4>1, <4>2, <4>3 DEF OpenStat
    <3>3. CASE files[path[c]] \notin {NoFile, {}}
      BY <2>9, <3>3 DEF OpenStat, Goto, Steps
    <3> QED BY <3>2, <3>3
  <2>10. CASE Move(c)
    BY <2>10, MoveType
  <2>11. CASE OpenRead(c)
    <3>1. pc' \in [Clients -> Steps \cup {"idle"}]
          /\ fd' \in [Clients -> Paths \cup {NoFile}]
      BY <2>11 DEF OpenRead, Finish, Goto
    <3>2. code' \in [Clients -> {NoCode, 200, 404, 500}]
          /\ got' \in [Clients -> Contents \cup {NoFile}]
      <4>1. CASE Status(c, 500) /\ UNCHANGED got
        BY <4>1 DEF Status
      <4>2. CASE Serve(c, path[c])
        BY <4>2, ServeType
      <4> QED BY <2>11, <4>1, <4>2 DEF OpenRead
    <3> QED BY <2>11, <3>1, <3>2 DEF OpenRead
  <2> QED BY <1>2, <2>1, <2>2, <2>3, <2>4, <2>5, <2>6, <2>7, <2>8, <2>9, <2>10,
             <2>11 DEF Handle
<1>3. CASE OrderCompletes
  BY <1>3 DEF OrderCompletes
<1>4. CASE Evict
  BY <1>0, <1>4, PutType, DetachType DEF Evict
<1>5. CASE Crash
  BY <1>5, FaultType DEF Crash, Die
<1>6. CASE Restart
  BY <1>6 DEF Restart
<1>7. CASE UNCHANGED vars
  BY <1>7 DEF vars
<1> QED BY <1>1, <1>2, <1>3, <1>4, <1>5, <1>6, <1>7 DEF Next

-----------------------------------------------------------------------------
(* Open files                                                              *)

(* A path that is given a file, or keeps it, with every descriptor.        *)
LEMMA OpenKept ==
  ASSUME OpenInv, UNCHANGED fd, \A p \in Paths : files[p] # NoFile => files'[p] # NoFile,
         TypeOK
  PROVE  OpenInv'
BY DEF OpenInv, TypeOK

(* A request that ends closes its file; nothing else happens to the files. *)
LEMMA OpenClosed ==
  ASSUME OpenInv, TypeOK, UNCHANGED files, NEW c \in Clients,
         fd' = [fd EXCEPT ![c] = NoFile]
  PROVE  OpenInv'
BY DEF OpenInv, TypeOK

(* Removing a path takes it from the descriptors it had.                   *)
LEMMA OpenRemoved ==
  ASSUME OpenInv, TypeOK, NEW p \in Paths,
         files' = [files EXCEPT ![p] = NoFile], fd' = Detach(p)
  PROVE  OpenInv'
BY DEF OpenInv, TypeOK, Detach

(* Every step keeps each descriptor with a path on a file of that path.    *)
LEMMA OpenStep == TypeInv /\ [Next]_vars => OpenInv'
<1> SUFFICES ASSUME TypeInv, [Next]_vars PROVE OpenInv'
  OBVIOUS
<1> USE DEF TypeInv, disk, locals
<1>0. "user" \in Paths /\ "cache" \in Paths /\ NoFile \notin Paths
      /\ SegmentList # NoFile /\ {} # NoFile
      /\ \A n \in 0 .. Segments - 1 : 1 .. n # NoFile
  BY NoFileAssumption, SegmentsAssumption DEF Paths, Contents, SegmentList
<1>1. ASSUME NEW c \in Clients, Begin(c) PROVE OpenInv'
  BY <1>1, OpenKept DEF Begin
<1>2. ASSUME NEW c \in Clients, CacheHit(c) \/ Query(c) \/ Restore(c) \/ OpenRead(c)
                                   \/ FindOwner(c) \/ Written(c)
      PROVE  OpenInv'
  <2>1. UNCHANGED files
    BY <1>2 DEF CacheHit, Query, Restore, OpenRead, FindOwner, Written
  <2>2. UNCHANGED fd \/ fd' = [fd EXCEPT ![c] = NoFile]
    BY <1>2 DEF CacheHit, Query, Restore, OpenRead, FindOwner, Written, Error, Finish
  <2> QED BY <2>1, <2>2, OpenKept, OpenClosed
<1>3. ASSUME NEW c \in Clients, CacheMiss(c) \/ StatUser(c) \/ Send(c)
      PROVE  OpenInv'
  BY <1>3, OpenKept DEF CacheMiss, StatUser, Send
<1>4. ASSUME NEW c \in Clients, CacheEmpty(c) PROVE OpenInv'
  BY <1>0, <1>4, OpenRemoved DEF CacheEmpty
<1>5. ASSUME NEW c \in Clients, PeerSends(c) PROVE OpenInv'
  BY <1>0, <1>5, OpenKept DEF PeerSends, TypeOK
<1>6. ASSUME NEW c \in Clients, PeersFail(c) PROVE OpenInv'
  <2>1. \A p \in Paths : files[p] # NoFile => files'[p] # NoFile
    BY <1>0, <1>6 DEF PeersFail, TypeOK
  <2>2. CASE UNCHANGED fd
    BY <2>1, <2>2, OpenKept
  <2>3. CASE fd' = [fd EXCEPT ![c] = NoFile]
    BY <2>1, <2>3 DEF OpenInv, TypeOK
  <2> QED BY <1>6, <2>2, <2>3 DEF PeersFail, Error, Finish
<1>7. ASSUME NEW c \in Clients, CreateUser(c) PROVE OpenInv'
  <2>1. CASE Error(c, 500) /\ UNCHANGED files
    BY <2>1, OpenClosed DEF Error, Finish
  <2>2. CASE files' = [files EXCEPT !["user"] = {}] /\ fd' = [fd EXCEPT ![c] = "user"]
    BY <1>0, <2>2 DEF OpenInv, TypeOK
  <2> QED BY <1>7, <2>1, <2>2 DEF CreateUser
<1>8. ASSUME NEW c \in Clients, Write(c) PROVE OpenInv'
  <2>1. CASE Die /\ UNCHANGED files
    BY <2>1 DEF Die, OpenInv
  <2>2. CASE UNCHANGED <<files, fd>>
    BY <2>2 DEF OpenInv
  <2>3. CASE files' = [p \in Paths |->
                 IF p = fd[c] THEN files[p] \cup {seg[c]} ELSE files[p]]
             /\ UNCHANGED fd
    <3>1. TypeOK'
      BY <1>8, FetchType DEF FetchFiles
    <3>2. ASSUME NEW p \in Paths, files[p] # NoFile PROVE files'[p] # NoFile
      <4>1. seg[c] \in SegmentList
        BY <1>8, SegmentsAssumption DEF Write, TypeOK, SegmentList
      <4>2. files[p] \in Contents
        BY <3>2 DEF TypeOK
      <4>3. files[p] \cup {seg[c]} \in Contents
        BY <4>1, <4>2 DEF Contents
      <4> QED BY <2>3, <3>2, <4>3, NoFileAssumption
    <3> QED BY <2>3, <3>2, OpenKept
  <2> QED BY <1>8, <2>1, <2>2, <2>3 DEF Write
<1>9. ASSUME NEW c \in Clients, OpenStat(c) PROVE OpenInv'
  <2>1. path[c] \in Paths
    BY DEF TypeOK
  <2> QED BY <1>9, <2>1, OpenRemoved, OpenKept DEF OpenStat
<1>10. ASSUME NEW c \in Clients, Move(c) PROVE OpenInv'
  <2>1. CASE UNCHANGED <<files, fd>>
    BY <2>1 DEF OpenInv
  <2>2. CASE ~UNCHANGED <<files, fd>>
    <3> DEFINE p == path[c]
    <3>1. /\ files[p] # NoFile /\ p \in Paths
          /\ files' = [files EXCEPT ![p] = NoFile, !["cache"] = files[p]]
          /\ fd' = [d \in Clients |->
                      IF fd[d] = p THEN "cache"
                      ELSE IF fd[d] = "cache" THEN NoFile ELSE fd[d]]
      BY <1>10, <2>2 DEF Move, TypeOK
    <3>2. files'["cache"] = files[p]
          /\ \A q \in Paths \ {p, "cache"} : files'[q] = files[q]
      BY <1>0, <3>1 DEF TypeOK
    <3> HIDE DEF p
    <3>3. ASSUME NEW d \in Clients, fd'[d] # NoFile PROVE files'[fd'[d]] # NoFile
      BY <3>1, <3>2, <3>3 DEF OpenInv, TypeOK
    <3> QED BY <3>3 DEF OpenInv
  <2> QED BY <2>1, <2>2
<1>11. CASE OrderCompletes \/ Restart \/ UNCHANGED vars
  BY <1>11, OpenKept DEF OrderCompletes, Restart, vars
<1>12. CASE Evict
  BY <1>0, <1>12, OpenRemoved DEF Evict
<1>13. CASE Crash
  BY <1>13 DEF Crash, Die, OpenInv
<1> QED BY <1>1, <1>2, <1>3, <1>4, <1>5, <1>6, <1>7, <1>8, <1>9, <1>10, <1>11,
           <1>12, <1>13 DEF Next, Handle, FetchFiles

(* No descriptor is open at first.                                         *)
LEMMA InitOpen == Init => OpenInv
  BY DEF Init, OpenInv

(* The files, the descriptors and the requests keep their types.  Writing  *)
(* through a descriptor makes a file of what is there, so the proof needs  *)
(* that a descriptor with a path has a file at it, whichever request or    *)
(* eviction has moved or removed files since it was opened.                *)
THEOREM TypeCorrect == Spec => []TypeOK
<1>1. TypeInv /\ [Next]_vars => TypeInv'
  BY TypeStep, OpenStep DEF TypeInv
<1>2. Init => TypeInv
  BY InitType, InitOpen DEF TypeInv
<1>3. TypeInv => TypeOK
  BY DEF TypeInv
<1> QED BY <1>1, <1>2, <1>3, PTL DEF Spec

-----------------------------------------------------------------------------

(* A step that takes a request out of fetchFiles with the process up has   *)
(* removed the restored segments.                                          *)
LEMMA LeavingRemoves ==
  ASSUME TypeOK, [Next]_vars, NEW c \in Clients,
         pc[c] \in Fetching, pc'[c] \notin Fetching, up'
  PROVE  segs' = {}
<1> USE DEF Fetching
<1>1. ASSUME NEW d \in Clients, Begin(d) \/ Handle(d) PROVE segs' = {}
  <2>1. CASE d # c
    <3>1. UNCHANGED pc \/ Die \/ \E step : Goto(d, step)
      <4>1. CASE Begin(d) \/ CacheHit(d) \/ CacheEmpty(d) \/ CacheMiss(d) \/ Query(d)
        BY <4>1 DEF Begin, CacheHit, CacheEmpty, CacheMiss, Query, Error, Finish
      <4>2. CASE PeerSends(d) \/ PeersFail(d)
        BY <4>2 DEF PeerSends, PeersFail, Error, Finish
      <4>3. CASE StatUser(d) \/ CreateUser(d) \/ FindOwner(d)
        BY <4>3 DEF StatUser, CreateUser, FindOwner, Fetched, Error, Finish
      <4>4. CASE Restore(d) \/ Write(d) \/ Written(d)
        BY <4>4 DEF Restore, Write, Written, Fetched, Error, Finish
      <4>5. CASE Send(d) \/ OpenStat(d) \/ Move(d) \/ OpenRead(d)
        BY <4>5 DEF Send, OpenStat, Move, OpenRead, Finish
      <4> QED BY <1>1, <4>1, <4>2, <4>3, <4>4, <4>5 DEF Handle, FetchFiles
    <3>2. \A step : Goto(d, step) => pc'[c] = pc[c]
      BY <2>1 DEF Goto, TypeOK
    <3> QED BY <3>1, <3>2 DEF Die
  <2>2. CASE d = c
    <3>1. Restore(c) \/ Write(c) \/ Written(c)
      BY <1>1, <2>2 DEF At, Begin, Handle, CacheHit, CacheEmpty, CacheMiss,
         Query, PeerSends, PeersFail, FetchFiles, Send, OpenStat, Move, OpenRead,
         StatUser, CreateUser, FindOwner
    <3>2. CASE Restore(c)
      BY <3>2 DEF Restore, RemoveSegments, Goto, TypeOK
    <3>3. CASE Write(c)
      BY <3>3 DEF Write, Die
    <3>4. CASE Written(c)
      BY <3>4 DEF Written, RemoveSegments
    <3> QED BY <3>1, <3>2, <3>3, <3>4
  <2> QED BY <2>1, <2>2
<1>2. CASE OrderCompletes \/ Evict \/ Restart \/ Crash \/ UNCHANGED vars
  BY <1>2 DEF OrderCompletes, Evict, Restart, Crash, Die, vars
<1> QED BY <1>1, <1>2 DEF Next

(* No return of fetchFiles leaves a restored segment in the file directory *)
(* while the process runs.                                                 *)
THEOREM NothingLeftOver == Spec => NoLeftovers
<1>1. TypeOK /\ [Next]_vars =>
        [\A c \in Clients :
           pc[c] \in Fetching /\ pc'[c] \notin Fetching /\ up' => segs' = {}]_vars
  BY LeavingRemoves
<1>2. Spec => []TypeOK /\ [][Next]_vars
  BY TypeCorrect, PTL DEF Spec
<1> QED BY <1>1, <1>2, PTL DEF NoLeftovers
=============================================================================
