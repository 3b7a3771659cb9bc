------------------------------ MODULE Download ------------------------------
(***************************************************************************)
(* Downloads of ONE file: the download branch of getHandle() and           *)
(* downloadFileHandle(), which agree, openFileHandle(), and fetchFiles(),  *)
(* which rebuilds a file from the miners' fragments.  Every request for    *)
(* the file works on the same paths, <file dir>/<fid> and the segments     *)
(* next to it, and on the same cache entry; nothing locks them.  A file is *)
(* the set of the segments it holds: a missing one is cut off, or a hole.  *)
(***************************************************************************)
EXTENDS Integers, FiniteSets

CONSTANTS
  Clients,      \* clients, each with at most one request at a time
  Opens,        \* the clients that use openFileHandle
  Segments,     \* segments of the file
  MaxInFlight,  \* requests handled at once, at most max_concurrent_get
  MaxFaults,    \* bound on crashes, failed calls and failed transfers
  NoFile

ASSUME OpensAssumption == Opens \subseteq Clients
ASSUME SegmentsAssumption == Segments \in Nat \ {0}
ASSUME InFlightAssumption == MaxInFlight \in Nat \ {0}
ASSUME FaultsAssumption == MaxFaults \in Nat

SegmentList == 1 .. Segments
Contents == SUBSET SegmentList

VARIABLES
  chain,    \* "order" pending, file "stored", or "none"
  files,    \* files[p]: the file at path p, or NoFile
  segs,     \* restored segments in the file directory
  up,       \* the process runs
  pc,       \* pc[c]: the next step of client c's request
  fd,       \* fd[c]: the path its open file has by now, or NoFile
  seg,      \* seg[c]: the next segment to restore or to write
  path,     \* path[c]: the path to serve
  whole,    \* whole[c]: `completion`, QueryFile found the file
  code,     \* code[c]: the status of the answer under way
  got,      \* history: got[c]: what the last answer carried, or NoFile
  faults

disk == <<files, segs>>
locals == <<seg, path, whole>>
vars == <<chain, disk, up, pc, fd, locals, code, got, faults>>

(* <file dir>/<fid>; an owner's <account>/<fid>/<fid>; the cache's file.   *)
Paths == {"user", "home", "cache"}
NoCode == 0

ASSUME NoFileAssumption == \A x \in Contents \cup Paths : x # NoFile

Steps == {"cache", "query", "peers", "stat", "create", "owner", "restore",
          "write", "send", "open", "move", "read"}

TypeOK ==
  /\ chain \in {"none", "order", "stored"}
  /\ files \in [Paths -> Contents \cup {NoFile}]
  /\ segs \subseteq SegmentList
  /\ up \in BOOLEAN
  /\ pc \in [Clients -> Steps \cup {"idle"}]
  /\ fd \in [Clients -> Paths \cup {NoFile}]
  /\ seg \in [Clients -> 1 .. Segments + 1]
  /\ path \in [Clients -> Paths]
  /\ whole \in [Clients -> BOOLEAN]
  /\ code \in [Clients -> {NoCode, 200, 404, 500}]
  /\ got \in [Clients -> Contents \cup {NoFile}]
  /\ faults \in 0 .. MaxFaults

(* The owner's copy is there when the upload could not move it to the      *)
(* cache; the order may still be pending.                                  *)
Init ==
  /\ chain \in {"none", "order", "stored"}
  /\ files \in [Paths -> {NoFile, SegmentList}]
  /\ files["user"] = NoFile /\ (files["cache"] = NoFile \/ files["home"] = NoFile)
  /\ segs = {} /\ up = TRUE
  /\ pc = [c \in Clients |-> "idle"] /\ fd = [c \in Clients |-> NoFile]
  /\ seg = [c \in Clients |-> 1] /\ path = [c \in Clients |-> "user"]
  /\ whole = [c \in Clients |-> FALSE]
  /\ code = [c \in Clients |-> NoCode] /\ got = [c \in Clients |-> NoFile]
  /\ faults = 0

-----------------------------------------------------------------------------

Fault == faults < MaxFaults /\ faults' = faults + 1
NoFault == UNCHANGED faults

At(c, step) == up /\ pc[c] = step
Goto(c, step) == pc' = [pc EXCEPT ![c] = step]
InFlight == {c \in Clients : pc[c] # "idle"}

(* gin keeps the first status of a response and appends every body.        *)
Status(c, n) ==
  code' = [code EXCEPT ![c] = IF @ = NoCode THEN n ELSE @]

Finish(c) == Goto(c, "idle") /\ fd' = [fd EXCEPT ![c] = NoFile]

Error(c, n) == Finish(c) /\ Status(c, n) /\ UNCHANGED got

(* c.File or c.Data of the file at path p.                                 *)
Serve(c, p) ==
  IF files[p] = NoFile
  THEN Status(c, 404) /\ UNCHANGED got
  ELSE Status(c, 200) /\ got' = [got EXCEPT ![c] = files[p]]

(* os.Remove: an open file lives on without a path.                        *)
Detach(p) == [c \in Clients |-> IF fd[c] = p THEN NoFile ELSE fd[c]]

Begin(c) ==
  /\ At(c, "idle") /\ Cardinality(InFlight) < MaxInFlight
  /\ Goto(c, IF c \in Opens THEN "query" ELSE "cache")
  /\ code' = [code EXCEPT ![c] = NoCode] /\ got' = [got EXCEPT ![c] = NoFile]
  /\ UNCHANGED <<chain, disk, up, fd, locals, faults>>

AfterCache(c) == IF c \in Opens THEN "peers" ELSE "query"

(* GetCacheRecord hits: the cached file is the answer, unless it is empty: *)
(* then it is removed.                                                     *)
CacheHit(c) ==
  /\ At(c, "cache") /\ files["cache"] \notin {NoFile, {}}
  /\ Finish(c) /\ Serve(c, "cache")
  /\ UNCHANGED <<chain, disk, up, locals, faults>>

CacheEmpty(c) ==
  /\ At(c, "cache") /\ files["cache"] = {}
  /\ files' = [files EXCEPT !["cache"] = NoFile]
  /\ fd' = Detach("cache")
  /\ Goto(c, AfterCache(c))
  /\ UNCHANGED <<chain, segs, up, locals, code, got, faults>>

(* A miss: the download handlers answer 404, and go on.                    *)
CacheMiss(c) ==
  /\ At(c, "cache") /\ files["cache"] = NoFile
  /\ IF c \in Opens THEN UNCHANGED code ELSE Status(c, 404)
  /\ Goto(c, AfterCache(c))
  /\ UNCHANGED <<chain, disk, up, fd, locals, got, faults>>

(* QueryFile, then QueryDealMap.                                           *)
Query(c) ==
  /\ At(c, "query")
  /\ \/ Fault /\ Error(c, 500) /\ UNCHANGED whole
     \/ NoFault /\ chain = "none" /\ Error(c, 404) /\ UNCHANGED whole
     \/ /\ NoFault /\ chain # "none"
        /\ whole' = [whole EXCEPT ![c] = (chain = "stored")]
        /\ Goto(c, IF c \in Opens THEN "cache" ELSE "peers")
        /\ UNCHANGED <<fd, code, got>>
  /\ UNCHANGED <<chain, disk, up, seg, path>>

(* Another gateway sends the whole file ...                                *)
PeerSends(c) ==
  /\ At(c, "peers")
  /\ files' = [files EXCEPT !["user"] = SegmentList]
  /\ path' = [path EXCEPT ![c] = "user"]
  /\ Goto(c, "send")
  /\ UNCHANGED <<chain, segs, up, fd, seg, whole, code, got, faults>>

(* ... or none has it; a transfer that breaks off leaves a part behind.    *)
(* A pending order cannot be fetched from the miners: getHandle answers    *)
(* 500, the others 404.                                                    *)
PeersFail(c) ==
  /\ At(c, "peers")
  /\ \/ NoFault /\ UNCHANGED files
     \/ /\ Fault /\ files["user"] = NoFile
        /\ \E n \in 0 .. Segments - 1 :
             files' = [files EXCEPT !["user"] = 1 .. n]
  /\ IF whole[c]
     THEN Goto(c, "stat") /\ UNCHANGED <<fd, code, got>>
     ELSE \E n \in {404} \cup (IF c \in Opens THEN {} ELSE {500}) : Error(c, n)
  /\ UNCHANGED <<chain, segs, up, locals>>

-----------------------------------------------------------------------------
(* fetchFiles                                                              *)

(* What follows fetchFiles.                                                *)
Fetched(c) == Goto(c, IF c \in Opens THEN "open" ELSE "send")

(* A file of that name is taken for the file.                              *)
StatUser(c) ==
  /\ At(c, "stat")
  /\ IF files["user"] = NoFile THEN Goto(c, "create") ELSE Fetched(c)
  /\ path' = [path EXCEPT ![c] = "user"]
  /\ UNCHANGED <<chain, disk, up, fd, seg, whole, code, got, faults>>

(* os.Create, which truncates what another request has made meanwhile.     *)
CreateUser(c) ==
  /\ At(c, "create")
  /\ \/ /\ NoFault
        /\ files' = [files EXCEPT !["user"] = {}]
        /\ fd' = [fd EXCEPT ![c] = "user"]
        /\ Goto(c, "owner") /\ UNCHANGED <<code, got>>
     \/ Fault /\ Error(c, 500) /\ UNCHANGED files
  /\ UNCHANGED <<chain, segs, up, locals>>

(* QueryFile again, for the owners; an owner's copy ends the search.  The  *)
(* file just created stays in each case.                                   *)
FindOwner(c) ==
  /\ At(c, "owner")
  /\ \/ Fault /\ Error(c, 500) /\ UNCHANGED <<path, seg>>
     \/ /\ NoFault /\ files["home"] # NoFile
        /\ path' = [path EXCEPT ![c] = "home"]
        /\ fd' = [fd EXCEPT ![c] = NoFile]
        /\ Fetched(c) /\ UNCHANGED <<seg, code, got>>
     \/ /\ NoFault /\ files["home"] = NoFile
        /\ seg' = [seg EXCEPT ![c] = 1]
        /\ Goto(c, "restore") /\ UNCHANGED <<path, fd, code, got>>
  /\ UNCHANGED <<chain, disk, up, whole>>

(* The deferred removal of segments and fragments, by their shared names.  *)
RemoveSegments == segs' = {}

(* The bounds check one off.                                               *)
RestoreTooFar(c) ==
  /\ At(c, "restore") /\ seg[c] <= Segments + 1
  /\ seg' = [seg EXCEPT ![c] = @ + 1]
  /\ IF seg[c] > Segments THEN Goto(c, "write") ELSE UNCHANGED pc
  /\ segs' = segs \cup ({seg[c]} \cap SegmentList)
  /\ UNCHANGED <<chain, files, up, fd, path, whole, code, got, faults>>

(* A failed restore returns before the removal is deferred.                *)
RestoreKeeps(c) ==
  /\ At(c, "restore")
  /\ \/ /\ NoFault /\ seg[c] <= Segments
        /\ segs' = segs \cup {seg[c]}
        /\ seg' = [seg EXCEPT ![c] = @ + 1]
        /\ UNCHANGED <<pc, fd, code, got>>
     \/ /\ NoFault /\ seg[c] > Segments
        /\ seg' = [seg EXCEPT ![c] = 1]
        /\ Goto(c, "write") /\ UNCHANGED <<segs, fd, code, got>>
     \/ Fault /\ UNCHANGED segs /\ Error(c, 500) /\ UNCHANGED seg
  /\ UNCHANGED <<chain, files, up, path, whole>>

(* Fragments from the miners, RSRestore of the next segment; too few       *)
(* fragments are an error.                                                 *)
Restore(c) ==
  /\ At(c, "restore")
  /\ \/ /\ NoFault /\ seg[c] <= Segments
        /\ segs' = segs \cup {seg[c]}
        /\ seg' = [seg EXCEPT ![c] = @ + 1]
        /\ UNCHANGED <<pc, fd, code, got>>
     \/ /\ NoFault /\ seg[c] > Segments
        /\ seg' = [seg EXCEPT ![c] = 1]
        /\ Goto(c, "write") /\ UNCHANGED <<segs, fd, code, got>>
     \/ Fault /\ RemoveSegments /\ Error(c, 500) /\ UNCHANGED seg
  /\ UNCHANGED <<chain, files, up, path, whole>>

(* Every goroutine ends with the process; files that are open stay.        *)
Die ==
  /\ up' = FALSE
  /\ pc' = [c \in Clients |-> "idle"]
  /\ fd' = [c \in Clients |-> NoFile]

(* One segment after the other goes into the open file; a segment that is  *)
(* gone ends the process (os.Exit, which runs no deferred call).  Nobody   *)
(* looks at the error of a write.                                          *)
Write(c) ==
  /\ At(c, "write") /\ seg[c] <= Segments
  /\ IF seg[c] \in segs
     THEN /\ \/ /\ NoFault
                /\ files' = [p \in Paths |->
                     IF p = fd[c] THEN files[p] \cup {seg[c]} ELSE files[p]]
             \/ Fault /\ UNCHANGED files
          /\ seg' = [seg EXCEPT ![c] = @ + 1]
          /\ UNCHANGED <<up, pc, fd>>
     ELSE NoFault /\ Die /\ UNCHANGED <<files, seg>>
  /\ UNCHANGED <<chain, segs, path, whole, code, got>>

Written(c) ==
  /\ At(c, "write") /\ seg[c] > Segments
  /\ RemoveSegments
  /\ fd' = [fd EXCEPT ![c] = NoFile]
  /\ Fetched(c)
  /\ UNCHANGED <<chain, files, up, locals, code, got, faults>>

-----------------------------------------------------------------------------

(* The download handlers send the file and then move it; openFileHandle    *)
(* does so with a file of another gateway only.                            *)
Send(c) ==
  /\ At(c, "send")
  /\ Serve(c, path[c])
  /\ Goto(c, "move")
  /\ UNCHANGED <<chain, disk, up, fd, locals, faults>>

(* openFileHandle: an empty file is removed, any other is moved first.     *)
OpenStat(c) ==
  /\ At(c, "open")
  /\ IF files[path[c]] \in {NoFile, {}}
     THEN /\ Goto(c, "idle") /\ Status(c, 500) /\ UNCHANGED got
          /\ files' = [files EXCEPT ![path[c]] = NoFile]
          /\ fd' = Detach(path[c])
     ELSE Goto(c, "move") /\ UNCHANGED <<files, fd, code, got>>
  /\ UNCHANGED <<chain, segs, up, locals, faults>>

(* An empty file is left where it is.                                      *)
MoveUnlessEmpty(c) ==
  /\ At(c, "move")
  /\ LET p == path[c]
     IN  \/ /\ NoFault /\ files[p] \notin {NoFile, {}}
            /\ files' = [files EXCEPT ![p] = NoFile, !["cache"] = files[p]]
            /\ fd' = [d \in Clients |->
                        IF fd[d] = p THEN "cache"
                        ELSE IF fd[d] = "cache" THEN NoFile ELSE fd[d]]
         \/ NoFault /\ files[p] \in {NoFile, {}} /\ UNCHANGED <<files, fd>>
         \/ Fault /\ UNCHANGED <<files, fd>>
  /\ Goto(c, IF code[c] = NoCode THEN "read" ELSE "idle")
  /\ UNCHANGED <<chain, segs, up, locals, code, got>>

(* MoveFileToCache; its error is logged.                                   *)
Move(c) ==
  /\ At(c, "move")
  /\ LET p == path[c]
     IN  \/ /\ NoFault /\ files[p] # NoFile
            /\ files' = [files EXCEPT ![p] = NoFile, !["cache"] = files[p]]
            /\ fd' = [d \in Clients |->
                        IF fd[d] = p THEN "cache"
                        ELSE IF fd[d] = "cache" THEN NoFile ELSE fd[d]]
         \/ NoFault /\ files[p] = NoFile /\ UNCHANGED <<files, fd>>
         \/ Fault /\ UNCHANGED <<files, fd>>
  /\ Goto(c, IF code[c] = NoCode THEN "read" ELSE "idle")
  /\ UNCHANGED <<chain, segs, up, locals, code, got>>

(* openFileHandle reads the file by the path it has moved away.            *)
OpenRead(c) ==
  /\ At(c, "read")
  /\ Finish(c)
  /\ IF files[path[c]] = NoFile
     THEN Status(c, 500) /\ UNCHANGED got
     ELSE Serve(c, path[c])
  /\ UNCHANGED <<chain, disk, up, locals, faults>>

-----------------------------------------------------------------------------

OrderCompletes ==
  /\ chain = "order" /\ chain' = "stored"
  /\ UNCHANGED <<disk, up, pc, fd, locals, code, got, faults>>

(* The cache gives up an entry: its time is over, or it needs the space.   *)
Evict ==
  /\ files["cache"] # NoFile
  /\ files' = [files EXCEPT !["cache"] = NoFile]
  /\ fd' = Detach("cache")
  /\ UNCHANGED <<chain, segs, up, pc, locals, code, got, faults>>

Crash ==
  /\ up /\ Fault /\ Die
  /\ UNCHANGED <<chain, disk, locals, code, got>>

Restart ==
  /\ ~up /\ up' = TRUE
  /\ UNCHANGED <<chain, disk, pc, fd, locals, code, got, faults>>

FetchFiles(c) ==
  StatUser(c) \/ CreateUser(c) \/ FindOwner(c) \/ Restore(c) \/ Write(c)
    \/ Written(c)

Handle(c) ==
  \/ CacheHit(c) \/ CacheEmpty(c) \/ CacheMiss(c) \/ Query(c)
  \/ PeerSends(c) \/ PeersFail(c) \/ FetchFiles(c)
  \/ Send(c) \/ OpenStat(c) \/ Move(c) \/ OpenRead(c)

Next ==
  \/ \E c \in Clients : Begin(c) \/ Handle(c)
  \/ OrderCompletes \/ Evict \/ Crash \/ Restart

Spec == Init /\ [][Next]_vars

(* Handlers run on, orders complete, entries of the cache expire, and a    *)
(* process that ended is started again.                                    *)
FairSpec ==
  /\ Spec
  /\ \A c \in Clients : WF_vars(Handle(c))
  /\ WF_vars(OrderCompletes) /\ WF_vars(Evict) /\ WF_vars(Restart)
-----------------------------------------------------------------------------

Fetching == {"restore", "write"}

(* No request leaves fetchFiles, by any of its returns, with restored      *)
(* segments in the file directory, where the next fetch would meet them:   *)
(* unless another one is still at work, or the process ends.               *)
NoLeftovers ==
  [][\A c \in Clients :
       pc[c] \in Fetching /\ pc'[c] \notin Fetching /\ up' => segs' = {}]_vars

Alone(c) == <>[](InFlight \subseteq {c})
KeepsAsking(c) == []<>(pc[c] # "idle")

(* Whatever empty and partial files the concurrent requests, the failed    *)
(* calls and the crashes have left under the name of a stored file, a      *)
(* client that from some time on downloads it again and again, with nobody *)
(* beside, gets the whole file: nothing spoils the name for good.          *)
DownloadRecovers ==
  \A c \in Clients \ Opens :
    Alone(c) /\ KeepsAsking(c) /\ chain # "none"
      => []<>(got[c] = SegmentList)
=============================================================================
