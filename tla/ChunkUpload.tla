---------------------------- MODULE ChunkUpload ----------------------------
(***************************************************************************)
(* A resumable upload: putChunksHandle() for one (account, bucket, file    *)
(* name), i.e. one directory <account>/<fdir> with the file chunk-info,    *)
(* one file per chunk and, at the end, the assembled file that fileProcess *)
(* takes over and moves, with everything beside it, to the directory of    *)
(* the root hash.  Requests run concurrently, each with its own copy of    *)
(* chunk-info; nothing locks the directory.  Sizes count units of data.    *)
(***************************************************************************)
EXTENDS Integers, FiniteSets, FiniteSetsExt, Functions

CONSTANTS
  Requests,     \* PUT requests with a chunk, each handled once
  BlockNum,     \* chunks of the file, the header of the first request
  TotalSize,    \* the file's size, the header of the first request
  Sizes,        \* sizes of the chunks clients send
  MaxInFlight,  \* requests in flight at once, at most max_concurrent_req
  MaxFaults,    \* bound on crashes, failed file operations and expiries
  NoFile, Torn  \* a file that is not there; a chunk-info that does not parse

Blocks == 0 .. BlockNum - 1

ASSUME BlockNumAssumption == BlockNum \in Nat \ {0}
ASSUME SizesAssumption == Sizes \subseteq Nat /\ TotalSize \in Nat \ {0}
ASSUME InFlightAssumption == MaxInFlight \in Nat \ {0}
ASSUME FaultsAssumption == MaxFaults \in Nat

(* ChunksInfo: SavedBlocks, Finished and SavedFileSize.                    *)
ChunksInfo == [saved : SUBSET Blocks, finished : Nat, size : Nat]
NewInfo == [saved |-> {}, finished |-> 0, size |-> 0]

ASSUME FilesAssumption ==
  /\ NoFile \notin Nat
  /\ NoFile \notin ChunksInfo /\ Torn \notin ChunksInfo /\ NoFile # Torn

VARIABLES
  savedir,   \* the directory exists
  info,      \* chunk-info in it
  chunk,     \* chunk[i]: the size of chunk-file-<i>, or NoFile
  whole,     \* the size of the assembled file, or NoFile
  linked,    \* requests whose open file is still in the directory
  pc,        \* pc[r]: the next step of request r
  idx, len,  \* the chunk r carries, and its size
  mine,      \* mine[r]: r's copy of chunk-info
  sum,       \* sum[r]: what r has copied into the assembled file
  next,      \* next[r]: the next chunk r copies
  answered,  \* history: chunks answered 200 since the upload began
  emptied,   \* history: files have been taken out of the directory since
  fids,      \* history: sizes of the files fileProcess has taken over
  faults

disk == <<savedir, info, chunk, whole>>
locals == <<idx, len, mine, sum, next>>
history == <<answered, emptied, fids>>
vars == <<disk, linked, pc, locals, history, faults>>

Steps == {"dir", "info", "check", "create", "copy", "assemble", "join",
          "process", "moving", "leave", "save"}

TypeOK ==
  /\ savedir \in BOOLEAN
  /\ info \in ChunksInfo \cup {NoFile, Torn}
  /\ chunk \in [Blocks -> Nat \cup {NoFile}]
  /\ whole \in Nat \cup {NoFile}
  /\ linked \subseteq Requests
  /\ pc \in [Requests -> Steps \cup {"idle", "done"}]
  /\ idx \in [Requests -> Blocks] /\ len \in [Requests -> Nat]
  /\ mine \in [Requests -> ChunksInfo]
  /\ sum \in [Requests -> Nat] /\ next \in [Requests -> 0 .. BlockNum]
  /\ answered \subseteq Blocks /\ emptied \in BOOLEAN /\ fids \subseteq Nat
  /\ faults \in 0 .. MaxFaults

Empty ==
  /\ savedir' = FALSE /\ info' = NoFile /\ whole' = NoFile
  /\ chunk' = [i \in Blocks |-> NoFile]

Init ==
  /\ savedir = FALSE /\ info = NoFile /\ whole = NoFile
  /\ chunk = [i \in Blocks |-> NoFile]
  /\ linked = {}
  /\ pc = [r \in Requests |-> "idle"]
  /\ idx = [r \in Requests |-> 0] /\ len = [r \in Requests |-> 0]
  /\ mine = [r \in Requests |-> NewInfo]
  /\ sum = [r \in Requests |-> 0] /\ next = [r \in Requests |-> 0]
  /\ answered = {} /\ emptied = FALSE /\ fids = {} /\ faults = 0

-----------------------------------------------------------------------------

Fault == faults < MaxFaults /\ faults' = faults + 1
NoFault == UNCHANGED faults

At(r, step) == pc[r] = step
Goto(r, step) == pc' = [pc EXCEPT ![r] = step]
InFlight == {r \in Requests : pc[r] \notin {"idle", "done"}}

(* os.RemoveAll(savedir): the progress made so far is gone.                *)
RemoveSavedir ==
  /\ Empty
  /\ linked' = {} /\ answered' = {} /\ emptied' = FALSE

(* Part of the files have left the directory, the chunks S among them.     *)
LoseSome(S) ==
  /\ chunk' = [i \in Blocks |-> IF i \in S THEN NoFile ELSE chunk[i]]
  /\ info' \in {info, NoFile} /\ whole' \in {whole, NoFile}
  /\ emptied' = TRUE
  /\ UNCHANGED <<savedir, answered>>

(* An answer counts for the directory it is about: "already exists", read  *)
(* before the directory expired and sent after, is no promise any more.    *)
Answer200(r) ==
  /\ Goto(r, "done")
  /\ answered' = IF savedir THEN answered \cup {idx[r]} ELSE answered

(* A token of max_concurrent_req_ch, the checks of the request's headers.  *)
Begin(r) ==
  /\ At(r, "idle") /\ Cardinality(InFlight) < MaxInFlight
  /\ \E i \in Blocks, n \in Sizes :
       idx' = [idx EXCEPT ![r] = i] /\ len' = [len EXCEPT ![r] = n]
  /\ Goto(r, "dir")
  /\ UNCHANGED <<disk, linked, mine, sum, next, history, faults>>

(* Ten uploads of the account are unfinished: every seventh chunk is 403.  *)
TooMany(r) ==
  /\ At(r, "dir") /\ idx[r] % 7 = 0
  /\ Goto(r, "done")
  /\ UNCHANGED <<disk, linked, locals, history, faults>>

MakeSavedir(r) ==
  /\ At(r, "dir")
  /\ \/ NoFault /\ savedir' = TRUE /\ Goto(r, "info")
     \/ Fault /\ UNCHANGED savedir /\ Goto(r, "done")
  /\ UNCHANGED <<info, chunk, whole, linked, locals, history>>

(* Mutant: the result of json.Unmarshal is not looked at.                  *)
ReadInfoUnchecked(r) ==
  /\ At(r, "info")
  /\ mine' = [mine EXCEPT ![r] = IF info = NoFile THEN NewInfo ELSE info]
  /\ Goto(r, "check")
  /\ UNCHANGED <<disk, linked, idx, len, sum, next, history, faults>>

(* Without chunk-info a new upload starts, unless the space, the           *)
(* authorisation or a header is refused.                                   *)
StartUpload(r) ==
  \/ /\ mine' = [mine EXCEPT ![r] = NewInfo]
     /\ Goto(r, "check")
     /\ IF emptied THEN answered' = {} /\ emptied' = FALSE
                   ELSE UNCHANGED <<answered, emptied>>
  \/ Goto(r, "done") /\ UNCHANGED <<mine, answered, emptied>>

(* Stat, read and parse of chunk-info: one that does not parse is 500, as  *)
(* is one that cannot be read.                                             *)
ReadInfo(r) ==
  /\ At(r, "info")
  /\ \/ NoFault /\ info = NoFile /\ StartUpload(r)
     \/ /\ NoFault /\ info \in ChunksInfo
        /\ mine' = [mine EXCEPT ![r] = info]
        /\ Goto(r, "check")
        /\ UNCHANGED <<answered, emptied>>
     \/ /\ IF info = Torn THEN NoFault ELSE Fault /\ info # NoFile
        /\ Goto(r, "done")
        /\ UNCHANGED <<mine, answered, emptied>>
  /\ UNCHANGED <<disk, linked, idx, len, sum, next, fids>>

(* "chunk i already exists"                                                *)
AlreadySaved(r) ==
  /\ At(r, "check") /\ idx[r] \in mine[r].saved
  /\ Answer200(r)
  /\ UNCHANGED <<disk, linked, locals, emptied, fids, faults>>

(* Mutant: a chunk that is saved already is taken once more.               *)
CheckSizeAlone(r) ==
  /\ At(r, "check")
  /\ Goto(r, IF len[r] + mine[r].size > TotalSize THEN "done" ELSE "create")
  /\ UNCHANGED <<disk, linked, locals, history, faults>>

(* "bad chunk size" against the header of the first request                *)
CheckSize(r) ==
  /\ At(r, "check") /\ idx[r] \notin mine[r].saved
  /\ Goto(r, IF len[r] + mine[r].size > TotalSize THEN "done" ELSE "create")
  /\ UNCHANGED <<disk, linked, locals, history, faults>>

(* os.Create empties an earlier file; it fails when the directory is gone. *)
CreateChunk(r) ==
  /\ At(r, "create")
  /\ \/ /\ NoFault /\ savedir
        /\ chunk' = [chunk EXCEPT ![idx[r]] = 0]
        /\ linked' = linked \cup {r}
        /\ Goto(r, "copy")
     \/ /\ IF savedir THEN Fault ELSE NoFault
        /\ Goto(r, "done") /\ UNCHANGED <<chunk, linked>>
  /\ UNCHANGED <<savedir, info, whole, locals, history>>

(* io.Copy into the open file, which a removal has unlinked.  The request  *)
(* takes the last chunk if its copy of chunk-info lacks just one.          *)
CopyChunk(r) ==
  /\ At(r, "copy")
  /\ \/ /\ NoFault
        /\ chunk' = IF r \in linked
                    THEN [chunk EXCEPT ![idx[r]] = Max({@, len[r]})]
                    ELSE chunk
        /\ Goto(r, IF mine[r].finished + 1 = BlockNum THEN "assemble" ELSE "save")
     \/ Fault /\ UNCHANGED chunk /\ Goto(r, "done")
  /\ linked' = linked \ {r}
  /\ UNCHANGED <<savedir, info, whole, locals, history>>

(* Mutant: the chunk is counted but not marked.                            *)
SaveInfoUnmarked(r) ==
  /\ At(r, "save") /\ savedir
  /\ info' = [mine[r] EXCEPT !.finished = @ + 1, !.size = @ + len[r]]
  /\ Answer200(r)
  /\ UNCHANGED <<savedir, chunk, whole, linked, locals, emptied, fids, faults>>

(* The copy of chunk-info, with this chunk added, replaces the file; a     *)
(* write that fails may have cut it short.                                 *)
SaveInfo(r) ==
  /\ At(r, "save")
  /\ LET new == [saved |-> mine[r].saved \cup {idx[r]},
                 finished |-> mine[r].finished + 1,
                 size |-> mine[r].size + len[r]]
     IN  \/ NoFault /\ savedir /\ info' = new /\ Answer200(r)
         \/ /\ NoFault /\ ~savedir /\ Goto(r, "done")
            /\ UNCHANGED <<info, answered>>
         \/ /\ Fault /\ savedir /\ Goto(r, "done")
            /\ info' \in {info, Torn} /\ UNCHANGED answered
  /\ UNCHANGED <<savedir, chunk, whole, linked, locals, emptied, fids>>

(* From the last chunk on every return runs the deferred RemoveAll, which  *)
(* takes what another request has put into the directory along.            *)
Leave(r) ==
  /\ At(r, "leave")
  /\ RemoveSavedir /\ Goto(r, "done")
  /\ UNCHANGED <<locals, fids, faults>>

CreateWhole(r) ==
  /\ At(r, "assemble")
  /\ \/ /\ NoFault /\ savedir
        /\ whole' = 0 /\ linked' = linked \cup {r} /\ Goto(r, "join")
     \/ /\ IF savedir THEN Fault ELSE NoFault
        /\ Goto(r, "leave") /\ UNCHANGED <<whole, linked>>
  /\ sum' = [sum EXCEPT ![r] = 0] /\ next' = [next EXCEPT ![r] = 0]
  /\ UNCHANGED <<savedir, info, chunk, idx, len, mine, history>>

(* os.Remove(fpath), whichever request has made it.                        *)
RemoveWhole(r) ==
  /\ whole' = NoFile
  /\ linked' = {s \in linked : ~At(s, "join")}
  /\ Goto(r, "leave")
  /\ UNCHANGED <<savedir, info, chunk>>

(* One chunk after the other is appended at this request's own offset.     *)
JoinChunk(r) ==
  /\ At(r, "join") /\ next[r] < BlockNum
  /\ \/ /\ IF chunk[next[r]] = NoFile THEN NoFault ELSE Fault
        /\ RemoveWhole(r) /\ UNCHANGED <<sum, next>>
     \/ /\ NoFault /\ chunk[next[r]] # NoFile
        /\ sum' = [sum EXCEPT ![r] = @ + chunk[next[r]]]
        /\ whole' = IF r \in linked THEN Max({whole, sum'[r]}) ELSE whole
        /\ next' = [next EXCEPT ![r] = @ + 1]
        /\ UNCHANGED <<savedir, info, chunk, linked, pc>>
  /\ UNCHANGED <<idx, len, mine, history>>

(* Mutant: the size is not compared.                                       *)
CheckWholeNot(r) ==
  /\ At(r, "join") /\ next[r] = BlockNum
  /\ Goto(r, "process") /\ linked' = linked \ {r}
  /\ UNCHANGED <<disk, locals, history, faults>>

(* "file size mismatch", judged by the bytes this request has copied.      *)
CheckWhole(r) ==
  /\ At(r, "join") /\ next[r] = BlockNum
  /\ \/ sum[r] # TotalSize /\ RemoveWhole(r)
     \/ /\ sum[r] = TotalSize
        /\ Goto(r, "process") /\ linked' = linked \ {r}
        /\ UNCHANGED disk
  /\ UNCHANGED <<locals, history, faults>>

(* fileProcess finds the file by its name: an empty or missing one is an   *)
(* error.  Any other is sharded; deduplication may answer, or a step fail, *)
(* and else the file is moved (module UploadTrack follows it from here).   *)
Process(r) ==
  /\ At(r, "process")
  /\ \/ /\ whole \in {NoFile, 0}
        /\ Goto(r, "leave") /\ UNCHANGED fids
     \/ /\ whole \notin {NoFile, 0}
        /\ fids' = fids \cup {whole}
        /\ \E step \in {"leave", "moving"} : Goto(r, step)
  /\ UNCHANGED <<disk, linked, locals, answered, emptied, faults>>

(* RenameDir takes one file after the other out of the directory, in the   *)
(* order of their names: chunk-info after the chunks, but for a chunk that *)
(* another request has made since the files were listed.                   *)
MoveSome(r) ==
  /\ At(r, "moving") /\ savedir
  /\ \E S \in SUBSET Blocks :
       /\ LoseSome(S)
       /\ linked' = {s \in linked : IF At(s, "copy") THEN idx[s] \notin S
                                    ELSE whole' # NoFile}
  /\ info' # info => InFlight # {r} \/ \A i \in Blocks : chunk'[i] = NoFile
  /\ UNCHANGED <<pc, locals, fids, faults>>

(* RenameDir ends, with the removal of the directory or with an error.     *)
MoveRest(r) ==
  /\ At(r, "moving")
  /\ RemoveSavedir \/ UNCHANGED <<disk, linked, answered, emptied>>
  /\ Goto(r, "leave")
  /\ UNCHANGED <<locals, fids, faults>>

(* checkExpiredFiles, in any request of the account: a day without a new   *)
(* chunk; a chunk-info that does not parse never expires.                  *)
Expire ==
  /\ info \in ChunksInfo
  /\ Fault
  /\ RemoveSavedir
  /\ UNCHANGED <<pc, locals, fids>>

(* The process dies, perhaps in the write of chunk-info, which leaves half *)
(* a file, or in a removal of the directory (a request's, or the one of    *)
(* checkExpiredFiles), which leaves part of the files.                     *)
Crash ==
  /\ Fault
  /\ pc' = [r \in Requests |-> IF r \in InFlight THEN "done" ELSE pc[r]]
  /\ linked' = {}
  /\ \/ UNCHANGED <<disk, answered, emptied>>
     \/ /\ savedir /\ \E r \in Requests : At(r, "save")
        /\ info' = Torn
        /\ UNCHANGED <<savedir, chunk, whole, answered, emptied>>
     \/ /\ savedir
        /\ info \in ChunksInfo \/ \E r \in Requests : At(r, "leave")
        /\ \E S \in SUBSET Blocks : LoseSome(S)
  /\ UNCHANGED <<locals, fids>>

Handle(r) ==
  \/ Begin(r) \/ TooMany(r) \/ MakeSavedir(r) \/ ReadInfo(r)
  \/ AlreadySaved(r) \/ CheckSize(r) \/ CreateChunk(r) \/ CopyChunk(r)
  \/ SaveInfo(r) \/ CreateWhole(r) \/ JoinChunk(r) \/ CheckWhole(r)
  \/ Process(r) \/ MoveSome(r) \/ MoveRest(r) \/ Leave(r)

Next == Expire \/ Crash \/ \E r \in Requests : Handle(r)

Spec == Init /\ [][Next]_vars

-----------------------------------------------------------------------------
(* Properties                                                              *)

(* fileProcess only ever takes over a file of the size the client gave:    *)
(* nothing short of it is answered with a file id and reaches the network. *)
ProcessedIsWhole == fids \subseteq {TotalSize}

(* An upload can be resumed: every chunk answered 200 is marked, whatever  *)
(* crashed or failed since, in a chunk-info that parses; once files have   *)
(* been taken out of the directory the upload is over or starts anew.      *)
AnsweredStaysSaved ==
  info \in ChunksInfo /\ ~emptied => answered \subseteq info.saved

(* What chunk-info says is on disk, until files are taken out: the marked  *)
(* chunks are there, their number is the recorded one, and their sizes add *)
(* up to the recorded size.                                                *)
MarkedOnDisk == \A i \in info.saved : chunk[i] # NoFile
CountOfMarked == info.finished = Cardinality(info.saved)
SizeOfMarked == info.size = SumFunctionOnSet(chunk, info.saved)
InfoMatchesDisk ==
  info \in ChunksInfo /\ ~emptied =>
    MarkedOnDisk /\ CountOfMarked /\ SizeOfMarked
=============================================================================
