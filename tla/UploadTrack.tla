----------------------------- MODULE UploadTrack -----------------------------
(***************************************************************************)
(* The life of one uploaded file, from the PUT request to the chain.       *)
(*                                                                         *)
(* Every piece of state DeOSS keeps about an upload is keyed by the file's *)
(* root hash, so the module follows ONE root hash: the requests that       *)
(* upload, delete, restore or view it (putHandle or the last chunk of      *)
(* putChunksHandle, fileProcess, deduplication, delHandle,                 *)
(* postRestoreHandle, getHandle),                                          *)
(* its record in the track directory, its fragments on the gateway's disk, *)
(* the goroutine trackFile() that works on it (module TrackPool: at most   *)
(* one), and what the chain knows of it.  Other gateways, the miners and   *)
(* the file's users act on the chain too.                                  *)
(*                                                                         *)
(* A directory that is filled is filled piece by piece, and a crash or a   *)
(* failed call leaves it half filled; os.RemoveAll is one step that        *)
(* succeeds.                                                               *)
(***************************************************************************)
EXTENDS Integers, FiniteSets

CONSTANTS
  Users,           \* accounts
  Requests,        \* HTTP requests about the file, each handled once
  Account,         \* Account[r]: the account that sent r
  Fragments,       \* the names of the file's fragments
  Seconds, Second, \* Second[r]: the name r's file was saved under, which is
                   \* the unix second (putHandle) or given (putChunksHandle)
  Deletes,         \* the requests that are DELETEs,
  Restores,        \* POSTs to /restore,
  Views,           \* or GETs with Operation: view; the others are PUTs
  Chunked,         \* the PUTs that end an upload in chunks
  Downloads,       \* whether the file is downloaded through this gateway too
  OtherGateway,    \* accounts that may upload the file through another gateway
  Deauthorisable,  \* accounts that may withdraw the gateway's authorisation
  MaxFaults,       \* bound on crashes, failed calls and expired orders
  NoRecord, Torn,  \* no record file; a record file that does not parse
  NoOrder          \* no storage order on the chain

ASSUME AccountAssumption == Account \in [Requests -> Users]
ASSUME SecondAssumption == Second \in [Requests -> Seconds]
ASSUME NamesAssumption ==
  /\ Seconds \cap Fragments = {}
  /\ {".", "chunk-info"} \cap (Seconds \cup Fragments) = {}
ASSUME RequestAssumption ==
  /\ Deletes \subseteq Requests /\ Restores \subseteq Requests
  /\ Views \subseteq Requests /\ Chunked \subseteq Requests
  /\ Downloads \in BOOLEAN
  /\ OtherGateway \subseteq Users
  /\ Deauthorisable \subseteq Users
ASSUME FaultsAssumption == MaxFaults \in Nat
ASSUME NoOrderAssumption == NoOrder \notin Users

(* Where a file's content is: <account>/<root hash>, shared by the         *)
(* account's requests; <account>/<two uuids>, or the directory of the      *)
(* chunks, private to one PUT; and the copy downloads leave at <root hash>.*)
Home(u) == <<"home", u>>
Tmp(r) == <<"tmp", r>>
Copy == <<"copy">>
Dirs == {Home(u) : u \in Users} \cup {Tmp(r) : r \in Requests} \cup {Copy}

(* What is in a directory: itself, fragments, the chunk-info of an upload  *)
(* in chunks, and files under the names they were saved as.                *)
Pieces == {".", "chunk-info"} \cup Fragments \cup Seconds

(* A record: whose order it is to place, whether it waits for somebody     *)
(* else's order, and the directory its SegmentInfo points into: Copy when  *)
(* SegmentInfo is nil, for trackFile() then shards the copy.               *)
RecordInfo == [owner : Users, duplicate : BOOLEAN, dir : Dirs]

ASSUME RecordAssumption ==
  NoRecord \notin RecordInfo /\ Torn \notin RecordInfo /\ NoRecord # Torn

VARIABLES
  (* the chain *)
  stored,     \* QueryFile finds the file
  owners,     \* the owners in its metadata
  order,      \* QueryDealMap: the account whose storage order is pending
  delivered,  \* the miners hold every fragment of the pending order
  auth,       \* accounts that authorise this gateway
  (* this gateway's disk *)
  record,     \* trackDir/<root hash>
  openBy,     \* requests whose open descriptor is that very file
  files,      \* <<d, p>>: the piece p is in the directory d
  (* this gateway's memory *)
  pc,         \* pc[r]: the next step of request r
  tpc, trec,  \* trackFile(): its next step, and the record it has parsed
  (* history *)
  acked,      \* accounts that were answered 200 to a PUT
  deleted,    \* accounts whose DELETE reached the chain
  outside,    \* another gateway has declared the file
  notFound,   \* the views that were answered 404
  swept,      \* accounts one of whose directories checkExpiredFiles has taken,
              \* or a failed Rename of the file saved in it
  faults

chain == <<stored, owners, order, delivered>>
disk == <<record, openBy, files>>
thread == <<tpc, trec>>
history == <<acked, deleted, outside, notFound, swept>>
vars == <<chain, auth, disk, pc, thread, history, faults>>

PutSteps == {"dedup", "declare", "deal", "dupstat", "create", "write", "stat",
             "hastrack", "move", "moving", "rename", "record", "order", "leave"}
OtherSteps == {"restore", "viewdeal", "viewtrack"}
DeleteSteps == {"rmdir", "rmtrack"}
ThreadSteps == {"file", "clean", "unload", "drop", "deal", "rewrite", "auth",
                "declare", "confirm", "dupfile", "dupdeclare", "dupdeal",
                "promote", "send"}

RequestSteps ==
  PutSteps \cup DeleteSteps \cup OtherSteps \cup {"idle", "done"}

TypeOK ==
  /\ stored \in BOOLEAN /\ delivered \in BOOLEAN /\ outside \in BOOLEAN
  /\ owners \subseteq Users /\ auth \subseteq Users
  /\ acked \subseteq Users /\ deleted \subseteq Users /\ swept \subseteq Users
  /\ order \in Users \cup {NoOrder}
  /\ record \in RecordInfo \cup {NoRecord, Torn}
  /\ openBy \subseteq Requests
  /\ files \subseteq Dirs \X Pieces
  /\ notFound \subseteq Requests
  /\ pc \in [Requests -> RequestSteps]
  /\ tpc \in ThreadSteps \cup {"off", "parse"}
  /\ trec \in RecordInfo \cup {NoRecord}
  /\ tpc \in ThreadSteps => trec \in RecordInfo
  /\ faults \in 0 .. MaxFaults

Init ==
  /\ stored = FALSE /\ owners = {} /\ order = NoOrder /\ delivered = FALSE
  /\ auth = Users
  /\ record = NoRecord /\ openBy = {} /\ files = {}
  /\ pc = [r \in Requests |-> "idle"]
  /\ tpc = "off" /\ trec = NoRecord
  /\ acked = {} /\ deleted = {} /\ outside = FALSE /\ notFound = {}
  /\ swept = {}
  /\ faults = 0

-----------------------------------------------------------------------------
(* Helpers                                                                 *)

Fault == faults < MaxFaults /\ faults' = faults + 1
NoFault == UNCHANGED faults

At(r, step) == pc[r] = step
Goto(r, step) == pc' = [pc EXCEPT ![r] = step]

(* A PUT is answered; that of a chunk has its deferred RemoveAll to come.  *)
Answered(r) == IF r \in Chunked THEN "leave" ELSE "done"
AnswerError(r) == Goto(r, Answered(r))

(* c.JSON(http.StatusOK, roothash)                                         *)
Answer200(r) ==
  /\ Goto(r, Answered(r))
  /\ acked' = acked \cup {Account[r]}
  /\ UNCHANGED <<deleted, outside, notFound, swept>>

(* The chain takes u's declaration: it adds an owner to a stored file, or  *)
(* opens a storage order when none is pending.                             *)
Acceptable(u) == u \in auth /\ (stored \/ order = NoOrder)

Accept(u) ==
  /\ Acceptable(u)
  /\ IF stored
     THEN owners' = owners \cup {u} /\ UNCHANGED <<order, delivered>>
     ELSE order' = u /\ delivered' = FALSE /\ UNCHANGED owners
  /\ UNCHANGED stored

(* An error may be the chain's refusal, a call that never arrived, or one  *)
(* that took effect and whose answer was lost.                             *)
GenerateStorageOrder(u, ok) ==
  \/ ok /\ Accept(u) /\ NoFault
  \/ ~ok /\ ~Acceptable(u) /\ UNCHANGED chain /\ NoFault
  \/ ~ok /\ Fault /\ (Accept(u) \/ UNCHANGED chain)

(* Renaming or removing the track file detaches every open descriptor.     *)
WriteTrackFile(rec) == record' = rec /\ openBy' = {}
DeleteTrackFile == record' = NoRecord /\ openBy' = {}

(* The file system, as a set of directories with pieces in them.           *)
In(dir, pieces) == {dir} \X pieces
Exists(dir) == <<dir, ".">> \in files
HasAll(dir) == In(dir, Fragments) \subseteq files
Names(dir) == {p \in Pieces \ {"."} : <<dir, p>> \in files}
Without(dir) == files \ In(dir, Pieces)
RemoveAll(dir) == files' = Without(dir)

HasTrackFile == record # NoRecord

(* The account of a request authorises the gateway.                        *)
checkAuth(r) == Account[r] \in auth

NewRecord(r, dup, dir) ==
  [owner |-> Account[r], duplicate |-> dup, dir |-> dir]

-----------------------------------------------------------------------------
(* PUT: putHandle, or putChunksHandle with every chunk there; then         *)
(* fileProcess with deduplication.                                         *)

(* Checks, save to a private directory, shard and encrypt in place.  Of an *)
(* upload in chunks only the first request checks the authorisation.  One  *)
(* in a single chunk has no chunk-info: it is like one no Expire takes.    *)
PutBegin(r) ==
  /\ r \notin Deletes \cup Restores \cup Views /\ At(r, "idle")
  /\ checkAuth(r) \/ r \in Chunked
  /\ LET info == IF r \in Chunked THEN {"chunk-info"} ELSE {}
     IN  files' = files \cup In(Tmp(r), {".", Second[r]} \cup Fragments \cup info)
  /\ Goto(r, "dedup")
  /\ UNCHANGED <<chain, auth, record, openBy, thread, history, faults>>

(* deduplication, QueryFile: the account owns the stored file already ...  *)
DedupOwned(r) ==
  /\ At(r, "dedup") /\ stored /\ Account[r] \in owners
  /\ Answer200(r)
  /\ UNCHANGED <<chain, auth, disk, thread, faults>>

(* ... or has to be declared as one more owner ...                         *)
DedupStored(r) ==
  /\ At(r, "dedup") /\ stored /\ Account[r] \notin owners
  /\ Goto(r, "declare")
  /\ UNCHANGED <<chain, auth, disk, thread, history, faults>>

(* ... or the file is not there, which a failed query looks like too.      *)
DedupMissing(r) ==
  /\ At(r, "dedup")
  /\ \/ ~stored /\ NoFault
     \/ stored /\ Fault
  /\ Goto(r, "deal")
  /\ UNCHANGED <<chain, auth, disk, thread, history>>

DedupDeclare(r) ==
  /\ At(r, "declare")
  /\ \E ok \in BOOLEAN :
       /\ GenerateStorageOrder(Account[r], ok)
       /\ IF ok THEN Answer200(r) ELSE AnswerError(r) /\ UNCHANGED history
  /\ UNCHANGED <<auth, disk, thread>>

(* deduplication, QueryDealMap: the account's own order is pending.        *)
DedupOwnOrder(r) ==
  /\ At(r, "deal") /\ order = Account[r]
  /\ Answer200(r)
  /\ UNCHANGED <<chain, auth, disk, thread, faults>>

(* Somebody else's order ...                                               *)
DedupOtherOrder(r) ==
  /\ At(r, "deal") /\ order \notin {NoOrder, Account[r]}
  /\ Goto(r, "dupstat")
  /\ UNCHANGED <<chain, auth, disk, thread, history, faults>>

(* ... is refused when a record exists by now (ERR_DuplicateOrder).        *)
DedupStat(r) ==
  /\ At(r, "dupstat")
  /\ Goto(r, IF HasTrackFile THEN Answered(r) ELSE "create")
  /\ UNCHANGED <<chain, auth, disk, thread, history, faults>>

DedupNoOrder(r) ==
  /\ At(r, "deal")
  /\ \/ order = NoOrder /\ NoFault
     \/ order # NoOrder /\ Fault
  /\ Goto(r, "stat")
  /\ UNCHANGED <<chain, auth, disk, thread, history>>

(* os.Create of the duplicate's record, in place and without trackLock.    *)
DedupCreate(r) ==
  /\ At(r, "create")
  /\ \/ /\ record' = Torn /\ openBy' = openBy \cup {r}
        /\ Goto(r, "write") /\ NoFault
     \/ UNCHANGED <<record, openBy>> /\ AnswerError(r) /\ Fault
  /\ UNCHANGED <<chain, auth, files, thread, history>>

(* What a write through r's descriptor leaves: two writers of one file     *)
(* leave either's bytes, or a mixture; of a file that has been removed or  *)
(* replaced nothing is seen.                                               *)
AfterWrite(r, rec) ==
  IF r \notin openBy THEN {record}
  ELSE IF record = Torn THEN {rec}
  ELSE {rec, Torn}

(* Write and Sync: an error of either is answered 500, whatever it left.   *)
DedupWrite(r) ==
  /\ At(r, "write")
  /\ LET rec == NewRecord(r, TRUE, Tmp(r))
     IN  \/ record' \in AfterWrite(r, rec) /\ Answer200(r) /\ NoFault
         \/ /\ record' \in {record} \cup AfterWrite(r, rec)
            /\ AnswerError(r) /\ Fault
            /\ UNCHANGED history
  /\ openBy' = openBy \ {r}
  /\ UNCHANGED <<chain, auth, files, thread>>

(* os.Stat of <account>/<root hash>: an earlier upload of the account, or  *)
(* one that is being moved there, has made it.                             *)
StatHome(r) ==
  /\ At(r, "stat")
  /\ Goto(r, IF Exists(Home(Account[r])) THEN "hastrack" ELSE "move")
  /\ UNCHANGED <<chain, auth, disk, thread, history, faults>>

(* Mutant: the directory alone is taken for an earlier upload.             *)
AlreadySaved(r) ==
  /\ At(r, "hastrack")
  /\ Answer200(r)
  /\ UNCHANGED <<chain, auth, disk, thread, faults>>

(* There is a record as well ...                                           *)
AlreadyTracked(r) ==
  /\ At(r, "hastrack") /\ HasTrackFile
  /\ Answer200(r)
  /\ UNCHANGED <<chain, auth, disk, thread, faults>>

(* ... or there is none.                                                   *)
NotTracked(r) ==
  /\ At(r, "hastrack") /\ ~HasTrackFile
  /\ Goto(r, "move")
  /\ UNCHANGED <<chain, auth, disk, thread, history, faults>>

(* MkdirAll and RenameDir: the private directory is merged into the shared *)
(* one, name by name.  Some have been renamed ...                          *)
MoveHome(r) ==
  /\ At(r, "move")
  /\ LET names == Names(Tmp(r))
         home == Home(Account[r])
     IN  \/ \E moved \in (SUBSET names) \ {names} :
              /\ files' = (files \ In(Tmp(r), moved)) \cup In(home, {"."} \cup moved)
              /\ Goto(r, "moving") /\ NoFault
         \/ /\ names = {}   (* checkExpiredFiles has taken the directory *)
            /\ files' = Without(Tmp(r)) \cup In(home, {"."})
            /\ Goto(r, "rename") /\ NoFault
         \/ UNCHANGED files /\ AnswerError(r) /\ Fault
  /\ UNCHANGED <<chain, auth, record, openBy, thread, history>>

(* Mutant: a Rename that fails is passed over, and the RemoveAll at the    *)
(* end takes what has not been moved.                                      *)
MoveRestUnchecked(r) ==
  /\ At(r, "moving")
  /\ LET home == Home(Account[r])
     IN  \/ /\ files' = Without(Tmp(r)) \cup In(home, Names(Tmp(r)))
            /\ Goto(r, "rename") /\ NoFault
         \/ RemoveAll(Tmp(r)) /\ Goto(r, "rename") /\ Fault
  /\ UNCHANGED <<chain, auth, record, openBy, thread, history>>

(* ... and the rest follow, then RemoveAll of the private one; a Rename    *)
(* that fails, for one if a directory has gone meanwhile, ends the request *)
(* with what has been moved where it is.                                   *)
MoveRest(r) ==
  /\ At(r, "moving")
  /\ LET home == Home(Account[r])
     IN  \/ /\ Exists(home) /\ Exists(Tmp(r))
            /\ files' = Without(Tmp(r)) \cup In(home, Names(Tmp(r)))
            /\ Goto(r, "rename") /\ NoFault
         \/ /\ ~Exists(home) \/ ~Exists(Tmp(r))
            /\ UNCHANGED files /\ AnswerError(r) /\ NoFault
         \/ UNCHANGED files /\ AnswerError(r) /\ Fault
  /\ UNCHANGED <<chain, auth, record, openBy, thread, history>>

(* The saved file is renamed to the root hash; when that fails, for one    *)
(* because it is not there, the whole shared directory is removed and the  *)
(* request answered 500.                                                   *)
RenameSaved(r) ==
  /\ At(r, "rename")
  /\ LET home == Home(Account[r])
         saved == <<home, Second[r]>>
     IN  \/ /\ saved \in files
            /\ files' = files \ {saved} /\ UNCHANGED swept
            /\ Goto(r, "record") /\ NoFault
         \/ /\ saved \notin files
            /\ RemoveAll(home) /\ UNCHANGED swept
            /\ AnswerError(r) /\ NoFault
         \/ /\ RemoveAll(home) /\ swept' = swept \cup {Account[r]}
            /\ AnswerError(r) /\ Fault
  /\ UNCHANGED <<chain, auth, record, openBy, thread, acked, deleted, outside,
                 notFound>>

(* Mutants of PutRecord: the segments keep the paths of the private        *)
(* directory; a failed write is passed over, or answered 200.              *)
PutRecordTmp(r) ==
  /\ At(r, "record")
  /\ WriteTrackFile(NewRecord(r, FALSE, Tmp(r)))
  /\ Goto(r, "order")
  /\ UNCHANGED <<chain, auth, files, thread, history, faults>>

PutRecordUnchecked(r) ==
  /\ At(r, "record")
  /\ \/ WriteTrackFile(NewRecord(r, FALSE, Home(Account[r]))) /\ NoFault
     \/ UNCHANGED <<record, openBy>> /\ Fault
  /\ Goto(r, "order")
  /\ UNCHANGED <<chain, auth, files, thread, history>>

PutRecordAnswered(r) ==
  /\ At(r, "record")
  /\ \/ WriteTrackFile(NewRecord(r, FALSE, Home(Account[r]))) /\ NoFault
     \/ UNCHANGED <<record, openBy>> /\ Fault
  /\ Answer200(r)
  /\ UNCHANGED <<chain, auth, files, thread>>

PutRecord(r) ==
  /\ At(r, "record")
  /\ \/ /\ WriteTrackFile(NewRecord(r, FALSE, Home(Account[r])))
        /\ Goto(r, "order") /\ NoFault
     \/ UNCHANGED <<record, openBy>> /\ AnswerError(r) /\ Fault
  /\ UNCHANGED <<chain, auth, files, thread, history>>

(* The result of the declaration is logged; the answer is 200 either way.  *)
PutOrder(r) ==
  /\ At(r, "order")
  /\ \E ok \in BOOLEAN : GenerateStorageOrder(Account[r], ok)
  /\ Answer200(r)
  /\ UNCHANGED <<auth, disk, thread>>

(* defer os.RemoveAll(savedir), whatever fileProcess has come to.          *)
LeaveChunks(r) ==
  /\ At(r, "leave")
  /\ RemoveAll(Tmp(r))
  /\ Goto(r, "done")
  /\ UNCHANGED <<chain, auth, record, openBy, thread, history, faults>>

-----------------------------------------------------------------------------
(* DELETE: delHandle.  The chain drops an owner, and the file with its     *)
(* last one; then the gateway drops what it has, record of any owner.  An  *)
(* error ends the request, also that of a transaction that took effect.    *)

DeleteTx(r) ==
  /\ r \in Deletes /\ At(r, "idle") /\ stored /\ Account[r] \in owners
  /\ owners' = owners \ {Account[r]}
  /\ stored' = (owners' # {})
  /\ deleted' = deleted \cup {Account[r]}
  /\ \/ Goto(r, "rmdir") /\ NoFault
     \/ Goto(r, "done") /\ Fault
  /\ UNCHANGED <<order, delivered, auth, disk, thread, acked, outside, notFound,
                 swept>>

DeleteHome(r) ==
  /\ At(r, "rmdir")
  /\ RemoveAll(Home(Account[r]))
  /\ Goto(r, "rmtrack")
  /\ UNCHANGED <<chain, auth, record, openBy, thread, history, faults>>

DeleteTrack(r) ==
  /\ At(r, "rmtrack")
  /\ DeleteTrackFile
  /\ Goto(r, "done")
  /\ UNCHANGED <<chain, auth, files, thread, history, faults>>

-----------------------------------------------------------------------------
(* POST /restore: postRestoreHandle, for a list with this one file.        *)

RestoreBegin(r) ==
  /\ r \in Restores /\ At(r, "idle") /\ checkAuth(r)
  /\ Goto(r, "restore")
  /\ UNCHANGED <<chain, auth, disk, thread, history, faults>>

(* A file of which no copy is there is passed over.  The record of one     *)
(* that has a copy replaces whatever record there is.                      *)
RestoreWrite(r) ==
  /\ At(r, "restore")
  /\ \/ Exists(Copy) /\ WriteTrackFile(NewRecord(r, FALSE, Copy)) /\ NoFault
     \/ Exists(Copy) /\ UNCHANGED <<record, openBy>> /\ Fault
     \/ ~Exists(Copy) /\ UNCHANGED <<record, openBy>> /\ NoFault
  /\ Goto(r, "done")
  /\ UNCHANGED <<chain, auth, files, thread, history>>

-----------------------------------------------------------------------------
(* GET with Operation: view, the branch of getHandle: the chain's metadata,*)
(* else its order, else the record, else 404.  A failed query ends it.     *)

ViewQueryFile(r) ==
  /\ r \in Views /\ At(r, "idle")
  /\ \/ Goto(r, IF stored THEN "done" ELSE "viewdeal") /\ NoFault
     \/ Goto(r, "done") /\ Fault
  /\ UNCHANGED <<chain, auth, disk, thread, history>>

(* Mutant: a file without an order is answered 404 at once.                *)
ViewQueryDealAlone(r) ==
  /\ At(r, "viewdeal")
  /\ Goto(r, "done")
  /\ \/ order # NoOrder /\ UNCHANGED notFound /\ NoFault
     \/ order = NoOrder /\ notFound' = notFound \cup {r} /\ NoFault
     \/ UNCHANGED notFound /\ Fault
  /\ UNCHANGED <<chain, auth, disk, thread, acked, deleted, outside,
                 swept>>

ViewQueryDeal(r) ==
  /\ At(r, "viewdeal")
  /\ \/ Goto(r, IF order # NoOrder THEN "done" ELSE "viewtrack") /\ NoFault
     \/ Goto(r, "done") /\ Fault
  /\ UNCHANGED <<chain, auth, disk, thread, history>>

ViewHasTrackFile(r) ==
  /\ At(r, "viewtrack")
  /\ notFound' = IF HasTrackFile THEN notFound ELSE notFound \cup {r}
  /\ Goto(r, "done")
  /\ UNCHANGED <<chain, auth, disk, thread, acked, deleted, outside,
                 swept, faults>>

-----------------------------------------------------------------------------
(* trackFile(), one action per call that reads or changes shared state.    *)

ThreadAt(step) == tpc = step
ThreadGoto(step) == tpc' = step /\ UNCHANGED trec
ThreadReturns == tpc' = "off" /\ trec' = NoRecord

ThreadStart ==
  /\ ThreadAt("off") /\ HasTrackFile
  /\ ThreadGoto("parse")
  /\ UNCHANGED <<chain, auth, disk, pc, history, faults>>

(* Mutant: the result of json.Unmarshal is not looked at.                  *)
ParseTrackFileUnchecked ==
  /\ ThreadAt("parse")
  /\ tpc' = "file" /\ trec' = record
  /\ UNCHANGED <<chain, auth, disk, pc, history, faults>>

ParseTrackFile ==
  /\ ThreadAt("parse")
  /\ IF record \in RecordInfo
     THEN tpc' = "file" /\ trec' = record
     ELSE ThreadReturns
  /\ UNCHANGED <<chain, auth, disk, pc, history, faults>>

(* Any query may fail, and so may writing the record back, or the peers be *)
(* unreadable in storageData; the goroutine returns and keeps the record.  *)
TrackQueryFails ==
  /\ tpc \in {"file", "deal", "rewrite", "auth", "confirm", "dupdeal", "promote",
             "send"}
  /\ Fault
  /\ ThreadReturns
  /\ UNCHANGED <<chain, auth, disk, pc, history>>

(* Mutant: the gateway cleans up as soon as the chain has an order.        *)
TrackQueryFileOrOrder ==
  /\ ThreadAt("file")
  /\ ThreadGoto(IF stored \/ order # NoOrder THEN "clean" ELSE "deal")
  /\ UNCHANGED <<chain, auth, disk, pc, history, faults>>

(* QueryFile: a stored file is cleaned up, whatever the record says.       *)
TrackQueryFile ==
  /\ ThreadAt("file")
  /\ ThreadGoto(IF stored THEN "clean" ELSE "deal")
  /\ UNCHANGED <<chain, auth, disk, pc, history, faults>>

(* A record without segments has no directory to remove.  With one, the    *)
(* copy goes too when the file is stored.                                  *)
CleanData ==
  /\ tpc \in {"clean", "unload"}
  /\ files' = IF trec.dir = Copy THEN files
              ELSE IF tpc = "clean" THEN Without(trec.dir) \ In(Copy, Pieces)
              ELSE Without(trec.dir)
  /\ ThreadGoto("drop")
  /\ UNCHANGED <<chain, auth, record, openBy, pc, history, faults>>

DropRecord ==
  /\ ThreadAt("drop")
  /\ DeleteTrackFile
  /\ ThreadReturns
  /\ UNCHANGED <<chain, auth, files, pc, history, faults>>

WithOrder == IF trec.duplicate THEN "dupfile" ELSE "send"

TrackQueryDeal ==
  /\ ThreadAt("deal")
  /\ ThreadGoto(IF order = NoOrder THEN "rewrite" ELSE WithOrder)
  /\ UNCHANGED <<chain, auth, disk, pc, history, faults>>

(* No order: the parsed record is written back (Putflag and Count reset).  *)
TrackRewrite ==
  /\ ThreadAt("rewrite")
  /\ WriteTrackFile(trec)
  /\ ThreadGoto("auth")
  /\ UNCHANGED <<chain, auth, files, pc, history, faults>>

TrackQueryAuth ==
  /\ ThreadAt("auth")
  /\ ThreadGoto(IF trec.owner \in auth THEN "declare" ELSE "unload")
  /\ UNCHANGED <<chain, auth, disk, pc, history, faults>>

TrackDeclare ==
  /\ ThreadAt("declare")
  /\ \E ok \in BOOLEAN :
       /\ GenerateStorageOrder(trec.owner, ok)
       /\ IF ok THEN ThreadGoto("confirm") ELSE ThreadReturns
  /\ UNCHANGED <<auth, disk, pc, history>>

TrackConfirm ==
  /\ ThreadAt("confirm")
  /\ IF order = NoOrder THEN ThreadReturns ELSE ThreadGoto(WithOrder)
  /\ UNCHANGED <<chain, auth, disk, pc, history, faults>>

(* The record of a duplicate: QueryFile again, a failure counts as absent. *)
DupQueryFile ==
  /\ ThreadAt("dupfile")
  /\ \/ stored /\ ThreadGoto("dupdeclare") /\ NoFault
     \/ ~stored /\ ThreadGoto("dupdeal") /\ NoFault
     \/ stored /\ ThreadGoto("dupdeal") /\ Fault
  /\ UNCHANGED <<chain, auth, disk, pc, history>>

DupDeclare ==
  /\ ThreadAt("dupdeclare")
  /\ \E ok \in BOOLEAN :
       /\ GenerateStorageOrder(trec.owner, ok)
       /\ IF ok THEN ThreadGoto("unload") ELSE ThreadReturns
  /\ UNCHANGED <<auth, disk, pc, history>>

DupQueryDeal ==
  /\ ThreadAt("dupdeal")
  /\ IF order = NoOrder THEN ThreadGoto("promote") ELSE ThreadReturns
  /\ UNCHANGED <<chain, auth, disk, pc, history, faults>>

DupPromote ==
  /\ ThreadAt("promote")
  /\ WriteTrackFile([trec EXCEPT !.duplicate = FALSE])
  /\ ThreadReturns
  /\ UNCHANGED <<chain, auth, files, pc, history, faults>>

(* Mutant: the loop of trackFile closes around storageData alone.          *)
StorageDataAlone ==
  /\ ThreadAt("send")
  /\ \/ HasAll(trec.dir) /\ NoFault
        /\ delivered' = (order # NoOrder)
     \/ HasAll(trec.dir) /\ Fault /\ UNCHANGED delivered
     \/ ~HasAll(trec.dir) /\ NoFault /\ UNCHANGED delivered
  /\ UNCHANGED <<stored, owners, order, auth, disk, pc, thread, history>>

(* Without segments the copy is sharded first; no copy, or one that gives  *)
(* another root hash because the file was encrypted, ends the goroutine.   *)
ShardCopyFails ==
  /\ ThreadAt("send") /\ trec.dir = Copy
  /\ \/ ~HasAll(Copy) /\ NoFault
     \/ HasAll(Copy) /\ Fault
  /\ ThreadReturns
  /\ UNCHANGED <<chain, auth, disk, pc, history>>

(* storageData: the miners get the fragments if the directory still has    *)
(* them; a transfer that fails is not reported, and the loop goes on.      *)
StorageData ==
  /\ ThreadAt("send")
  /\ \/ HasAll(trec.dir) /\ NoFault
        /\ delivered' = (order # NoOrder)
     \/ HasAll(trec.dir) /\ Fault /\ UNCHANGED delivered
     \/ trec.dir # Copy /\ ~HasAll(trec.dir) /\ NoFault /\ UNCHANGED delivered
  /\ tpc' = "parse" /\ trec' = NoRecord
  /\ UNCHANGED <<stored, owners, order, auth, disk, pc, history>>

-----------------------------------------------------------------------------
(* The chain, the miners, the users, other gateways, and crashes.          *)

OrderCompletes ==
  /\ order # NoOrder /\ delivered
  /\ stored' = TRUE /\ owners' = {order}
  /\ order' = NoOrder /\ delivered' = FALSE
  /\ UNCHANGED <<auth, disk, pc, thread, history, faults>>

OrderExpires ==
  /\ order # NoOrder /\ Fault
  /\ order' = NoOrder /\ delivered' = FALSE
  /\ UNCHANGED <<stored, owners, auth, disk, pc, thread, history>>

(* Another gateway declares the file for u and delivers it itself.         *)
OtherGatewayDeclares(u) ==
  /\ u \in OtherGateway
  /\ IF stored
     THEN owners' = owners \cup {u} /\ UNCHANGED <<order, delivered>>
     ELSE /\ order = NoOrder
          /\ order' = u /\ delivered' = TRUE
          /\ UNCHANGED owners
  /\ outside' = TRUE
  /\ UNCHANGED <<stored, auth, disk, pc, thread, acked, deleted, notFound,
                 swept, faults>>

Deauthorise(u) ==
  /\ u \in Deauthorisable \cap auth
  /\ auth' = auth \ {u}
  /\ UNCHANGED <<chain, disk, pc, thread, history, faults>>

(* checkExpiredFiles, when the account begins another upload in chunks:    *)
(* every directory with a chunk-info that nothing was added to for a day   *)
(* goes.  RenameDir takes the chunk-info along, so the home of a file that *)
(* was uploaded in chunks is one of them.                                  *)
Expire(u, dir) ==
  /\ dir \in {Home(u)} \cup {Tmp(r) : r \in {q \in Requests : Account[q] = u}}
  /\ <<dir, "chunk-info">> \in files
  /\ RemoveAll(dir)
  /\ swept' = swept \cup {u}
  /\ UNCHANGED <<chain, auth, record, openBy, pc, thread, acked, deleted,
                 outside, notFound, faults>>

(* A download leaves the file at <root hash> for a while (module Download).*)
CopyArrives ==
  /\ Downloads /\ (stored \/ order # NoOrder)
  /\ files' = files \cup In(Copy, {"."} \cup Fragments)
  /\ UNCHANGED <<chain, auth, record, openBy, pc, thread, history, faults>>

CopyLeaves ==
  /\ Downloads
  /\ RemoveAll(Copy)
  /\ UNCHANGED <<chain, auth, record, openBy, pc, thread, history, faults>>

(* The process dies: requests get no answer, the goroutine is gone.        *)
Crash ==
  /\ Fault
  /\ pc' = [r \in Requests |-> IF pc[r] = "idle" THEN "idle" ELSE "done"]
  /\ ThreadReturns
  /\ openBy' = {}
  /\ UNCHANGED <<chain, auth, record, files, history>>

Deduplication(r) ==
  \/ DedupOwned(r) \/ DedupStored(r) \/ DedupMissing(r) \/ DedupDeclare(r)
  \/ DedupOwnOrder(r) \/ DedupOtherOrder(r) \/ DedupStat(r)
  \/ DedupNoOrder(r) \/ DedupCreate(r) \/ DedupWrite(r)

FileProcess(r) ==
  \/ StatHome(r) \/ AlreadyTracked(r) \/ NotTracked(r)
  \/ MoveHome(r) \/ MoveRest(r) \/ RenameSaved(r) \/ PutRecord(r)
  \/ PutOrder(r) \/ LeaveChunks(r)

Put(r) == PutBegin(r) \/ Deduplication(r) \/ FileProcess(r)

Delete(r) == DeleteTx(r) \/ DeleteHome(r) \/ DeleteTrack(r)

Restore(r) == RestoreBegin(r) \/ RestoreWrite(r)

View(r) == ViewQueryFile(r) \/ ViewQueryDeal(r) \/ ViewHasTrackFile(r)

TrackFile ==
  \/ ThreadStart \/ ParseTrackFile \/ TrackQueryFile \/ CleanData \/ DropRecord
  \/ TrackQueryDeal \/ TrackRewrite \/ TrackQueryAuth \/ TrackDeclare
  \/ TrackConfirm \/ DupQueryFile \/ DupDeclare \/ DupQueryDeal \/ DupPromote
  \/ ShardCopyFails \/ StorageData

Next ==
  \/ \E r \in Requests : Put(r) \/ Delete(r) \/ Restore(r) \/ View(r)
  \/ TrackFile \/ TrackQueryFails
  \/ OrderCompletes \/ OrderExpires
  \/ \E u \in Users : OtherGatewayDeclares(u) \/ Deauthorise(u)
  \/ \E u \in Users, dir \in Dirs : Expire(u, dir)
  \/ CopyArrives \/ CopyLeaves
  \/ Crash

Spec == Init /\ [][Next]_vars

(* Go runs every goroutine that can run; ThreadStart is what TrackPool's   *)
(* ServedWhenRoomy gives; miners report a delivered order.  A request need *)
(* not arrive, and nothing forces a fault.                                 *)
Fairness ==
  /\ WF_vars(TrackFile)
  /\ WF_vars(OrderCompletes)
  /\ \A r \in Requests : WF_vars(Deduplication(r) \/ FileProcess(r))

FairSpec == Spec /\ Fairness

-----------------------------------------------------------------------------
(* Properties                                                              *)

Recorded == record \in RecordInfo

(* Nothing happened that may take the file away from this gateway.         *)
Undisturbed == deleted = {} /\ auth = Users /\ ~outside

(* Once anybody was answered 200, the file is stored, or a record exists   *)
(* that parses and brings it there: through crashes at any step, failed    *)
(* calls, expired orders and any number of uploaders.                      *)
NoAckedFileLost == Undisturbed /\ acked # {} => stored \/ Recorded

(* A pending order of this gateway can be resumed after a crash: its       *)
(* record is on disk before the order and until the file is stored.        *)
PendingOrderIsRecorded ==
  Undisturbed /\ order # NoOrder => Recorded

(* The strengthening that makes both inductive: which steps of a request   *)
(* and of trackFile() are only reached with the file kept or stored.       *)
Kept == stored \/ Recorded

FileInv ==
  /\ \A r \in Requests : pc[r] \in DeleteSteps => deleted # {}
  /\ Undisturbed =>
       /\ record = Torn => stored
       /\ acked # {} => Kept
       /\ order # NoOrder => Recorded /\ ~stored
       /\ tpc \in {"clean", "unload", "drop", "dupdeclare"} => stored
       /\ tpc \in {"auth", "declare"} => Kept
       /\ \A r \in Requests :
            /\ pc[r] \in {"declare", "create", "write"} => stored
            /\ pc[r] \in {"dupstat", "order"} => Kept

(* A record the tracker will work on points at fragments that are there,   *)
(* all of them, wherever a crash or a failed call has cut the move of a    *)
(* directory short, until checkExpiredFiles takes the directory (or a      *)
(* Rename fails in it).  Two records are excepted: the duplicate's record  *)
(* of an upload in chunks, whose directory the handler removes, and the    *)
(* record of POST /restore, whose copy a download moves away.  Two PUTs of *)
(* one account in one second break it: the configurations use distinct     *)
(* seconds.                                                                *)
RecordHasData ==
  (Recorded /\ ~stored /\ deleted = {} /\ record.owner \in auth \ swept)
    => \/ HasAll(record.dir) \/ record.dir = Copy
       \/ \E r \in Chunked : record.dir = Tmp(r)

(* A file somebody was answered 200 for is answered 404 to a view only     *)
(* once it is stored: the three lookups are not atomic, but what they miss *)
(* is a file that has moved from the record to the chain in between.       *)
ViewMissesOnlyStored ==
  [][notFound' # notFound /\ Undisturbed /\ acked # {} => stored]_vars

(* The claim of an account: it owns the file, its order is pending, or the *)
(* record is its own.                                                      *)
Claims(u) == u \in owners \/ order = u \/ (Recorded /\ record.owner = u)

Withdrawn == deleted \cup (Users \ auth)

(* An account that was answered 200 keeps a claim to the file.             *)
AckedNotForgotten == \A u \in acked \ Withdrawn : Claims(u)

Durable == INSTANCE DurableUpload
             WITH Clients <- Users,
                  durable <- {u \in Users : Claims(u)},
                  acked <- acked \ Withdrawn

(* The same, step by step: what was promised is written down first, and is *)
(* only given up by a step of the account itself.                          *)
DurableSpec == Durable!Spec

(* Every accepted upload ends with the account as an owner on the chain,   *)
(* through half-moved directories, failed calls and crashes: unless the    *)
(* account withdraws, or checkExpiredFiles takes its directory first.      *)
AckedEventuallyOwner ==
  \A u \in Users :
    (u \in acked) ~> (u \in owners \/ u \in Withdrawn \/ u \in swept)

(* After its owner deleted the file, only a PUT of that account orders it  *)
(* again.                                                                  *)
DeletedStaysDeleted ==
  [][\A u \in deleted :
        order = NoOrder /\ order' = u
          => \E r \in Requests : At(r, "order") /\ Account[r] = u]_vars
=============================================================================
