------------------------------- MODULE Restore -------------------------------
(***************************************************************************)
(* The lists of files an account has uploaded and deleted: syncBlock()     *)
(* follows the chain's blocks and enters every declaration and deletion in *)
(* leveldb or, when that fails, in a file; GET /restore answers with what  *)
(* they leave.  ONE account is followed: all keys and files are named by   *)
(* the account.  TaskMgt() of this revision does not start syncBlock(); a  *)
(* gateway serves the lists an earlier one has left.                       *)
(***************************************************************************)
EXTENDS Integers, Sequences, SequencesExt, FiniteSetsExt

CONSTANTS
  Files,
  Chain,       \* the blocks, from the first one syncBlock reads (200)
  MaxCrashes,  \* bound on crashes
  MaxFailures, \* bound on failed reads, writes and retrievals of events
  Torn         \* a file that does not parse

Kinds == {"user", "deleted"}
Blocks == 1 .. Len(Chain)

(* A block holds the account's declarations and deletions, in order.       *)
ASSUME ChainAssumption == Chain \in Seq([Kinds -> Seq(Files)]) /\ Chain # <<>>
ASSUME BoundsAssumption == MaxCrashes \in Nat /\ MaxFailures \in Nat

First == 1     \* where the retrieval starts without a position
NoPosition == 0

VARIABLES
  height,    \* the chain's latest block
  posDb,     \* the position in leveldb
  posFile,   \* the position in <workspace>/syncblock
  db,        \* db[k]: the account's list of kind k in leveldb
  dir,       \* dir[k]: its list in the directory of kind k; <<>>: no file
  want,      \* the list of wanted files, which nothing reads
  pc,        \* the next step of syncBlock
  pos,       \* retrievedBlock
  known,     \* blockheight
  kind,      \* the kind of events being entered
  events,    \* the events retrieved ...
  i,         \* ... and the next one
  crashes, failures

store == <<posDb, posFile, db, dir, want>>
locals == <<pos, known, kind, events, i>>
counters == <<crashes, failures>>
vars == <<height, store, pc, locals, counters>>

TypeOK ==
  /\ height \in Blocks \cup {0}
  /\ posDb \in Blocks \cup {NoPosition} /\ posFile \in Blocks \cup {NoPosition}
  /\ db \in [Kinds -> Seq(Files)] /\ dir \in [Kinds -> {Torn} \cup Seq(Files)]
  /\ want \subseteq Files
  /\ pc \in {"start", "head", "retrieve", "save", "file", "want", "position"}
  /\ pos \in Blocks /\ known \in Blocks \cup {0}
  /\ kind \in Kinds /\ events \in Seq(Files) /\ i \in 1 .. Len(events) + 1
  /\ crashes \in 0 .. MaxCrashes /\ failures \in 0 .. MaxFailures

Init ==
  /\ height = 0
  /\ posDb = NoPosition /\ posFile = NoPosition
  /\ db = [k \in Kinds |-> <<>>] /\ dir = [k \in Kinds |-> <<>>] /\ want = {}
  /\ pc = "start" /\ pos = First /\ known = 0
  /\ kind = "user" /\ events = <<>> /\ i = 1
  /\ crashes = 0 /\ failures = 0

-----------------------------------------------------------------------------

Fails == failures < MaxFailures /\ failures' = failures + 1 /\ UNCHANGED crashes
Succeeds == UNCHANGED counters

(* Mutant: an absent position is taken for block 0.                        *)
StartFromZero ==
  /\ pc = "start"
  /\ Succeeds /\ pos' = Max({posDb, posFile})
  /\ known' = 0
  /\ pc' = "head"
  /\ UNCHANGED <<height, store, kind, events, i>>

(* The process starts: the larger of the two positions counts; leveldb is  *)
(* read twice before it is given up.                                       *)
Start ==
  /\ pc = "start"
  /\ \/ Succeeds /\ pos' = Max({First, posDb, posFile})
     \/ Fails /\ pos' = Max({First, posFile})
  /\ known' = 0
  /\ pc' = "head"
  /\ UNCHANGED <<height, store, kind, events, i>>

(* Mutant: the chain's height is queried once.                             *)
RefreshOnce ==
  /\ pc = "head" /\ known = 0 /\ known # height
  /\ known' = height
  /\ UNCHANGED <<height, store, pc, pos, kind, events, i, counters>>

(* QueryBlockNumber; a failed query is repeated.                           *)
RefreshHeight ==
  /\ pc = "head" /\ pos >= known /\ known # height
  /\ known' = height
  /\ UNCHANGED <<height, store, pc, pos, kind, events, i, counters>>

(* Mutant: the position is saved before the block's events.                *)
NextBlockEager ==
  /\ pc = "head" /\ pos < known
  /\ kind' = "user"
  /\ pc' = "retrieve"
  /\ posDb' = pos + 1
  /\ UNCHANGED <<height, posFile, db, dir, want, pos, known, events, i, counters>>

NextBlock ==
  /\ pc = "head" /\ pos < known
  /\ kind' = "user"
  /\ pc' = "retrieve"
  /\ UNCHANGED <<height, store, pos, known, events, i, counters>>

(* The error of a retrieval is ignored: the block then has no events.      *)
RetrieveEvents ==
  /\ pc = "retrieve"
  /\ \/ Succeeds /\ events' = Chain[pos][kind]
     \/ Fails /\ events' = <<>>
  /\ i' = 1
  /\ pc' = "save"
  /\ UNCHANGED <<height, store, pos, known, kind>>

(* One event: Get, append, Put.  When leveldb fails the list in the file   *)
(* takes it, except for the first event of all, which is lost.             *)
SaveEvent ==
  /\ pc = "save" /\ i <= Len(events)
  /\ \/ /\ Succeeds
        /\ db' = [db EXCEPT ![kind] = Append(@, events[i])]
        /\ i' = i + 1 /\ UNCHANGED pc
     \/ Fails /\ pc' = "file" /\ UNCHANGED <<db, i>>
     \/ Fails /\ db[kind] = <<>> /\ i' = i + 1 /\ UNCHANGED <<db, pc>>
  /\ UNCHANGED <<height, posDb, posFile, dir, want, pos, known, kind, events>>

(* Read, append and write in place: what does not parse stays as it is, a  *)
(* failed write may leave half a list, and a list that cannot be read is   *)
(* replaced by one with this event alone.                                  *)
AppendToFile ==
  \/ /\ Succeeds
     /\ dir' = [dir EXCEPT ![kind] =
                  IF @ = Torn THEN Torn ELSE Append(@, events[i])]
  \/ /\ Fails
     /\ \E l \in {dir[kind], Torn, <<events[i]>>} :
          dir' = [dir EXCEPT ![kind] = l]

(* Mutant: the event is tried again after the file has taken it.           *)
SaveToFileAgain ==
  /\ pc = "file"
  /\ AppendToFile
  /\ pc' = "save"
  /\ UNCHANGED <<height, posDb, posFile, db, want, pos, known, kind, events, i>>

(* saveUserFileToFile and saveUserDeletedFileToFile, whose error is only   *)
(* logged.                                                                 *)
SaveToFile ==
  /\ pc = "file"
  /\ AppendToFile
  /\ i' = i + 1
  /\ pc' = "save"
  /\ UNCHANGED <<height, posDb, posFile, db, want, pos, known, kind, events>>

EndOfEvents ==
  /\ pc = "save" /\ i > Len(events)
  /\ pc' = IF kind = "user" THEN "want" ELSE "position"
  /\ UNCHANGED <<height, store, locals, counters>>

(* The list of wanted files: a failure is passed over.                     *)
SaveWanted ==
  /\ pc = "want"
  /\ \/ Succeeds /\ want' = want \cup ToSet(events)
     \/ Fails /\ events # <<>> /\ UNCHANGED want
  /\ kind' = "deleted"
  /\ pc' = "retrieve"
  /\ UNCHANGED <<height, posDb, posFile, db, dir, pos, known, events, i>>

(* The block is done: its successor's number goes to leveldb, or else to   *)
(* the file.                                                               *)
SavePosition ==
  /\ pc = "position"
  /\ pos' = pos + 1
  /\ \/ Succeeds /\ posDb' = pos + 1 /\ UNCHANGED posFile
     \/ Fails /\ posFile' \in {pos + 1, posFile, NoPosition} /\ UNCHANGED posDb
  /\ pc' = "head"
  /\ UNCHANGED <<height, db, dir, want, known, kind, events, i>>

SyncBlock ==
  \/ Start \/ RefreshHeight \/ NextBlock \/ RetrieveEvents \/ SaveEvent
  \/ SaveToFile \/ EndOfEvents \/ SaveWanted \/ SavePosition

NewBlock ==
  /\ height < Len(Chain)
  /\ height' = height + 1
  /\ UNCHANGED <<store, pc, locals, counters>>

(* The process dies and starts again; a list it was writing is cut off.    *)
Crash ==
  /\ crashes < MaxCrashes
  /\ crashes' = crashes + 1
  /\ pc' = "start" /\ pos' = First /\ known' = 0
  /\ kind' = "user" /\ events' = <<>> /\ i' = 1
  /\ IF pc = "file"
     THEN dir' \in {dir, [dir EXCEPT ![kind] = Torn]}
     ELSE UNCHANGED dir
  /\ UNCHANGED <<height, posDb, posFile, db, want, failures>>

Next == SyncBlock \/ NewBlock \/ Crash

Spec == Init /\ [][Next]_vars

(* The loop goes on; blocks need not come.                                 *)
FairSpec == Spec /\ WF_vars(SyncBlock)

-----------------------------------------------------------------------------
(* GET /restore                                                            *)

FileList(k) == IF dir[k] = Torn THEN <<>> ELSE dir[k]

(* Merging the two lists of deletions compares with the element of the     *)
(* outer index: past the end of a shorter, non-empty list it panics, and   *)
(* the request is answered 500.                                            *)
Panics == LET n == Len(FileList("deleted"))
          IN  n > 0 /\ Len(db["deleted"]) > n

Entered(k) == ToSet(FileList(k)) \cup ToSet(db[k])

(* Mutant: deletions are looked up in the file only.                       *)
GetRestoreFileOnly == Entered("user") \ ToSet(FileList("deleted"))

(* The list that is answered: none of a request that panics.               *)
GetRestore == IF Panics THEN {} ELSE Entered("user") \ Entered("deleted")

-----------------------------------------------------------------------------
(* Properties                                                              *)

(* The blocks a restart would not read again, and what they say.           *)
Passed == 1 .. Max({First, posDb, posFile}) - 1
Said(k, S) == UNION {ToSet(Chain[b][k]) : b \in S}

(* The position never runs ahead of the lists: whenever the process dies,  *)
(* every event of a block it will not read again has been entered.         *)
CrashLosesNothing ==
  failures = 0 => \A k \in Kinds : Said(k, Passed) \subseteq Entered(k)

Occurrences(s, f) == Cardinality({n \in DOMAIN s : s[n] = f})

(* The events about f in the blocks of S, each by its block and its place. *)
Events(k, f, S) ==
  UNION {{b} \X {n \in DOMAIN Chain[b][k] : Chain[b][k][n] = f} : b \in S}

(* In one life of the process no event is entered twice, in leveldb and in *)
(* the file, whichever of its calls fail.                                  *)
OncePerLife ==
  crashes = 0 =>
    \A k \in Kinds, f \in Files :
      Occurrences(db[k], f) + Occurrences(FileList(k), f)
        <= Cardinality(Events(k, f, 1 .. pos))

(* As long as no call has failed, so that every event is in leveldb, GET   *)
(* /restore lists the files of the passed blocks that were never           *)
(* deleted, and no file that was deleted in one of them for good, through  *)
(* any crashes and repeated blocks.  (A file that was deleted and uploaded *)
(* again is not listed: the order of the events is not kept.)              *)
RestoreTruthful ==
  failures = 0 =>
    /\ Said("user", Passed) \ Said("deleted", Blocks) \subseteq GetRestore
    /\ \A blk \in Passed, f \in GetRestore :
         f \in ToSet(Chain[blk]["deleted"])
           => f \in Said("user", blk + 1 .. Len(Chain))

(* Every block but the latest is retrieved in the end, after crashes and   *)
(* failures anywhere.                                                      *)
CatchesUp == \A h \in Blocks : (height = h) ~> (pos >= h)
=============================================================================
