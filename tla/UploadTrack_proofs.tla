-------------------------- MODULE UploadTrack_proofs --------------------------
(***************************************************************************)
(* Proofs about UploadTrack, for every set of accounts and requests, every *)
(* assignment of requests to accounts and every number of faults.          *)
(***************************************************************************)
EXTENDS UploadTrack, Sequences, TLAPS

(* The directories requests and records name.                              *)
LEMMA DirTypes ==
  ASSUME NEW r \in Requests
  PROVE  /\ Account[r] \in Users
         /\ Second[r] \in Pieces
         /\ Home(Account[r]) \in Dirs
         /\ Tmp(r) \in Dirs
         /\ Copy \in Dirs
         /\ \A dup \in BOOLEAN :
              /\ NewRecord(r, dup, Home(Account[r])) \in RecordInfo
              /\ NewRecord(r, dup, Tmp(r)) \in RecordInfo
              /\ NewRecord(r, dup, Copy) \in RecordInfo
<1>1. Account[r] \in Users /\ Second[r] \in Pieces
  BY AccountAssumption, SecondAssumption DEF Pieces
<1>2. Home(Account[r]) \in Dirs /\ Tmp(r) \in Dirs /\ Copy \in Dirs
  BY <1>1 DEF Dirs
<1> QED
  BY <1>1, <1>2 DEF NewRecord, RecordInfo

(* What a step adds to the directories: the pieces of a PUT, in its own    *)
(* directory and then in its account's, and those of a downloaded copy.    *)
LEMMA FilesStep ==
  ASSUME [Next]_vars
  PROVE  \/ files' \subseteq files
         \/ \E r \in Requests : PutBegin(r) \/ MoveHome(r) \/ MoveRest(r)
         \/ CopyArrives
<1> USE DEF chain, disk, thread, history, RemoveAll, Without
<1>1. ASSUME NEW r \in Requests, Put(r)
      PROVE  \/ files' \subseteq files
             \/ PutBegin(r) \/ MoveHome(r) \/ MoveRest(r)
  <2>1. CASE Deduplication(r)
    BY <2>1 DEF Deduplication, DedupOwned, DedupStored, DedupMissing,
          DedupDeclare, DedupOwnOrder, DedupOtherOrder, DedupStat,
          DedupNoOrder, DedupCreate, DedupWrite
  <2>2. CASE FileProcess(r)
    BY <2>2 DEF FileProcess, StatHome, AlreadyTracked, NotTracked,
          RenameSaved, PutRecord, PutOrder, LeaveChunks
  <2> QED
    BY <1>1, <2>1, <2>2 DEF Put
<1>2. CASE \E r \in Requests : Delete(r) \/ Restore(r) \/ View(r)
  BY <1>2 DEF Delete, DeleteTx, DeleteHome, DeleteTrack, Restore,
        RestoreBegin, RestoreWrite, View, ViewQueryFile, ViewQueryDeal,
        ViewHasTrackFile
<1>3. CASE TrackFile \/ TrackQueryFails
  <2>1. CASE CleanData
    BY <2>1 DEF CleanData
  <2>2. CASE ~CleanData
    BY <1>3, <2>2 DEF TrackFile, TrackQueryFails, ThreadStart,
          ParseTrackFile, TrackQueryFile, DropRecord, TrackQueryDeal,
          TrackRewrite, TrackQueryAuth, TrackDeclare, TrackConfirm,
          DupQueryFile, DupDeclare, DupQueryDeal, DupPromote,
          ShardCopyFails, StorageData
  <2> QED
    BY <2>1, <2>2
<1>4. CASE \/ OrderCompletes \/ OrderExpires \/ Crash \/ CopyLeaves
           \/ UNCHANGED vars
           \/ \E u \in Users : OtherGatewayDeclares(u) \/ Deauthorise(u)
           \/ \E u \in Users, dir \in Dirs : Expire(u, dir)
  BY <1>4 DEF OrderCompletes, OrderExpires, Crash, CopyLeaves,
        OtherGatewayDeclares, Deauthorise, Expire, vars
<1> QED
  BY <1>1, <1>2, <1>3, <1>4 DEF Next

(* Only pieces, and only in directories.                                   *)
LEMMA FilesTyped ==
  ASSUME TypeOK, [Next]_vars
  PROVE  files' \subseteq Dirs \X Pieces
<1>1. ASSUME NEW dir \in Dirs, NEW S \in SUBSET Pieces
      PROVE  In(dir, S) \subseteq Dirs \X Pieces
  BY <1>1 DEF In
<1>2. files \subseteq Dirs \X Pieces
  BY DEF TypeOK
<1>3. {".", "chunk-info"} \cup Fragments \subseteq Pieces
  BY DEF Pieces
<1>4. ASSUME NEW r \in Requests, PutBegin(r)
      PROVE  files' \subseteq Dirs \X Pieces
  <2> DEFINE S == {".", Second[r]} \cup Fragments
                  \cup (IF r \in Chunked THEN {"chunk-info"} ELSE {})
  <2>1. S \in SUBSET Pieces /\ Tmp(r) \in Dirs
    BY <1>3, DirTypes
  <2>2. files' = files \cup In(Tmp(r), S)
    BY <1>4 DEF PutBegin
  <2> HIDE DEF S
  <2> QED
    BY <1>1, <1>2, <2>1, <2>2
<1>5. ASSUME NEW r \in Requests, MoveHome(r)
      PROVE  files' \subseteq Dirs \X Pieces
  <2>1. PICK S : /\ S \subseteq Pieces
                 /\ files' \subseteq files \cup In(Home(Account[r]), S)
    BY <1>3, <1>5 DEF MoveHome, Names, Without
  <2>2. Home(Account[r]) \in Dirs
    BY DirTypes
  <2> QED
    BY <1>1, <1>2, <2>1, <2>2
<1>6. ASSUME NEW r \in Requests, MoveRest(r)
      PROVE  files' \subseteq Dirs \X Pieces
  <2>1. PICK S : /\ S \subseteq Pieces
                 /\ files' \subseteq files \cup In(Home(Account[r]), S)
    BY <1>6 DEF MoveRest, Names, Without
  <2>2. Home(Account[r]) \in Dirs
    BY DirTypes
  <2> QED
    BY <1>1, <1>2, <2>1, <2>2
<1>7. CASE CopyArrives
  <2>1. Copy \in Dirs /\ {"."} \cup Fragments \in SUBSET Pieces
    BY <1>3 DEF Dirs
  <2> QED
    BY <1>1, <1>2, <1>7, <2>1 DEF CopyArrives
<1> QED
  BY <1>2, <1>4, <1>5, <1>6, <1>7, FilesStep

(* The fault counter stays within its bound.                               *)
LEMMA FaultTypes ==
  ASSUME TypeOK, Fault \/ NoFault
  PROVE  faults' \in 0 .. MaxFaults
  BY FaultsAssumption DEF TypeOK, Fault, NoFault

(* A declaration, successful or not, leaves the chain well-typed.          *)
LEMMA DeclareTypes ==
  ASSUME TypeOK, NEW u \in Users, NEW ok \in BOOLEAN,
         GenerateStorageOrder(u, ok)
  PROVE  /\ stored' = stored
         /\ owners' \subseteq Users
         /\ order' \in Users \cup {NoOrder}
         /\ delivered' \in BOOLEAN
         /\ faults' \in 0 .. MaxFaults
<1>1. Accept(u) \/ UNCHANGED chain
  BY DEF GenerateStorageOrder
<1>2. Fault \/ NoFault
  BY DEF GenerateStorageOrder
<1>3. faults' \in 0 .. MaxFaults
  BY <1>2, FaultTypes
<1>4. CASE Accept(u)
  BY <1>3, <1>4 DEF TypeOK, Accept
<1>5. CASE UNCHANGED chain
  BY <1>3, <1>5 DEF TypeOK, chain
<1> QED
  BY <1>1, <1>4, <1>5

(* Everything the gateway keeps about an upload keeps its type; trackFile  *)
(* never works on a record it has not parsed.                              *)
THEOREM TypeCorrect == Spec => []TypeOK
<1>1. Init => TypeOK
  <2>1. ASSUME Init
        PROVE  /\ pc \in [Requests -> RequestSteps]
               /\ faults \in 0 .. MaxFaults
               /\ tpc \notin ThreadSteps
    BY <2>1, FaultsAssumption DEF Init, ThreadSteps, RequestSteps
  <2> QED
    BY <2>1 DEF Init, TypeOK
<1>2. TypeOK /\ [Next]_vars => TypeOK'
  <2> SUFFICES ASSUME TypeOK, [Next]_vars
               PROVE  TypeOK'
    OBVIOUS
  <2>0. files' \subseteq Dirs \X Pieces
    BY FilesTyped
  <2> USE FaultsAssumption, <2>0
      DEF TypeOK, Goto, At, Answer200, NoFault, Fault,
          WriteTrackFile, DeleteTrackFile, ThreadAt, ThreadGoto, ThreadReturns,
          chain, disk, thread, history, PutSteps, DeleteSteps, OtherSteps,
          RequestSteps, ThreadSteps, Answered, AnswerError
  <2>1. ASSUME NEW r \in Requests, PutBegin(r)
        PROVE  TypeOK'
    BY <2>1, DirTypes, ZenonT(40) DEF PutBegin
  <2>2. ASSUME NEW r \in Requests, Deduplication(r)
        PROVE  TypeOK'
    <3>1. CASE DedupDeclare(r)
      <4>1. PICK ok \in BOOLEAN : GenerateStorageOrder(Account[r], ok)
        BY <3>1 DEF DedupDeclare
      <4>2. Account[r] \in Users
        BY DirTypes
      <4> QED
        BY <3>1, <4>1, <4>2, DeclareTypes DEF DedupDeclare
    <3>2. CASE DedupCreate(r)
      BY <3>2, DirTypes DEF DedupCreate
    <3>3. CASE \/ DedupOwned(r) \/ DedupStored(r) \/ DedupMissing(r)
               \/ DedupOwnOrder(r) \/ DedupOtherOrder(r) \/ DedupStat(r)
               \/ DedupNoOrder(r)
      BY <3>3, DirTypes DEF DedupOwned, DedupStored, DedupMissing,
            DedupOwnOrder, DedupOtherOrder, DedupStat, DedupNoOrder
    <3>4. CASE DedupWrite(r)
      <4>1. NewRecord(r, TRUE, Tmp(r)) \in RecordInfo
        BY DirTypes
      <4>2. /\ record' \in RecordInfo \cup {NoRecord, Torn}
            /\ openBy' \subseteq Requests
        BY <3>4, <4>1 DEF DedupWrite, AfterWrite
      <4>3. faults' \in 0 .. MaxFaults
        <5>1. Fault \/ NoFault
          BY <3>4 DEF DedupWrite
        <5> QED
          BY <5>1, FaultTypes
      <4>4. pc' \in [Requests -> RequestSteps]
        BY <3>4 DEF DedupWrite
      <4>5. /\ acked' \subseteq Users
            /\ UNCHANGED <<deleted, outside, notFound, swept>>
        BY <3>4, DirTypes DEF DedupWrite
      <4>6. UNCHANGED <<chain, auth, thread>>
        BY <3>4 DEF DedupWrite
      <4> QED
        BY <4>2, <4>3, <4>4, <4>5, <4>6
    <3> QED
      BY <2>2, <3>1, <3>2, <3>3, <3>4 DEF Deduplication
  <2>3. ASSUME NEW r \in Requests, FileProcess(r)
        PROVE  TypeOK'
    <3>1. CASE PutOrder(r)
      <4>1. PICK ok \in BOOLEAN : GenerateStorageOrder(Account[r], ok)
        BY <3>1 DEF PutOrder
      <4>2. Account[r] \in Users
        BY DirTypes
      <4> QED
        BY <3>1, <4>1, <4>2, DeclareTypes DEF PutOrder
    <3>2. CASE StatHome(r) \/ AlreadyTracked(r) \/ NotTracked(r)
               \/ LeaveChunks(r)
      BY <3>2, DirTypes DEF StatHome, AlreadyTracked, NotTracked, LeaveChunks
    <3>3. CASE MoveHome(r) \/ MoveRest(r) \/ RenameSaved(r)
      <4>1. faults' \in 0 .. MaxFaults
        <5>1. Fault \/ NoFault
          BY <3>3 DEF MoveHome, MoveRest, RenameSaved
        <5> QED
          BY <5>1, FaultTypes
      <4>2. pc' \in [Requests -> RequestSteps]
        <5>1. \E step \in RequestSteps : Goto(r, step)
          BY <3>3 DEF MoveHome, MoveRest, RenameSaved
        <5> QED
          BY <5>1
      <4>3. /\ UNCHANGED <<chain, auth, record, openBy, thread, acked, deleted,
                           outside, notFound>>
            /\ swept' \subseteq Users
        BY <3>3, DirTypes DEF MoveHome, MoveRest, RenameSaved
      <4> QED
        BY <4>1, <4>2, <4>3
    <3>4. CASE PutRecord(r)
      <4>1. NewRecord(r, FALSE, Home(Account[r])) \in RecordInfo
        BY DirTypes
      <4>2. /\ record' \in RecordInfo \cup {NoRecord, Torn}
            /\ openBy' \subseteq Requests
        BY <3>4, <4>1 DEF PutRecord
      <4>3. faults' \in 0 .. MaxFaults
        <5>1. Fault \/ NoFault
          BY <3>4 DEF PutRecord
        <5> QED
          BY <5>1, FaultTypes
      <4>4. UNCHANGED <<chain, auth, thread, history>>
        BY <3>4 DEF PutRecord
      <4>5. pc' \in [Requests -> RequestSteps]
        BY <3>4 DEF PutRecord
      <4> QED
        BY <4>2, <4>3, <4>4, <4>5
    <3> QED
      BY <2>3, <3>1, <3>2, <3>3, <3>4 DEF FileProcess
  <2>4. ASSUME NEW r \in Requests, Delete(r)
        PROVE  TypeOK'
    <3>1. CASE DeleteTx(r)
      <4>1. pc' \in [Requests -> RequestSteps] /\ faults' \in 0 .. MaxFaults
        <5>1. Fault \/ NoFault
          BY <3>1 DEF DeleteTx
        <5> QED
          BY <3>1, <5>1, FaultTypes DEF DeleteTx
      <4>2. stored' \in BOOLEAN /\ owners' \subseteq Users /\ deleted' \subseteq Users
        BY <3>1, DirTypes DEF DeleteTx
      <4> QED
        BY <3>1, <4>1, <4>2 DEF DeleteTx
    <3>2. CASE DeleteHome(r) \/ DeleteTrack(r)
      BY <3>2 DEF DeleteHome, DeleteTrack
    <3> QED
      BY <2>4, <3>1, <3>2 DEF Delete
  <2>5. ASSUME NEW r \in Requests, Restore(r)
        PROVE  TypeOK'
    <3>1. CASE RestoreBegin(r)
      BY <3>1 DEF RestoreBegin
    <3>2. CASE RestoreWrite(r)
      <4>1. NewRecord(r, FALSE, Copy) \in RecordInfo
        BY DirTypes
      <4>2. /\ record' \in RecordInfo \cup {NoRecord, Torn}
            /\ openBy' \subseteq Requests
        BY <3>2, <4>1 DEF RestoreWrite
      <4>3. faults' \in 0 .. MaxFaults
        <5>1. Fault \/ NoFault
          BY <3>2 DEF RestoreWrite
        <5> QED
          BY <5>1, FaultTypes
      <4>4. UNCHANGED <<chain, auth, thread, history>>
        BY <3>2 DEF RestoreWrite
      <4>5. pc' \in [Requests -> RequestSteps]
        BY <3>2 DEF RestoreWrite
      <4> QED
        BY <4>2, <4>3, <4>4, <4>5
    <3> QED
      BY <2>5, <3>1, <3>2 DEF Restore
  <2>6. ASSUME NEW r \in Requests, View(r)
         PROVE  TypeOK'
    <3>1. CASE ViewQueryFile(r) \/ ViewQueryDeal(r)
      BY <3>1 DEF ViewQueryFile, ViewQueryDeal
    <3>2. CASE ViewHasTrackFile(r)
      BY <3>2 DEF ViewHasTrackFile
    <3> QED
      BY <2>6, <3>1, <3>2 DEF View
  <2>7. CASE TrackFile
    <3>1. CASE TrackDeclare \/ DupDeclare
      <4>1. trec \in RecordInfo
        BY <3>1 DEF TrackDeclare, DupDeclare
      <4>2. PICK ok \in BOOLEAN : GenerateStorageOrder(trec.owner, ok)
        BY <3>1 DEF TrackDeclare, DupDeclare
      <4>3. trec.owner \in Users
        BY <4>1 DEF RecordInfo
      <4> QED
        BY <3>1, <4>1, <4>2, <4>3, DeclareTypes DEF TrackDeclare, DupDeclare
    <3>2. CASE ThreadStart \/ ParseTrackFile \/ TrackQueryFile
      BY <3>2 DEF ThreadStart, ParseTrackFile, TrackQueryFile
    <3>3. CASE CleanData \/ DropRecord \/ TrackRewrite
      BY <3>3 DEF CleanData, DropRecord, TrackRewrite
    <3>4. CASE TrackQueryDeal \/ TrackQueryAuth \/ TrackConfirm
      BY <3>4 DEF TrackQueryDeal, TrackQueryAuth, TrackConfirm, WithOrder
    <3>5. CASE DupQueryFile \/ DupQueryDeal
      BY <3>5 DEF DupQueryFile, DupQueryDeal
    <3>6. CASE DupPromote
      <4>1. [trec EXCEPT !.duplicate = FALSE] \in RecordInfo
        BY <3>6 DEF DupPromote, RecordInfo
      <4> QED
        BY <3>6, <4>1 DEF DupPromote
    <3>7. CASE StorageData
      <4>1. delivered' \in BOOLEAN
        BY <3>7 DEF StorageData
      <4>2. faults' \in 0 .. MaxFaults
        BY <3>7 DEF StorageData
      <4> QED
        BY <3>7, <4>1, <4>2 DEF StorageData
    <3>8. CASE ShardCopyFails
      <4>1. faults' \in 0 .. MaxFaults
        BY <3>8, FaultTypes DEF ShardCopyFails
      <4> QED
        BY <3>8, <4>1 DEF ShardCopyFails
    <3> QED
      BY <2>7, <3>1, <3>2, <3>3, <3>4, <3>5, <3>6, <3>7, <3>8 DEF TrackFile
  <2>8. CASE TrackQueryFails \/ OrderCompletes \/ OrderExpires \/ Crash
    <3>1. CASE TrackQueryFails
      BY <3>1 DEF TrackQueryFails
    <3>2. CASE OrderCompletes
      BY <3>2 DEF OrderCompletes
    <3>3. CASE OrderExpires
      <4>1. faults' \in 0 .. MaxFaults
        BY <3>3, FaultTypes DEF OrderExpires
      <4> QED
        BY <3>3, <4>1 DEF OrderExpires
    <3>4. CASE Crash
      <4>1. pc' \in [Requests -> RequestSteps]
        BY <3>4 DEF Crash
      <4> QED
        BY <3>4, <4>1 DEF Crash
    <3> QED
      BY <2>8, <3>1, <3>2, <3>3, <3>4
  <2>9. ASSUME NEW u \in Users, OtherGatewayDeclares(u) \/ Deauthorise(u)
        PROVE  TypeOK'
    BY <2>9 DEF OtherGatewayDeclares, Deauthorise
  <2>10. CASE \/ CopyArrives \/ CopyLeaves
              \/ \E u \in Users, dir \in Dirs : Expire(u, dir)
    <3>1. CASE CopyArrives \/ CopyLeaves
      BY <3>1 DEF CopyArrives, CopyLeaves
    <3>2. ASSUME NEW u \in Users, NEW dir \in Dirs, Expire(u, dir)
          PROVE  TypeOK'
      <4>1. swept' \subseteq Users
        BY <3>2 DEF Expire
      <4>2. UNCHANGED <<chain, auth, record, openBy, pc, thread, acked, deleted,
                        outside, notFound, faults>>
        BY <3>2 DEF Expire
      <4> QED
        BY <4>1, <4>2
    <3> QED
      BY <2>10, <3>1, <3>2
  <2>11. CASE UNCHANGED vars
    BY <2>11 DEF vars
  <2> QED
    BY <2>1, <2>2, <2>3, <2>4, <2>5, <2>6, <2>7, <2>8, <2>9, <2>10, <2>11
       DEF Next, Put
<1> QED
  BY <1>1, <1>2, PTL DEF Spec

-----------------------------------------------------------------------------
(* No step makes up for a deletion, a withdrawn authorisation or another   *)
(* gateway's declaration.                                                  *)
LEMMA OnlyGrows ==
  ASSUME [Next]_vars
  PROVE  /\ auth' \subseteq auth /\ deleted \subseteq deleted'
         /\ outside => outside'
         /\ swept \subseteq swept'
<1> USE DEF chain, disk, thread, history
<1>1. ASSUME NEW r \in Requests, Put(r)
      PROVE  UNCHANGED <<auth, deleted, outside>> /\ swept \subseteq swept'
  <2>1. CASE PutBegin(r)
    BY <2>1 DEF PutBegin
  <2>2. CASE FileProcess(r)
    BY <2>2 DEF FileProcess, StatHome, AlreadyTracked, NotTracked, MoveHome,
          MoveRest, RenameSaved, PutRecord, PutOrder, Answer200, LeaveChunks
  <2>3. CASE Deduplication(r)
    BY <2>3 DEF Deduplication, DedupOwned, DedupStored, DedupMissing,
          DedupDeclare, DedupOwnOrder, DedupOtherOrder, DedupStat,
          DedupNoOrder, DedupCreate, DedupWrite, Answer200
  <2> QED
    BY <1>1, <2>1, <2>2, <2>3 DEF Put
<1>2. CASE \E r \in Requests : Delete(r) \/ Restore(r) \/ View(r)
  <2>1. CASE \E r \in Requests : Delete(r)
    <3>1. PICK r \in Requests : DeleteTx(r) \/ DeleteHome(r) \/ DeleteTrack(r)
      BY <2>1 DEF Delete
    <3>2. UNCHANGED <<auth, outside, swept>>
      BY <3>1 DEF DeleteTx, DeleteHome, DeleteTrack
    <3>3. deleted' = deleted \/ deleted' = deleted \cup {Account[r]}
      BY <3>1 DEF DeleteTx, DeleteHome, DeleteTrack
    <3> QED
      BY <3>2, <3>3
  <2>2. CASE \E r \in Requests : Restore(r) \/ View(r)
    <3>1. PICK r \in Requests : Restore(r) \/ View(r)
      BY <2>2
    <3>2. UNCHANGED <<auth, deleted, outside, swept>>
      <4>1. CASE Restore(r)
        BY <4>1 DEF Restore, RestoreBegin, RestoreWrite
      <4>2. CASE View(r)
        BY <4>2 DEF View, ViewQueryFile, ViewQueryDeal, ViewHasTrackFile
      <4> QED
        BY <3>1, <4>1, <4>2
    <3> QED
      BY <3>2
  <2> QED
    BY <1>2, <2>1, <2>2
<1>3. CASE TrackFile \/ TrackQueryFails
  BY <1>3 DEF TrackFile, TrackQueryFails, ThreadStart, ParseTrackFile,
              TrackQueryFile, CleanData, DropRecord, TrackQueryDeal,
              TrackRewrite, TrackQueryAuth, TrackDeclare, TrackConfirm,
              DupQueryFile, DupDeclare, DupQueryDeal, DupPromote,
              ShardCopyFails, StorageData
<1>4. CASE \/ OrderCompletes \/ OrderExpires \/ Crash
           \/ CopyArrives \/ CopyLeaves \/ UNCHANGED vars
           \/ \E u \in Users : OtherGatewayDeclares(u) \/ Deauthorise(u)
           \/ \E u \in Users, dir \in Dirs : Expire(u, dir)
  <2>1. CASE \E u \in Users, dir \in Dirs : Expire(u, dir)
    BY <2>1 DEF Expire
  <2>2. CASE \E u \in Users : OtherGatewayDeclares(u) \/ Deauthorise(u)
    BY <2>2 DEF OtherGatewayDeclares, Deauthorise
  <2>3. CASE \/ OrderCompletes \/ OrderExpires \/ Crash
             \/ CopyArrives \/ CopyLeaves \/ UNCHANGED vars
    BY <2>3 DEF OrderCompletes, OrderExpires, Crash, CopyArrives, CopyLeaves,
          vars
  <2> QED
    BY <1>4, <2>1, <2>2, <2>3
<1> QED
  BY <1>1, <1>2, <1>3, <1>4 DEF Next

(* What is undisturbed after a step was so before.                         *)
LEMMA UndisturbedBefore ==
  ASSUME TypeOK, [Next]_vars, Undisturbed'
  PROVE  Undisturbed
  BY OnlyGrows DEF Undisturbed, TypeOK

(* A declaration never loses the file: it leaves it stored or not, and can *)
(* open an order only for a file that is not.                              *)
LEMMA DeclareKeeps ==
  ASSUME NEW u, NEW ok, GenerateStorageOrder(u, ok)
  PROVE  /\ stored' = stored
         /\ order' = order \/ ~stored
  BY DEF GenerateStorageOrder, Accept, chain

(* FileInv holds of every reachable state: see the comments there.         *)
THEOREM FileKept == Spec => []FileInv
<1>1. Init => FileInv
  BY NoOrderAssumption, RecordAssumption DEF Init, FileInv, DeleteSteps
<1>2. TypeOK /\ TypeOK' /\ FileInv /\ [Next]_vars => FileInv'
  <2> SUFFICES ASSUME TypeOK, TypeOK', FileInv, [Next]_vars
               PROVE  FileInv'
    OBVIOUS
  <2>1. \A r \in Requests : pc'[r] \in DeleteSteps => deleted' # {}
    <3> USE DEF FileInv, TypeOK, DeleteSteps, Goto, At, Answer200, Answered,
                AnswerError, chain, disk, thread, history
    <3>1. ASSUME NEW r \in Requests, PutBegin(r) \/ Deduplication(r)
          PROVE  \A q \in Requests : pc'[q] \in DeleteSteps => deleted' # {}
      BY <3>1 DEF PutBegin, Deduplication, DedupOwned, DedupStored,
                  DedupMissing, DedupDeclare, DedupOwnOrder, DedupOtherOrder,
                  DedupStat, DedupNoOrder, DedupCreate, DedupWrite
    <3>2. ASSUME NEW r \in Requests, FileProcess(r)
          PROVE  \A q \in Requests : pc'[q] \in DeleteSteps => deleted' # {}
      BY <3>2 DEF FileProcess, StatHome, AlreadyTracked, NotTracked, MoveHome,
                  MoveRest, RenameSaved, PutRecord, PutOrder, LeaveChunks
    <3>3. ASSUME NEW r \in Requests, Delete(r)
          PROVE  \A q \in Requests : pc'[q] \in DeleteSteps => deleted' # {}
      BY <3>3 DEF Delete, DeleteTx, DeleteHome, DeleteTrack
    <3>4. CASE TrackFile \/ TrackQueryFails
      <4>1. UNCHANGED <<pc, deleted>>
        BY <3>4 DEF TrackFile, TrackQueryFails, ThreadStart, ParseTrackFile,
                TrackQueryFile, CleanData, DropRecord, TrackQueryDeal,
                TrackRewrite, TrackQueryAuth, TrackDeclare, TrackConfirm,
                DupQueryFile, DupDeclare, DupQueryDeal, DupPromote,
                ShardCopyFails, StorageData
      <4> QED
        BY <4>1
    <3>5. ASSUME NEW r \in Requests, Restore(r) \/ View(r)
          PROVE  \A q \in Requests : pc'[q] \in DeleteSteps => deleted' # {}
      BY <3>5 DEF Restore, RestoreBegin, RestoreWrite, View, ViewQueryFile,
                  ViewQueryDeal, ViewHasTrackFile
    <3>6. CASE \/ OrderCompletes \/ OrderExpires \/ UNCHANGED vars
               \/ CopyArrives \/ CopyLeaves
               \/ \E u \in Users : OtherGatewayDeclares(u) \/ Deauthorise(u)
               \/ \E u \in Users, dir \in Dirs : Expire(u, dir)
      <4>1. UNCHANGED <<pc, deleted>>
        BY <3>6 DEF OrderCompletes, OrderExpires, OtherGatewayDeclares,
                    Deauthorise, CopyArrives, CopyLeaves, Expire, vars
      <4> QED
        BY <4>1
    <3>7. CASE Crash
      BY <3>7 DEF Crash
    <3> QED
      BY <3>1, <3>2, <3>3, <3>4, <3>5, <3>6, <3>7 DEF Next, Put
  <2>2. ASSUME Undisturbed'
        PROVE  FileInv'
    <3>1. Undisturbed
      BY <2>2, UndisturbedBefore
    <3> USE <2>1, <3>1, RecordAssumption, NoOrderAssumption
        DEF FileInv, TypeOK, Kept, Recorded, Goto, At, WriteTrackFile,
            DeleteTrackFile, Answered, AnswerError, chain, disk, thread,
            history
    <3>2. ASSUME NEW r \in Requests, PutBegin(r)
          PROVE  FileInv'
      BY <3>2 DEF PutBegin
    <3>3. ASSUME NEW r \in Requests, DedupOwned(r) \/ DedupOwnOrder(r)
          PROVE  FileInv'
      <4>1. Kept /\ Account[r] \in Users
        BY <3>3, DirTypes DEF DedupOwned, DedupOwnOrder
      <4> QED
        BY <3>3, <4>1 DEF DedupOwned, DedupOwnOrder, Answer200
    <3>4. ASSUME NEW r \in Requests,
                 DedupStored(r) \/ DedupMissing(r) \/ DedupNoOrder(r)
          PROVE  FileInv'
      BY <3>4 DEF DedupStored, DedupMissing, DedupNoOrder
    <3>5. ASSUME NEW r \in Requests, DedupDeclare(r)
          PROVE  FileInv'
      <4>1. PICK ok \in BOOLEAN : GenerateStorageOrder(Account[r], ok)
        BY <3>5 DEF DedupDeclare
      <4>2. stored /\ stored' /\ order' = order
        BY <3>5, <4>1, DeclareKeeps, DirTypes DEF DedupDeclare
      <4> QED
        BY <3>5, <4>2 DEF DedupDeclare, Answer200
    <3>6. ASSUME NEW r \in Requests, DedupOtherOrder(r) \/ DedupStat(r)
          PROVE  FileInv'
      BY <3>6 DEF DedupOtherOrder, DedupStat, HasTrackFile
    <3>7. ASSUME NEW r \in Requests, DedupCreate(r) \/ DedupWrite(r)
          PROVE  FileInv'
      <4>1. stored /\ stored' /\ order' = order
        BY <3>7 DEF DedupCreate, DedupWrite
      <4>2. /\ UNCHANGED <<auth, deleted, outside, tpc, trec>>
            /\ order = NoOrder
        BY <3>7, <4>1 DEF DedupCreate, DedupWrite, Answer200
      <4>3. \/ Goto(r, "write") \/ Goto(r, Answered(r))
        BY <3>7 DEF DedupCreate, DedupWrite, Answer200
      <4> QED
        BY <4>1, <4>2, <4>3
    <3>8. ASSUME NEW r \in Requests, AlreadyTracked(r)
          PROVE  FileInv'
      BY <3>8 DEF AlreadyTracked, Answer200, HasTrackFile
    <3>9. ASSUME NEW r \in Requests,
                 \/ StatHome(r) \/ NotTracked(r) \/ MoveHome(r) \/ MoveRest(r)
                 \/ RenameSaved(r) \/ LeaveChunks(r)
          PROVE  FileInv'
      <4>1. /\ UNCHANGED <<chain, auth, record, acked, deleted, outside, thread>>
            /\ \E step \in {"hastrack", "move", "moving", "rename", "record",
                            "leave", "done"} : Goto(r, step)
        BY <3>9 DEF StatHome, NotTracked, MoveHome, MoveRest, RenameSaved,
              LeaveChunks
      <4> QED
        BY <4>1
    <3>10. ASSUME NEW r \in Requests, PutRecord(r)
           PROVE  FileInv'
      <4>1. NewRecord(r, FALSE, Home(Account[r])) \in RecordInfo
        BY DirTypes
      <4>2. UNCHANGED record \/ record' \in RecordInfo
        BY <3>10, <4>1 DEF PutRecord
      <4> QED
        BY <3>10, <4>1, <4>2 DEF PutRecord
    <3>11. ASSUME NEW r \in Requests, PutOrder(r)
           PROVE  FileInv'
      <4>1. PICK ok \in BOOLEAN : GenerateStorageOrder(Account[r], ok)
        BY <3>11 DEF PutOrder
      <4>2. stored' = stored /\ (order' = order \/ ~stored)
        BY <4>1, DeclareKeeps, DirTypes
      <4> QED
        BY <3>11, <4>2 DEF PutOrder, Answer200
    <3>12. ASSUME NEW r \in Requests, Delete(r)
           PROVE  FALSE
      BY <2>2, <3>12, DirTypes
         DEF Delete, DeleteTx, DeleteHome, DeleteTrack, Undisturbed,
             DeleteSteps
    <3>13. CASE ThreadStart \/ ParseTrackFile \/ TrackQueryFile
                \/ CleanData \/ TrackQueryDeal \/ TrackConfirm
      BY <3>13 DEF ThreadStart, ParseTrackFile, TrackQueryFile, CleanData,
                   TrackQueryDeal, TrackConfirm, WithOrder, ThreadAt,
                   ThreadGoto, ThreadReturns
    <3>14. CASE DropRecord
      BY <3>14 DEF DropRecord, ThreadAt, ThreadReturns
    <3>15. CASE TrackRewrite
      BY <3>15 DEF TrackRewrite, ThreadAt, ThreadGoto, ThreadSteps
    <3>16. CASE TrackQueryAuth
      BY <3>16 DEF TrackQueryAuth, ThreadAt, ThreadGoto, ThreadSteps,
                   Undisturbed, RecordInfo
    <3>17. CASE TrackDeclare \/ DupDeclare
      <4>1. trec.owner \in Users
        BY <3>17 DEF TrackDeclare, DupDeclare, ThreadAt, ThreadSteps,
                     RecordInfo
      <4>2. stored' = stored /\ (order' = order \/ ~stored)
        BY <3>17, <4>1, DeclareKeeps DEF TrackDeclare, DupDeclare
      <4> QED
        BY <3>17, <4>2 DEF TrackDeclare, DupDeclare, ThreadAt, ThreadGoto,
                           ThreadReturns
    <3>18. CASE DupQueryFile \/ DupQueryDeal
      BY <3>18 DEF DupQueryFile, DupQueryDeal, ThreadAt, ThreadGoto,
                   ThreadReturns
    <3>19. CASE DupPromote
      <4>1. [trec EXCEPT !.duplicate = FALSE] \in RecordInfo
        BY <3>19 DEF DupPromote, RecordInfo, ThreadAt, ThreadSteps
      <4> QED
        BY <3>19, <4>1 DEF DupPromote, ThreadAt, ThreadReturns
    <3>20. CASE StorageData \/ TrackQueryFails \/ ShardCopyFails
      BY <3>20 DEF StorageData, TrackQueryFails, ShardCopyFails, ThreadAt,
                   ThreadReturns
    <3>21. CASE \/ OrderCompletes \/ OrderExpires \/ CopyArrives \/ CopyLeaves
                \/ \E u \in Users, dir \in Dirs : Expire(u, dir)
      BY <3>21
         DEF OrderCompletes, OrderExpires, CopyArrives, CopyLeaves, Expire
    <3>22. ASSUME NEW r \in Requests, Restore(r)
           PROVE  FileInv'
      <4>1. NewRecord(r, FALSE, Copy) \in RecordInfo
        BY DirTypes
      <4>2. UNCHANGED record \/ record' \in RecordInfo
        BY <3>22, <4>1 DEF Restore, RestoreBegin, RestoreWrite
      <4> QED
        BY <3>22, <4>2 DEF Restore, RestoreBegin, RestoreWrite
    <3>23. ASSUME NEW r \in Requests, View(r)
           PROVE  FileInv'
      BY <3>23 DEF View, ViewQueryFile, ViewQueryDeal, ViewHasTrackFile
    <3>24. CASE \E u \in Users : OtherGatewayDeclares(u) \/ Deauthorise(u)
      BY <2>2, <3>24 DEF OtherGatewayDeclares, Deauthorise, Undisturbed
    <3>25. CASE Crash
      BY <3>25 DEF Crash, ThreadReturns
    <3>26. CASE UNCHANGED vars
      BY <3>26 DEF vars, Undisturbed
    <3>27. CASE \E r \in Requests : Put(r)
      BY <3>2, <3>3, <3>4, <3>5, <3>6, <3>7, <3>8, <3>9, <3>10, <3>11, <3>27
         DEF Put, Deduplication, FileProcess
    <3>28. CASE TrackFile
      BY <3>13, <3>14, <3>15, <3>16, <3>17, <3>18, <3>19, <3>20, <3>28
         DEF TrackFile
    <3> QED
      BY <3>12, <3>20, <3>21, <3>22, <3>23, <3>24, <3>25, <3>26, <3>27, <3>28
         DEF Next
  <2> QED
    BY <2>1, <2>2 DEF FileInv
<1> QED
  BY <1>1, <1>2, TypeCorrect, PTL DEF Spec

(* An acknowledged file is on the chain or in a record that parses, for    *)
(* any number of accounts and requests.                                    *)
THEOREM AckedFileKept == Spec => []NoAckedFileLost
<1>1. FileInv => NoAckedFileLost
  BY DEF FileInv, NoAckedFileLost, Kept
<1> QED
  BY <1>1, FileKept, PTL

(* Every pending order of this gateway has a record to resume it from.     *)
THEOREM OrderRecorded == Spec => []PendingOrderIsRecorded
<1>1. FileInv => PendingOrderIsRecorded
  BY DEF FileInv, PendingOrderIsRecorded
<1> QED
  BY <1>1, FileKept, PTL

(* Only the last lookup of a view adds to the views answered 404.          *)
LEMMA OnlyViewsMiss ==
  ASSUME [Next]_vars, notFound' # notFound
  PROVE  \E r \in Requests : ViewHasTrackFile(r)
<1> USE DEF chain, disk, thread, history
<1>1. ASSUME NEW r \in Requests, Put(r)
      PROVE  UNCHANGED notFound
  <2>1. CASE PutBegin(r)
    BY <2>1 DEF PutBegin
  <2>2. CASE FileProcess(r)
    BY <2>2 DEF FileProcess, StatHome, AlreadyTracked, NotTracked, MoveHome,
          MoveRest, RenameSaved, PutRecord, PutOrder, Answer200, LeaveChunks
  <2>3. CASE Deduplication(r)
    BY <2>3 DEF Deduplication, DedupOwned, DedupStored, DedupMissing,
          DedupDeclare, DedupOwnOrder, DedupOtherOrder, DedupStat,
          DedupNoOrder, DedupCreate, DedupWrite, Answer200
  <2> QED
    BY <1>1, <2>1, <2>2, <2>3 DEF Put
<1>2. ASSUME NEW r \in Requests, Delete(r) \/ Restore(r)
      PROVE  UNCHANGED notFound
  BY <1>2 DEF Delete, DeleteTx, DeleteHome, DeleteTrack, Restore,
              RestoreBegin, RestoreWrite
<1>3. ASSUME NEW r \in Requests, View(r)
      PROVE  UNCHANGED notFound \/ ViewHasTrackFile(r)
  BY <1>3 DEF View, ViewQueryFile, ViewQueryDeal
<1>4. CASE TrackFile \/ TrackQueryFails
  BY <1>4 DEF TrackFile, TrackQueryFails, ThreadStart, ParseTrackFile,
              TrackQueryFile, CleanData, DropRecord, TrackQueryDeal,
              TrackRewrite, TrackQueryAuth, TrackDeclare, TrackConfirm,
              DupQueryFile, DupDeclare, DupQueryDeal, DupPromote,
              ShardCopyFails, StorageData
<1>5. CASE \/ OrderCompletes \/ OrderExpires \/ Crash \/ CopyArrives
           \/ CopyLeaves \/ UNCHANGED vars
           \/ \E u \in Users : OtherGatewayDeclares(u) \/ Deauthorise(u)
           \/ \E u \in Users, dir \in Dirs : Expire(u, dir)
  BY <1>5 DEF OrderCompletes, OrderExpires, Crash, CopyArrives, CopyLeaves,
              OtherGatewayDeclares, Deauthorise, Expire, vars
<1> QED
  BY <1>1, <1>2, <1>3, <1>4, <1>5 DEF Next

(* A view answers 404 for an acknowledged file only when the file has      *)
(* reached the chain while the view was looking elsewhere.                 *)
THEOREM ViewTruthful == Spec => ViewMissesOnlyStored
<1>1. FileInv /\ [Next]_vars
        => [notFound' # notFound /\ Undisturbed /\ acked # {} => stored]_vars
  <2> SUFFICES ASSUME FileInv, [Next]_vars, notFound' # notFound,
                      Undisturbed, acked # {}
               PROVE  stored
    BY DEF vars
  <2>1. PICK r \in Requests : ViewHasTrackFile(r)
    BY OnlyViewsMiss
  <2>2. record = NoRecord
    BY <2>1 DEF ViewHasTrackFile, HasTrackFile
  <2>3. Kept
    BY DEF FileInv
  <2> QED
    BY <2>2, <2>3, RecordAssumption DEF Kept, Recorded
<1> QED
  BY <1>1, FileKept, PTL DEF Spec, ViewMissesOnlyStored

-----------------------------------------------------------------------------
(* One account, and no other gateway: what the general theorems say of the *)
(* file they then say of the account's own claim to it.  With two accounts *)
(* AckedNotForgotten is false.                                             *)
OneAccountHere == (\E u : Users = {u}) /\ OtherGateway = {}

(* A stored file has an owner until somebody deletes it.                   *)
OwnerInv ==
  /\ ~outside
  /\ stored /\ deleted = {} => owners # {}

(* A declaration never leaves a stored file without owners.                *)
LEMMA DeclareOwns ==
  ASSUME OwnerInv, NEW u, NEW ok, GenerateStorageOrder(u, ok)
  PROVE  stored' /\ deleted = {} => owners' # {}
  BY DEF GenerateStorageOrder, Accept, chain, OwnerInv

(* The declarations, the completed order and the DELETE are all that       *)
(* changes who owns the file.                                              *)
LEMMA OwnerStep ==
  ASSUME OtherGateway = {}, TypeOK, OwnerInv, [Next]_vars
  PROVE  OwnerInv'
<1> USE DEF chain, disk, thread, history
<1>1. deleted \subseteq deleted'
  BY OnlyGrows
<1>2. ASSUME UNCHANGED <<stored, owners, outside>>
      PROVE  OwnerInv'
  BY <1>1, <1>2 DEF OwnerInv
<1>3. ASSUME NEW u, NEW ok, GenerateStorageOrder(u, ok), UNCHANGED outside
      PROVE  OwnerInv'
  BY <1>1, <1>3, DeclareOwns DEF OwnerInv
<1>4. ASSUME NEW r \in Requests, Put(r)
      PROVE  OwnerInv'
  <2>1. CASE DedupDeclare(r) \/ PutOrder(r)
    BY <1>3, <2>1 DEF DedupDeclare, PutOrder, Answer200
  <2>2. CASE PutBegin(r)
    BY <1>2, <2>2 DEF PutBegin
  <2>3. CASE Deduplication(r) /\ ~DedupDeclare(r)
    BY <1>2, <2>3 DEF Deduplication, DedupOwned, DedupStored, DedupMissing,
          DedupOwnOrder, DedupOtherOrder, DedupStat, DedupNoOrder,
          DedupCreate, DedupWrite, Answer200
  <2>4. CASE FileProcess(r) /\ ~PutOrder(r)
    BY <1>2, <2>4 DEF FileProcess, StatHome, AlreadyTracked, NotTracked,
          MoveHome, MoveRest, RenameSaved, PutRecord, LeaveChunks, Answer200
  <2> QED
    BY <1>4, <2>1, <2>2, <2>3, <2>4 DEF Put
<1>5. ASSUME NEW r \in Requests, Delete(r)
      PROVE  OwnerInv'
  <2>1. CASE DeleteTx(r)
    BY <2>1 DEF DeleteTx, OwnerInv
  <2>2. CASE DeleteHome(r) \/ DeleteTrack(r)
    BY <1>2, <2>2 DEF DeleteHome, DeleteTrack
  <2> QED
    BY <1>5, <2>1, <2>2 DEF Delete
<1>6. ASSUME NEW r \in Requests, Restore(r) \/ View(r)
      PROVE  OwnerInv'
  BY <1>2, <1>6 DEF Restore, RestoreBegin, RestoreWrite, View, ViewQueryFile,
        ViewQueryDeal, ViewHasTrackFile
<1>7. CASE TrackDeclare \/ DupDeclare
  BY <1>3, <1>7 DEF TrackDeclare, DupDeclare
<1>8. CASE (TrackFile \/ TrackQueryFails) /\ ~TrackDeclare /\ ~DupDeclare
  BY <1>2, <1>8
     DEF TrackFile, TrackQueryFails, ThreadStart, ParseTrackFile,
         TrackQueryFile, CleanData, DropRecord, TrackQueryDeal, TrackRewrite,
         TrackQueryAuth, TrackConfirm, DupQueryFile, DupQueryDeal, DupPromote,
         ShardCopyFails, StorageData
<1>9. CASE OrderCompletes
  BY <1>9 DEF OrderCompletes, OwnerInv
<1>10. CASE \/ OrderExpires \/ Crash \/ CopyArrives \/ CopyLeaves
            \/ UNCHANGED vars \/ \E u \in Users : Deauthorise(u)
            \/ \E u \in Users, dir \in Dirs : Expire(u, dir)
  BY <1>2, <1>10 DEF OrderExpires, Crash, CopyArrives, CopyLeaves,
        Deauthorise, Expire, vars
<1>11. ~ \E u \in Users : OtherGatewayDeclares(u)
  BY DEF OtherGatewayDeclares
<1> QED
  BY <1>4, <1>5, <1>6, <1>7, <1>8, <1>9, <1>10, <1>11 DEF Next

(* What is proved of the file makes the account's claim.                   *)
LEMMA ClaimKept ==
  ASSUME OneAccountHere, TypeOK, FileInv, OwnerInv
  PROVE  AckedNotForgotten
<1> SUFFICES ASSUME NEW u \in acked \ Withdrawn
             PROVE  Claims(u)
  BY DEF AckedNotForgotten
<1>1. Users = {u}
  BY DEF OneAccountHere, TypeOK
<1>2. Undisturbed
  BY <1>1 DEF Undisturbed, Withdrawn, TypeOK, OwnerInv
<1>3. CASE stored
  BY <1>1, <1>2, <1>3 DEF OwnerInv, Undisturbed, Claims, TypeOK
<1>4. CASE Recorded
  BY <1>1, <1>4 DEF Recorded, RecordInfo, Claims
<1> QED
  BY <1>2, <1>3, <1>4 DEF FileInv, Kept

(* An account whose PUT was answered 200 owns the file, or has its order   *)
(* pending, or its record on disk, until it withdraws; alone on the file.  *)
THEOREM ClaimNotForgotten ==
  ASSUME OneAccountHere
  PROVE  Spec => []AckedNotForgotten
<1>1. Init => OwnerInv
  BY DEF Init, OwnerInv
<1>2. TypeOK /\ OwnerInv /\ [Next]_vars => OwnerInv'
  BY OwnerStep DEF OneAccountHere
<1>3. TypeOK /\ FileInv /\ OwnerInv => AckedNotForgotten
  BY ClaimKept
<1> QED
  BY <1>1, <1>2, <1>3, TypeCorrect, FileKept, PTL DEF Spec

(* Alone on the file, every step is one that DurableUpload allows: the     *)
(* claim is there before the answer and is given up only after it is no    *)
(* longer promised.                                                        *)
THEOREM ClaimIsDurable ==
  ASSUME OneAccountHere
  PROVE  Spec => DurableSpec
<1> DEFINE durable == {u \in Users : Claims(u)}
           promised == acked \ Withdrawn
           Inv == TypeOK /\ AckedNotForgotten
<1>1. Init => Durable!Init
  BY NoOrderAssumption, RecordAssumption
     DEF Init, Durable!Init, Claims, Recorded, Withdrawn
<1>2. Inv /\ Inv' /\ [Next]_vars
        => [Durable!Next]_<<durable, promised>>
  <2> SUFFICES ASSUME Inv, Inv'
               PROVE  [Durable!Next]_<<durable, promised>>
    OBVIOUS
  <2>1. PICK u : Users = {u}
    BY DEF OneAccountHere
  <2>2. promised \subseteq durable /\ promised' \subseteq durable'
    BY DEF AckedNotForgotten, TypeOK
  <2>3. durable \subseteq {u} /\ durable' \subseteq {u}
    BY <2>1
  <2> HIDE DEF durable, promised
  <2>4. CASE promised' = promised
    <3>1. CASE promised = {}
      <4>1. CASE durable' = {u}
        <5>1. Durable!Keep({u})
          BY <2>3, <2>4, <4>1 DEF Durable!Keep, durable, promised
        <5> QED
          BY <2>1, <5>1 DEF Durable!Next
      <4>2. CASE durable' = {}
        <5>1. Durable!Drop({u})
          BY <2>3, <2>4, <3>1, <4>2 DEF Durable!Drop, durable, promised
        <5> QED
          BY <2>1, <5>1 DEF Durable!Next
      <4> QED
        BY <2>3, <4>1, <4>2
    <3>2. CASE promised # {}
      BY <2>2, <2>3, <2>4, <3>2
    <3> QED
      BY <3>1, <3>2
  <2>5. CASE promised = {} /\ promised' = {u}
    <3>1. Durable!Acknowledge(u)
      BY <2>2, <2>3, <2>5 DEF Durable!Acknowledge, durable, promised
    <3> QED
      BY <2>1, <3>1 DEF Durable!Next
  <2>6. CASE promised = {u} /\ promised' = {}
    <3>1. Durable!Withdraw(u)
      BY <2>2, <2>3, <2>6 DEF Durable!Withdraw, durable, promised
    <3> QED
      BY <2>1, <3>1 DEF Durable!Next
  <2> QED
    BY <2>2, <2>3, <2>4, <2>5, <2>6
<1> QED
  BY <1>1, <1>2, TypeCorrect, ClaimNotForgotten, PTL
     DEF Spec, DurableSpec, Durable!Spec

-----------------------------------------------------------------------------
(* RecordHasData.  Two PUTs of one account in one second are excepted, for *)
(* the second one's Rename fails and takes the shared directory away.      *)
Puts == Requests \ (Deletes \cup Restores \cup Views)

SecondsDiffer ==
  \A r, s \in Puts : Account[r] = Account[s] /\ Second[r] = Second[s] => r = s

(* What u's records point at no longer matters.                            *)
Over(u) == stored \/ u \notin auth \/ u \in swept

(* The directory has the pieces; those it must have for r to go on.        *)
Holds(dir, pieces) == \A p \in pieces : <<dir, p>> \in files

Needed(r) == Fragments \cup {Second[r]}

(* A record points into a directory of its owner, or to the copy: the      *)
(* shared directory, or that of a PUT that has nothing left to do there.   *)
OwnDir(rec) ==
  \/ rec.dir = Copy
  \/ rec.dir = Home(rec.owner)
  \/ \E r \in Requests : /\ rec.dir = Tmp(r) /\ Account[r] = rec.owner
                         /\ pc[r] \in {"leave", "done"}

(* ... and, while it matters, the fragments are there.                     *)
HasData(rec) ==
  \/ Over(rec.owner) \/ Holds(rec.dir, Fragments) \/ rec.dir = Copy
  \/ \E r \in Chunked : rec.dir = Tmp(r)

(* What the record on disk and the one in memory point at, and when        *)
(* trackFile() removes a directory.                                        *)
RecordGood == Recorded => OwnDir(record) /\ HasData(record)

ThreadGood ==
  /\ tpc \in ThreadSteps => OwnDir(trec)
  /\ tpc \in ThreadSteps \ {"drop"} => HasData(trec)
  /\ tpc \in {"clean", "dupdeclare"} => stored
  /\ tpc = "unload" => Over(trec.owner)

(* What each step of a PUT still finds of its own: in the private          *)
(* directory, in either while it is moved, in the shared one.              *)
BeforeMove ==
  {"dedup", "deal", "dupstat", "create", "write", "stat", "hastrack", "move"}

Holding(r) ==
  /\ pc[r] \in BeforeMove => Holds(Tmp(r), Needed(r))
  /\ pc[r] = "moving"
       => \A p \in Needed(r) : \/ <<Tmp(r), p>> \in files
                               \/ <<Home(Account[r]), p>> \in files
  /\ pc[r] = "rename" => Holds(Home(Account[r]), Needed(r))
  /\ pc[r] = "record" => Holds(Home(Account[r]), Fragments)

RequestGood(r) ==
  /\ pc[r] \in PutSteps => r \in Puts
  /\ pc[r] = "leave" => r \in Chunked
  /\ Over(Account[r]) \/ Holding(r)

(* All that, as long as nobody deletes the file.                           *)
DataInv ==
  deleted = {} =>
    RecordGood /\ ThreadGood /\ \A r \in Requests : RequestGood(r)

(* What a request needs is neither the directory itself nor, but for its   *)
(* own file, a name somebody's file is saved under.                        *)
LEMMA NeededTypes ==
  ASSUME NEW r \in Requests
  PROVE  /\ Second[r] \in Seconds /\ Second[r] \notin Fragments
         /\ Needed(r) \subseteq Pieces \ {"."}
         /\ Fragments \subseteq Needed(r) /\ Second[r] \in Needed(r)
  BY SecondAssumption, NamesAssumption DEF Needed, Pieces

(* No two directories are the same.                                        *)
LEMMA DirsDiffer ==
  /\ \A u, v : Home(u) = Home(v) => u = v
  /\ \A r, s : Tmp(r) = Tmp(s) => r = s
  /\ \A u, r : Home(u) # Tmp(r)
  /\ \A u : Home(u) # Copy
  /\ \A r : Tmp(r) # Copy
<1>1. \A u : Len(Home(u)) = 2 /\ Len(Tmp(u)) = 2
  BY DEF Home, Tmp
<1>2. Len(Copy) = 1
  BY DEF Copy
<1>3. \A u, v : Home(u) = Home(v) => u = v
  BY DEF Home
<1>4. \A r, s : Tmp(r) = Tmp(s) => r = s
  BY DEF Tmp
<1>5. \A u, r : Home(u) # Tmp(r)
  BY DEF Home, Tmp
<1> QED
  BY <1>1, <1>2, <1>3, <1>4, <1>5

(* Nobody deletes in a step after which nobody has deleted.                *)
LEMMA NoDelete ==
  ASSUME TypeOK, FileInv, [Next]_vars, deleted' = {}
  PROVE  deleted = {} /\ \A r \in Requests : ~Delete(r)
<1>1. deleted = {}
  BY OnlyGrows
<1>2. ASSUME NEW r \in Requests, Delete(r)
      PROVE  FALSE
  <2>1. pc[r] \notin DeleteSteps
    BY <1>1 DEF FileInv
  <2>2. DeleteTx(r)
    BY <1>2, <2>1 DEF Delete, DeleteHome, DeleteTrack, At, DeleteSteps
  <2> QED
    BY <2>2, DirTypes DEF DeleteTx
<1> QED
  BY <1>1, <1>2

(* What a step of a request that moves and removes nothing leaves alone.   *)
LEMMA QuietRequest ==
  ASSUME NEW r \in Requests, Put(r) \/ Restore(r) \/ View(r),
         ~MoveHome(r), ~MoveRest(r), ~RenameSaved(r), ~LeaveChunks(r)
  PROVE  /\ stored' = stored /\ UNCHANGED <<auth, swept, thread>>
         /\ \/ files' = files
            \/ PutBegin(r) /\ files \subseteq files'
<1> USE DEF chain, disk, thread, history
<1>1. CASE PutBegin(r)
  BY <1>1 DEF PutBegin
<1>2. CASE DedupDeclare(r) \/ PutOrder(r)
  BY <1>2, DeclareKeeps DEF DedupDeclare, PutOrder, Answer200
<1>3. CASE Deduplication(r) /\ ~DedupDeclare(r)
  BY <1>3 DEF Deduplication, DedupOwned, DedupStored, DedupMissing,
        DedupOwnOrder, DedupOtherOrder, DedupStat, DedupNoOrder, DedupCreate,
        DedupWrite, Answer200
<1>4. CASE StatHome(r) \/ AlreadyTracked(r) \/ NotTracked(r) \/ PutRecord(r)
  BY <1>4 DEF StatHome, AlreadyTracked, NotTracked, PutRecord, Answer200
<1>5. CASE Restore(r) \/ View(r)
  BY <1>5 DEF Restore, RestoreBegin, RestoreWrite, View, ViewQueryFile,
        ViewQueryDeal, ViewHasTrackFile
<1> QED
  BY <1>1, <1>2, <1>3, <1>4, <1>5 DEF Put, FileProcess

(* The same of trackFile(), which removes directories in CleanData alone.  *)
LEMMA QuietThread ==
  ASSUME TrackFile \/ TrackQueryFails, ~CleanData
  PROVE  stored' = stored /\ UNCHANGED <<auth, swept, files, pc>>
<1> USE DEF chain, disk, history
<1>1. CASE TrackDeclare \/ DupDeclare
  BY <1>1, DeclareKeeps DEF TrackDeclare, DupDeclare
<1>2. CASE ~TrackDeclare /\ ~DupDeclare
  BY <1>2 DEF TrackFile, TrackQueryFails, ThreadStart, ParseTrackFile,
        TrackQueryFile, DropRecord, TrackQueryDeal, TrackRewrite,
        TrackQueryAuth, TrackConfirm, DupQueryFile, DupQueryDeal, DupPromote,
        ShardCopyFails, StorageData
<1> QED
  BY <1>1, <1>2

(* A step takes pieces from these directories at most.                     *)
LostFrom(dirs) == \A d, p : <<d, p>> \in files \ files' => d \in dirs

(* The steps of the others, but checkExpiredFiles', remove the copy alone. *)
LEMMA QuietWorld ==
  ASSUME \/ OrderCompletes \/ OrderExpires \/ Crash \/ CopyArrives
         \/ CopyLeaves \/ UNCHANGED vars
         \/ \E u \in Users : OtherGatewayDeclares(u) \/ Deauthorise(u)
  PROVE  /\ stored => stored'
         /\ auth' \subseteq auth
         /\ LostFrom({Copy})
         /\ UNCHANGED <<record, deleted>>
         /\ UNCHANGED <<pc, thread>> \/ Crash
<1> USE DEF chain, disk, history
<1>1. CASE CopyLeaves
  BY <1>1 DEF CopyLeaves, RemoveAll, Without, In, LostFrom
<1>2. CASE ~CopyLeaves
  <2>1. files \subseteq files'
    BY <1>2 DEF OrderCompletes, OrderExpires, Crash, CopyArrives,
           OtherGatewayDeclares, Deauthorise, vars
  <2>2. LostFrom({Copy})
    BY <2>1 DEF LostFrom
  <2>3. /\ stored => stored'
        /\ auth' \subseteq auth
        /\ UNCHANGED <<record, deleted>>
        /\ UNCHANGED <<pc, thread>> \/ Crash
    BY <1>2 DEF OrderCompletes, OrderExpires, Crash, CopyArrives,
           OtherGatewayDeclares, Deauthorise, vars
  <2> QED
    BY <2>2, <2>3
<1> QED
  BY <1>1, <1>2 DEF CopyLeaves

(* What a step removes, if nobody deletes: pieces of one directory of an   *)
(* account, that its records do not need or that no longer matter.         *)
Removes(dir, u) ==
  /\ LostFrom({dir, Copy})
  /\ \/ /\ Over(u)'
        /\ \/ dir = Home(u)
           \/ \E r \in Requests : dir = Tmp(r) /\ Account[r] = u
     \/ \E r \in Requests :
          /\ dir = Tmp(r) /\ Account[r] = u /\ pc'[r] # pc[r]
          /\ \/ pc[r] \in {"move", "moving"}
             \/ pc[r] = "leave" /\ r \in Chunked

(* The private directory is only emptied by the request itself.            *)
LEMMA MoveRemoves ==
  ASSUME TypeOK, NEW r \in Requests,
         MoveHome(r) \/ MoveRest(r) \/ (LeaveChunks(r) /\ r \in Chunked)
  PROVE  /\ UNCHANGED <<stored, auth, swept, thread>>
         /\ Removes(Tmp(r), Account[r])
<1> USE DEF chain, history, At, Goto, AnswerError, Answered, TypeOK
<1>1. UNCHANGED <<stored, auth, swept, thread>>
  BY DEF MoveHome, MoveRest, LeaveChunks
<1>2. /\ pc'[r] # pc[r]
      /\ \/ pc[r] \in {"move", "moving"}
         \/ pc[r] = "leave" /\ r \in Chunked
  BY DEF MoveHome, MoveRest, LeaveChunks
<1>3. LostFrom({Tmp(r), Copy})
  <2>1. CASE MoveHome(r)
    BY <2>1 DEF MoveHome, In, Without, LostFrom
  <2>2. CASE MoveRest(r)
    BY <2>2 DEF MoveRest, In, Without, LostFrom
  <2>3. CASE LeaveChunks(r)
    BY <2>3 DEF LeaveChunks, RemoveAll, In, Without, LostFrom
  <2> QED
    BY <2>1, <2>2, <2>3
<1> QED
  BY <1>1, <1>2, <1>3 DEF Removes

(* What a step may do to the directories, if nobody deletes.               *)
LEMMA StepRemoves ==
  ASSUME TypeOK, FileInv, DataInv, [Next]_vars, deleted' = {}
  PROVE  /\ stored => stored'
         /\ auth' \subseteq auth /\ swept \subseteq swept'
         /\ \/ LostFrom({Copy})
            \/ \E r \in Requests :
                 /\ At(r, "rename") /\ Goto(r, "record")
                 /\ files' = files \ {<<Home(Account[r]), Second[r]>>}
            \/ \E dir, u : Removes(dir, u)
<1>1. deleted = {} /\ \A r \in Requests : ~Delete(r)
  BY NoDelete
<1>2. RecordGood /\ ThreadGood /\ \A r \in Requests : RequestGood(r)
  BY <1>1 DEF DataInv
<1>3. auth' \subseteq auth /\ swept \subseteq swept'
  BY OnlyGrows
<1> USE DEF chain, disk, thread, history
<1>4. ASSUME NEW r \in Requests, LeaveChunks(r)
      PROVE  r \in Chunked
  BY <1>2, <1>4 DEF LeaveChunks, At, RequestGood
<1>5. ASSUME NEW r \in Requests, RenameSaved(r)
      PROVE  /\ stored' = stored
             /\ \/ /\ At(r, "rename") /\ Goto(r, "record")
                   /\ files' = files \ {<<Home(Account[r]), Second[r]>>}
                \/ Removes(Home(Account[r]), Account[r])
  <2>1. stored' = stored /\ auth' = auth /\ pc[r] = "rename"
    BY <1>5 DEF RenameSaved, At
  <2>2. CASE files' = files \ {<<Home(Account[r]), Second[r]>>} /\ Goto(r, "record")
    BY <2>1, <2>2 DEF At
  <2>3. ASSUME RemoveAll(Home(Account[r])),
               Account[r] \in swept' \/ <<Home(Account[r]), Second[r]>> \notin files
        PROVE  Removes(Home(Account[r]), Account[r])
    <3>1. Over(Account[r])'
      <4>1. CASE Account[r] \in swept'
        BY <4>1 DEF Over
      <4>2. CASE <<Home(Account[r]), Second[r]>> \notin files
        <5>1. ~Holding(r)
          BY <2>1, <4>2, NeededTypes DEF Holding, Holds
        <5>2. Over(Account[r])
          BY <1>2, <5>1 DEF RequestGood
        <5> QED
          BY <1>3, <2>1, <5>2 DEF Over
      <4> QED
        BY <2>3, <4>1, <4>2
    <3>2. LostFrom({Home(Account[r]), Copy})
      BY <2>3 DEF RemoveAll, Without, In, LostFrom
    <3> QED
      BY <3>1, <3>2 DEF Removes
  <2> QED
    BY <1>5, <2>1, <2>2, <2>3 DEF RenameSaved
<1>6. CASE CleanData
  <2>1. UNCHANGED <<stored, auth, swept>> /\ tpc \in {"clean", "unload"}
    BY <1>6 DEF CleanData
  <2>2. OwnDir(trec) /\ Over(trec.owner)
    BY <1>2, <2>1 DEF ThreadGood, ThreadSteps, Over
  <2>3. CASE trec.dir = Copy
    BY <1>6, <2>1, <2>3 DEF CleanData, LostFrom
  <2>4. CASE trec.dir # Copy
    <3>0. PICK dir, u : dir = trec.dir /\ u = trec.owner
      OBVIOUS
    <3>1. LostFrom({dir, Copy})
      <4>1. \/ files' = Without(dir) \ In(Copy, Pieces)
            \/ files' = Without(dir)
        BY <1>6, <2>4, <3>0 DEF CleanData
      <4> QED
        BY <4>1 DEF Without, In, LostFrom
    <3>2. Over(u)'
      BY <2>1, <2>2, <3>0 DEF Over
    <3>3. Removes(dir, u)
      BY <2>2, <2>4, <3>0, <3>1, <3>2 DEF OwnDir, Removes
    <3> QED
      BY <1>3, <2>1, <3>3
  <2> QED
    BY <2>3, <2>4
<1>7. CASE (TrackFile \/ TrackQueryFails) /\ ~CleanData
  <2>1. stored' = stored /\ files' = files
    BY <1>7, QuietThread
  <2> QED
    BY <1>3, <2>1 DEF LostFrom
<1>8. CASE \E r \in Requests : Put(r) \/ Restore(r) \/ View(r)
  <2>1. PICK r \in Requests : Put(r) \/ Restore(r) \/ View(r)
    BY <1>8
  <2>2. CASE MoveHome(r) \/ MoveRest(r) \/ LeaveChunks(r)
    BY <1>3, <1>4, <2>2, MoveRemoves
  <2>3. CASE RenameSaved(r)
    BY <1>3, <1>5, <2>3
  <2>4. CASE ~MoveHome(r) /\ ~MoveRest(r) /\ ~LeaveChunks(r) /\ ~RenameSaved(r)
    <3>1. stored' = stored /\ files \subseteq files'
      BY <2>1, <2>4, QuietRequest
    <3> QED
      BY <1>3, <3>1 DEF LostFrom
  <2> QED
    BY <2>2, <2>3, <2>4
<1>9. CASE \/ OrderCompletes \/ OrderExpires \/ Crash \/ CopyArrives
           \/ CopyLeaves \/ UNCHANGED vars
           \/ \E u \in Users : OtherGatewayDeclares(u) \/ Deauthorise(u)
  BY <1>3, <1>9, QuietWorld
<1>10. ASSUME NEW u \in Users, NEW dir \in Dirs, Expire(u, dir)
       PROVE  stored' = stored /\ Removes(dir, u)
  <2>1. stored' = stored /\ Over(u)'
    BY <1>10 DEF Expire, Over
  <2>2. LostFrom({dir, Copy})
    BY <1>10 DEF Expire, RemoveAll, Without, In, LostFrom
  <2> QED
    BY <1>10, <2>1, <2>2 DEF Expire, Removes
<1> QED
  BY <1>1, <1>3, <1>6, <1>7, <1>8, <1>9, <1>10 DEF Next

(* A PUT that has ended, or only has its deferred RemoveAll to come, does  *)
(* not begin again: what is a directory of its owner's remains one.        *)
LEMMA OwnDirKept ==
  ASSUME TypeOK, [Next]_vars
  PROVE  \A rec : OwnDir(rec) => OwnDir(rec)'
<1>1. \A r \in Requests :
        pc[r] \in {"leave", "done"} => pc'[r] \in {"leave", "done"}
  <2> USE DEF TypeOK, Goto, At, Answered, AnswerError, Answer200, chain, disk,
              thread, history
  <2>1. ASSUME NEW r \in Requests, Put(r)
        PROVE  \A q \in Requests :
                 pc[q] \in {"leave", "done"} => pc'[q] \in {"leave", "done"}
    <3>1. CASE PutBegin(r) \/ Deduplication(r)
      BY <3>1 DEF PutBegin, Deduplication, DedupOwned, DedupStored,
            DedupMissing, DedupDeclare, DedupOwnOrder, DedupOtherOrder,
            DedupStat, DedupNoOrder, DedupCreate, DedupWrite
    <3>2. CASE FileProcess(r)
      BY <3>2 DEF FileProcess, StatHome, AlreadyTracked, NotTracked, MoveHome,
            MoveRest, RenameSaved, PutRecord, PutOrder, LeaveChunks
    <3> QED
      BY <2>1, <3>1, <3>2 DEF Put
  <2>2. ASSUME NEW r \in Requests, Delete(r) \/ Restore(r) \/ View(r)
        PROVE  \A q \in Requests :
                 pc[q] \in {"leave", "done"} => pc'[q] \in {"leave", "done"}
    BY <2>2 DEF Delete, DeleteTx, DeleteHome, DeleteTrack, Restore,
          RestoreBegin, RestoreWrite, View, ViewQueryFile, ViewQueryDeal,
          ViewHasTrackFile
  <2>3. CASE CleanData
    BY <2>3 DEF CleanData
  <2>4. CASE (TrackFile \/ TrackQueryFails) /\ ~CleanData
    BY <2>4, QuietThread
  <2>5. CASE Crash
    BY <2>5 DEF Crash
  <2>6. CASE \/ OrderCompletes \/ OrderExpires \/ CopyArrives
             \/ CopyLeaves \/ UNCHANGED vars
             \/ \E u \in Users : OtherGatewayDeclares(u) \/ Deauthorise(u)
             \/ \E u \in Users, dir \in Dirs : Expire(u, dir)
    BY <2>6 DEF OrderCompletes, OrderExpires, CopyArrives, CopyLeaves,
          OtherGatewayDeclares, Deauthorise, Expire, vars
  <2> QED
    BY <2>1, <2>2, <2>3, <2>4, <2>5, <2>6 DEF Next
<1> QED
  BY <1>1 DEF OwnDir

(* What a record of its owner's needs is not removed.                      *)
LEMMA HasDataKept ==
  ASSUME TypeOK, FileInv, DataInv, [Next]_vars, deleted' = {}
  PROVE  \A rec : OwnDir(rec) /\ HasData(rec) => HasData(rec)'
<1> SUFFICES ASSUME NEW rec, OwnDir(rec), HasData(rec)
             PROVE  HasData(rec)'
  OBVIOUS
<1>1. Over(rec.owner) => Over(rec.owner)'
  BY StepRemoves DEF Over
<1>2. CASE Over(rec.owner) \/ rec.dir = Copy \/ \E r \in Chunked : rec.dir = Tmp(r)
  BY <1>1, <1>2 DEF HasData
<1>3. CASE /\ ~Over(rec.owner) /\ rec.dir # Copy
           /\ \A r \in Chunked : rec.dir # Tmp(r)
           /\ Holds(rec.dir, Fragments)
  <2>1. CASE LostFrom({Copy})
    BY <1>3, <2>1 DEF LostFrom, Holds, HasData
  <2>2. ASSUME NEW r \in Requests,
               files' = files \ {<<Home(Account[r]), Second[r]>>}
        PROVE  HasData(rec)'
    <3>1. \A p \in Fragments : <<rec.dir, p>> # <<Home(Account[r]), Second[r]>>
      BY NeededTypes
    <3> QED
      BY <1>3, <2>2, <3>1 DEF Holds, HasData
  <2>3. ASSUME NEW dir, NEW u, Removes(dir, u), rec.dir # dir
        PROVE  HasData(rec)'
    BY <1>3, <2>3 DEF Removes, LostFrom, Holds, HasData
  <2>4. ASSUME NEW dir, NEW u, Removes(dir, u), rec.dir = dir
        PROVE  HasData(rec)'
    <3>1. ASSUME NEW r \in Requests, dir = Tmp(r)
          PROVE  Account[r] = rec.owner /\ pc[r] \in {"leave", "done"}
      BY <1>3, <2>4, <3>1, DirsDiffer DEF OwnDir
    <3>2. dir = Home(u) => u = rec.owner
      BY <1>3, <2>4, DirsDiffer DEF OwnDir
    <3>3. Over(rec.owner)'
      BY <1>3, <2>4, <3>1, <3>2 DEF Removes
    <3> QED
      BY <3>3 DEF HasData
  <2> QED
    BY <2>1, <2>2, <2>3, <2>4, StepRemoves
<1> QED
  BY <1>2, <1>3 DEF HasData

(* What a request that does not move finds of its own is not removed.      *)
LEMMA RequestKept ==
  ASSUME SecondsDiffer, TypeOK, FileInv, DataInv, [Next]_vars, deleted' = {},
         NEW q \in Requests, pc'[q] = pc[q]
  PROVE  RequestGood(q)'
<1>1. \A r \in Requests : RequestGood(r)
  BY NoDelete DEF DataInv
<1>2. Over(Account[q]) => Over(Account[q])'
  BY StepRemoves DEF Over
<1>3. SUFFICES ASSUME ~Over(Account[q])', Holding(q)
               PROVE  Holding(q)'
  BY <1>1, <1>2 DEF RequestGood
<1>4. CASE LostFrom({Copy})
  <2>1. \A p : /\ <<Tmp(q), p>> \in files => <<Tmp(q), p>> \in files'
               /\ <<Home(Account[q]), p>> \in files
                    => <<Home(Account[q]), p>> \in files'
    BY <1>4, DirsDiffer DEF LostFrom
  <2> QED
    BY <1>3, <2>1 DEF Holding, Holds
<1>5. ASSUME NEW r \in Requests, At(r, "rename"), Goto(r, "record"),
             files' = files \ {<<Home(Account[r]), Second[r]>>}
      PROVE  Holding(q)'
  <2>1. r # q
    BY <1>5 DEF At, Goto, TypeOK
  <2>2. r \in Puts
    BY <1>1, <1>5 DEF At, RequestGood, PutSteps
  <2>3. \A p : <<Tmp(q), p>> \in files => <<Tmp(q), p>> \in files'
    BY <1>5, DirsDiffer
  <2>4. ASSUME NEW p \in Needed(q), q \in Puts,
               <<Home(Account[q]), p>> = <<Home(Account[r]), Second[r]>>
        PROVE  FALSE
    <3>1. Account[q] = Account[r] /\ p = Second[r]
      BY <2>4, DirsDiffer
    <3>2. p = Second[q]
      BY <2>4, <3>1, NeededTypes DEF Needed
    <3> QED
      BY <2>1, <2>2, <2>4, <3>1, <3>2 DEF SecondsDiffer
  <2>5. ASSUME NEW p \in Needed(q), q \in Puts,
               <<Home(Account[q]), p>> \in files
        PROVE  <<Home(Account[q]), p>> \in files'
    BY <1>5, <2>4, <2>5
  <2>6. pc[q] \in PutSteps => q \in Puts
    BY <1>1 DEF RequestGood
  <2>7. pc[q] \in {"moving", "rename", "record"} => q \in Puts
    BY <2>6 DEF PutSteps
  <2> QED
    BY <1>3, <2>3, <2>5, <2>7, NeededTypes DEF Holding, Holds
<1>6. ASSUME NEW dir, NEW u, Removes(dir, u)
      PROVE  Holding(q)'
  <2>1. Tmp(q) # dir /\ Home(Account[q]) # dir
    BY <1>3, <1>6, DirsDiffer DEF Removes
  <2>2. \A p : /\ <<Tmp(q), p>> \in files => <<Tmp(q), p>> \in files'
               /\ <<Home(Account[q]), p>> \in files
                    => <<Home(Account[q]), p>> \in files'
    BY <1>6, <2>1, DirsDiffer DEF Removes, LostFrom
  <2> QED
    BY <1>3, <2>2 DEF Holding, Holds
<1> QED
  BY <1>4, <1>5, <1>6, StepRemoves

(* A record that is written points at fragments its writer has, and one    *)
(* that is kept still does.                                                *)
LEMMA RecordGoodStep ==
  ASSUME TypeOK, FileInv, DataInv, [Next]_vars, deleted' = {}
  PROVE  RecordGood'
<1>1. /\ deleted = {} /\ RecordGood /\ ThreadGood
      /\ \A r \in Requests : ~Delete(r) /\ RequestGood(r)
  BY NoDelete DEF DataInv
<1>2. \A rec : /\ OwnDir(rec) => OwnDir(rec)'
               /\ OwnDir(rec) /\ HasData(rec) => HasData(rec)'
  BY OwnDirKept, HasDataKept
<1> USE DEF chain, disk, thread, history
<1>3. ASSUME NEW rec, record' = rec, OwnDir(rec), HasData(rec)
      PROVE  RecordGood'
  <2>1. OwnDir(rec)' /\ HasData(rec)'
    BY <1>2, <1>3
  <2> QED
    BY <1>3, <2>1 DEF RecordGood, OwnDir, HasData
<1>4. CASE record' = record \/ record' = NoRecord \/ record' = Torn
  <2>1. CASE record' \notin RecordInfo
    BY <2>1 DEF RecordGood, Recorded
  <2>2. CASE record' \in RecordInfo /\ record' = record
    <3>1. OwnDir(record) /\ HasData(record)
      BY <1>1, <2>2 DEF RecordGood, Recorded
    <3> QED
      BY <1>3, <2>2, <3>1
  <2> QED
    BY <1>4, <2>1, <2>2, RecordAssumption
<1>5. ASSUME NEW r \in Requests, Put(r)
      PROVE  RecordGood'
  <2>1. CASE DedupWrite(r)
    <3> DEFINE rec == NewRecord(r, TRUE, Tmp(r))
    <3>1. pc[r] = "write" /\ UNCHANGED <<files, stored, auth, swept>>
          /\ record' \in {record, rec, Torn} /\ Goto(r, Answered(r))
      BY <2>1 DEF DedupWrite, AfterWrite, At, Answer200, AnswerError
    <3>2. pc'[r] \in {"leave", "done"}
      BY <3>1 DEF Goto, Answered, TypeOK
    <3>3. rec.dir = Tmp(r) /\ rec.owner = Account[r]
      BY DEF NewRecord
    <3> HIDE DEF rec
    <3>4. Over(Account[r])' \/ Holds(Tmp(r), Fragments)'
      BY <1>1, <3>1, NeededTypes
         DEF RequestGood, Holding, BeforeMove, Holds, Over
    <3>5. CASE record' = rec
      BY <3>2, <3>3, <3>4, <3>5 DEF RecordGood, OwnDir, HasData
    <3> QED
      BY <1>4, <3>1, <3>5
  <2>2. CASE PutRecord(r)
    <3> DEFINE rec == NewRecord(r, FALSE, Home(Account[r]))
    <3>1. pc[r] = "record" /\ record' \in {record, rec}
      BY <2>2 DEF PutRecord, At, WriteTrackFile
    <3>2. rec.dir = Home(rec.owner) /\ rec.owner = Account[r]
      BY DEF NewRecord
    <3> HIDE DEF rec
    <3>3. OwnDir(rec) /\ HasData(rec)
      BY <1>1, <3>1, <3>2 DEF OwnDir, HasData, RequestGood, Holding
    <3> QED
      BY <1>3, <1>4, <3>1, <3>3
  <2>3. CASE PutBegin(r) \/ (Deduplication(r) /\ ~DedupWrite(r))
    BY <1>4, <2>3 DEF PutBegin, Deduplication, DedupOwned, DedupStored,
          DedupMissing, DedupDeclare, DedupOwnOrder, DedupOtherOrder,
          DedupStat, DedupNoOrder, DedupCreate
  <2>4. CASE FileProcess(r) /\ ~PutRecord(r)
    BY <1>4, <2>4 DEF FileProcess, StatHome, AlreadyTracked, NotTracked,
          MoveHome, MoveRest, RenameSaved, PutOrder, LeaveChunks
  <2> QED
    BY <1>5, <2>1, <2>2, <2>3, <2>4 DEF Put
<1>6. ASSUME NEW r \in Requests, Restore(r)
      PROVE  RecordGood'
  <2> DEFINE rec == NewRecord(r, FALSE, Copy)
  <2>1. record' \in {record, rec}
    BY <1>6 DEF Restore, RestoreBegin, RestoreWrite, WriteTrackFile
  <2>2. OwnDir(rec) /\ HasData(rec)
    BY DEF NewRecord, OwnDir, HasData
  <2> HIDE DEF rec
  <2> QED
    BY <1>3, <1>4, <2>1, <2>2
<1>7. CASE TrackRewrite
  <2>1. record' = trec /\ OwnDir(trec) /\ HasData(trec)
    BY <1>1, <1>7
       DEF TrackRewrite, WriteTrackFile, ThreadAt, ThreadGood, ThreadSteps
  <2> QED
    BY <1>3, <2>1
<1>8. CASE DupPromote
  <2> DEFINE rec == [trec EXCEPT !.duplicate = FALSE]
  <2>1. /\ record' = rec /\ OwnDir(trec) /\ HasData(trec)
        /\ trec \in RecordInfo
    BY <1>1, <1>8 DEF DupPromote, WriteTrackFile, ThreadAt, ThreadGood,
                      ThreadSteps, TypeOK
  <2>2. rec.dir = trec.dir /\ rec.owner = trec.owner
    BY <2>1 DEF RecordInfo
  <2> HIDE DEF rec
  <2>3. OwnDir(rec) /\ HasData(rec)
    BY <2>1, <2>2 DEF OwnDir, HasData
  <2> QED
    BY <1>3, <2>1, <2>3
<1>9. CASE (TrackFile \/ TrackQueryFails) /\ ~TrackRewrite /\ ~DupPromote
  BY <1>4, <1>9 DEF TrackFile, TrackQueryFails, ThreadStart, ParseTrackFile,
        TrackQueryFile, CleanData, DropRecord, DeleteTrackFile,
        TrackQueryDeal, TrackQueryAuth, TrackDeclare, TrackConfirm,
        DupQueryFile, DupDeclare, DupQueryDeal, ShardCopyFails, StorageData
<1>10. ASSUME NEW r \in Requests, View(r)
       PROVE  RecordGood'
  BY <1>4, <1>10 DEF View, ViewQueryFile, ViewQueryDeal, ViewHasTrackFile
<1>11. CASE \/ OrderCompletes \/ OrderExpires \/ Crash \/ CopyArrives
            \/ CopyLeaves \/ UNCHANGED vars
            \/ \E u \in Users : OtherGatewayDeclares(u) \/ Deauthorise(u)
  BY <1>4, <1>11, QuietWorld
<1>12. CASE \E u \in Users, dir \in Dirs : Expire(u, dir)
  BY <1>4, <1>12 DEF Expire
<1> QED
  BY <1>1, <1>5, <1>6, <1>7, <1>8, <1>9, <1>10, <1>11, <1>12 DEF Next

(* trackFile() takes good records only, and comes to a removal only with   *)
(* the file stored or the account gone.                                    *)
LEMMA ThreadGoodStep ==
  ASSUME TypeOK, FileInv, DataInv, [Next]_vars, deleted' = {}
  PROVE  ThreadGood'
<1>1. deleted = {} /\ RecordGood /\ ThreadGood
      /\ \A r \in Requests : ~Delete(r)
  BY NoDelete DEF DataInv
<1>2. \A rec : /\ OwnDir(rec) => OwnDir(rec)'
               /\ OwnDir(rec) /\ HasData(rec) => HasData(rec)'
  BY OwnDirKept, HasDataKept
<1>3. (stored => stored') /\ auth' \subseteq auth /\ swept \subseteq swept'
  BY StepRemoves
<1> USE DEF chain, disk, history, ThreadAt
(* On with a record that is good as long as it is not dropped.             *)
<1>4. ASSUME tpc \in ThreadSteps, UNCHANGED trec,
             tpc' # "drop" => tpc # "drop",
             tpc' \in {"clean", "dupdeclare"} => stored',
             tpc' = "unload" => Over(trec.owner)'
      PROVE  ThreadGood'
  <2>1. PICK rec : rec = trec
    OBVIOUS
  <2>2. OwnDir(rec)
    BY <1>1, <1>4, <2>1 DEF ThreadGood
  <2>3. tpc # "drop" => HasData(rec)
    BY <1>1, <1>4, <2>1 DEF ThreadGood
  <2>4. OwnDir(rec)' /\ (tpc # "drop" => HasData(rec)')
    BY <1>2, <2>2, <2>3
  <2>5. OwnDir(trec)' /\ (tpc # "drop" => HasData(trec)')
    BY <1>4, <2>1, <2>4 DEF OwnDir, HasData
  <2> QED
    BY <1>4, <2>5 DEF ThreadGood
<1>5. ASSUME UNCHANGED <<tpc, trec>>
      PROVE  ThreadGood'
  <2>1. CASE tpc \in ThreadSteps
    BY <1>1, <1>3, <1>4, <1>5, <2>1 DEF ThreadGood, Over
  <2>2. CASE tpc \notin ThreadSteps
    BY <1>5, <2>2 DEF ThreadGood, ThreadSteps
  <2> QED
    BY <2>1, <2>2
<1>6. ASSUME tpc' \in {"off", "parse"}
      PROVE  ThreadGood'
  BY <1>6 DEF ThreadGood, ThreadSteps
<1>7. CASE ThreadStart \/ TrackQueryFails \/ ShardCopyFails \/ StorageData
           \/ DropRecord \/ DupPromote \/ Crash
  BY <1>6, <1>7 DEF ThreadStart, TrackQueryFails, ShardCopyFails, StorageData,
        DropRecord, DupPromote, Crash, ThreadGoto, ThreadReturns
<1>8. CASE ParseTrackFile
  <2>1. CASE record \in RecordInfo
    <3>1. tpc' = "file" /\ trec' = record
      BY <1>8, <2>1 DEF ParseTrackFile
    <3>2. PICK rec : rec = record
      OBVIOUS
    <3>3. OwnDir(rec) /\ HasData(rec)
      BY <1>1, <2>1, <3>2 DEF RecordGood, Recorded
    <3>4. OwnDir(rec)' /\ HasData(rec)'
      BY <1>2, <3>3
    <3>5. OwnDir(trec)' /\ HasData(trec)'
      BY <3>1, <3>2, <3>4 DEF OwnDir, HasData
    <3> QED
      BY <3>1, <3>5 DEF ThreadGood
  <2>2. CASE record \notin RecordInfo
    BY <1>6, <1>8, <2>2 DEF ParseTrackFile, ThreadReturns
  <2> QED
    BY <2>1, <2>2
<1>9. CASE TrackQueryFile \/ TrackQueryDeal \/ TrackRewrite \/ TrackConfirm
  BY <1>4, <1>6, <1>9 DEF TrackQueryFile, TrackQueryDeal, TrackRewrite,
        TrackConfirm, WithOrder, ThreadGoto, ThreadReturns, ThreadSteps
<1>10. CASE CleanData
  BY <1>4, <1>10 DEF CleanData, ThreadGoto, ThreadSteps
<1>11. CASE TrackQueryAuth
  BY <1>4, <1>11 DEF TrackQueryAuth, ThreadGoto, ThreadSteps, Over
<1>12. CASE TrackDeclare
  BY <1>4, <1>6, <1>12
     DEF TrackDeclare, ThreadGoto, ThreadReturns, ThreadSteps
<1>13. CASE DupQueryFile \/ DupQueryDeal
  BY <1>4, <1>6, <1>13
     DEF DupQueryFile, DupQueryDeal, ThreadGoto, ThreadReturns, ThreadSteps
<1>14. CASE DupDeclare
  <2>1. stored /\ stored'
    BY <1>1, <1>3, <1>14 DEF DupDeclare, ThreadGood
  <2> QED
    BY <1>4, <1>6, <1>14, <2>1
       DEF DupDeclare, ThreadGoto, ThreadReturns, ThreadSteps, Over
<1>15. ASSUME NEW r \in Requests, Put(r) \/ Restore(r) \/ View(r)
       PROVE  ThreadGood'
  <2>1. CASE MoveHome(r) \/ MoveRest(r) \/ RenameSaved(r) \/ LeaveChunks(r)
    BY <1>5, <2>1 DEF MoveHome, MoveRest, RenameSaved, LeaveChunks, thread
  <2>2. CASE ~MoveHome(r) /\ ~MoveRest(r) /\ ~RenameSaved(r) /\ ~LeaveChunks(r)
    BY <1>5, <1>15, <2>2, QuietRequest DEF thread
  <2> QED
    BY <2>1, <2>2
<1>16. CASE \/ OrderCompletes \/ OrderExpires \/ CopyArrives
            \/ CopyLeaves \/ UNCHANGED vars
            \/ \E u \in Users : OtherGatewayDeclares(u) \/ Deauthorise(u)
  BY <1>5, <1>7, <1>16, QuietWorld DEF thread
<1>17. CASE \E u \in Users, dir \in Dirs : Expire(u, dir)
  BY <1>5, <1>17 DEF Expire, thread
<1> QED
  BY <1>1, <1>7, <1>8, <1>9, <1>10, <1>11, <1>12, <1>13, <1>14, <1>15, <1>16,
     <1>17
     DEF Next, TrackFile

(* A PUT that moves its directory finds all of it in one or the other.     *)
LEMMA MoveGood ==
  ASSUME TypeOK, NEW q \in Requests, RequestGood(q),
         MoveHome(q) \/ MoveRest(q) \/ RenameSaved(q),
         Over(Account[q]) => Over(Account[q])'
  PROVE  RequestGood(q)'
<1> DEFINE home == Home(Account[q])
<1> USE DEF TypeOK, At, Goto, AnswerError
<1>1. q \in Puts
  BY DEF MoveHome, MoveRest, RenameSaved, RequestGood, PutSteps
<1>2. CASE pc'[q] = Answered(q)
  BY <1>1, <1>2 DEF RequestGood, Answered, Holding, BeforeMove
<1>3. SUFFICES ASSUME pc'[q] # Answered(q), ~Over(Account[q])
               PROVE  Holding(q)'
  BY <1>1, <1>2 DEF RequestGood, MoveHome, MoveRest, RenameSaved
<1>4. Holding(q)
  BY <1>3 DEF RequestGood
<1>5. home # Tmp(q)
  BY DirsDiffer
<1>6. CASE MoveHome(q)
  <2>1. pc[q] = "move" /\ \A p \in Needed(q) : p \in Names(Tmp(q))
    BY <1>4, <1>6, NeededTypes DEF MoveHome, Holding, BeforeMove, Holds, Names
  <2>2. PICK moved \in SUBSET Names(Tmp(q)) :
          /\ files' = (files \ In(Tmp(q), moved)) \cup In(home, {"."} \cup moved)
          /\ pc'[q] = "moving"
    BY <1>3, <1>6, <2>1, NeededTypes DEF MoveHome
  <2>3. ASSUME NEW p \in Needed(q)
        PROVE  <<Tmp(q), p>> \in files' \/ <<home, p>> \in files'
    <3>1. <<Tmp(q), p>> \in files
      BY <2>1, <2>3 DEF Names
    <3>2. CASE p \in moved
      BY <2>2, <3>2 DEF In
    <3>3. CASE p \notin moved
      BY <2>2, <3>1, <3>3 DEF In
    <3> QED
      BY <3>2, <3>3
  <2> QED
    BY <2>2, <2>3 DEF Holding, BeforeMove
<1>7. CASE MoveRest(q)
  <2>1. /\ pc[q] = "moving" /\ pc'[q] = "rename"
        /\ files' = Without(Tmp(q)) \cup In(home, Names(Tmp(q)))
    BY <1>3, <1>7 DEF MoveRest
  <2>2. ASSUME NEW p \in Needed(q)
        PROVE  <<home, p>> \in files'
    <3>1. CASE <<home, p>> \in files
      BY <1>5, <2>1, <3>1 DEF Without, In
    <3>2. CASE <<Tmp(q), p>> \in files
      <4>1. p \in Names(Tmp(q))
        BY <2>2, <3>2, NeededTypes DEF Names
      <4> QED
        BY <2>1, <4>1 DEF In
    <3> QED
      BY <1>4, <2>1, <2>2, <3>1, <3>2 DEF Holding
  <2> QED
    BY <2>1, <2>2 DEF Holding, BeforeMove, Holds
<1>8. CASE RenameSaved(q)
  <2>1. /\ pc[q] = "rename" /\ pc'[q] = "record"
        /\ files' = files \ {<<home, Second[q]>>}
    BY <1>3, <1>8 DEF RenameSaved
  <2>2. \A p \in Fragments : <<home, p>> \in files'
    BY <1>4, <2>1, NeededTypes DEF Holding, Holds
  <2> QED
    BY <2>1, <2>2 DEF Holding, BeforeMove, Holds
<1> QED
  BY <1>6, <1>7, <1>8

(* A PUT finds at each step what its earlier steps have left for it.       *)
LEMMA RequestGoodStep ==
  ASSUME SecondsDiffer, TypeOK, FileInv, DataInv, [Next]_vars, deleted' = {},
         NEW q \in Requests
  PROVE  RequestGood(q)'
<1>1. deleted = {} /\ RequestGood(q) /\ \A r \in Requests : ~Delete(r)
  BY NoDelete DEF DataInv
<1>2. CASE pc'[q] = pc[q]
  BY <1>2, RequestKept
<1>3. ASSUME pc'[q] \notin PutSteps
      PROVE  RequestGood(q)'
  <2>1. Holding(q)'
    BY <1>3 DEF Holding, BeforeMove, PutSteps
  <2> QED
    BY <1>3, <2>1 DEF RequestGood, PutSteps
<1> USE DEF Goto, At, TypeOK, chain, disk, history
<1>4. ASSUME NEW r \in Requests, Put(r), pc'[q] # pc[q]
      PROVE  RequestGood(q)'
  <2>1. CASE PutBegin(r)
    <3>1. /\ r = q /\ pc'[q] = "dedup" /\ q \in Puts
          /\ files' = files \cup In(Tmp(q), {".", Second[q]} \cup Fragments
                          \cup (IF q \in Chunked THEN {"chunk-info"} ELSE {}))
      BY <1>4, <2>1 DEF PutBegin, Puts
    <3>2. Holds(Tmp(q), Needed(q))'
      BY <3>1 DEF Holds, Needed, In
    <3> QED
      BY <3>1, <3>2 DEF RequestGood, Holding, BeforeMove
  <2>2. CASE Deduplication(r)
    <3>1. r = q /\ files' = files /\ pc[q] \in PutSteps
          /\ \/ /\ pc[q] \in BeforeMove
                /\ pc'[q] \in (BeforeMove \ {"dedup"}) \cup {"declare"}
             \/ pc'[q] = Answered(q)
      BY <1>4, <2>2 DEF Deduplication, DedupOwned, DedupStored, DedupMissing,
            DedupDeclare, DedupOwnOrder, DedupOtherOrder, DedupStat,
            DedupNoOrder, DedupCreate, DedupWrite, Answer200, AnswerError,
            PutSteps, BeforeMove
    <3>2. Over(Account[q]) => Over(Account[q])'
      BY StepRemoves DEF Over
    <3> QED
      BY <1>1, <3>1, <3>2
         DEF RequestGood, Holding, Holds, BeforeMove, Answered
  <2>3. CASE MoveHome(r) \/ MoveRest(r) \/ RenameSaved(r)
    <3>1. r = q
      BY <1>4, <2>3 DEF MoveHome, MoveRest, RenameSaved, AnswerError
    <3>2. Over(Account[q]) => Over(Account[q])'
      BY StepRemoves DEF Over
    <3> QED
      BY <1>1, <2>3, <3>1, <3>2, MoveGood
  <2>4. CASE \/ StatHome(r) \/ AlreadyTracked(r) \/ NotTracked(r)
             \/ PutRecord(r) \/ PutOrder(r)
    <3>1. /\ r = q /\ pc[q] \in PutSteps /\ files' = files
          /\ \/ /\ pc[q] \in {"stat", "hastrack"}
                /\ pc'[q] \in {"hastrack", "move"}
             \/ pc'[q] \in {"order", Answered(q)}
      BY <1>4, <2>4 DEF StatHome, AlreadyTracked, NotTracked, PutRecord,
            PutOrder, Answer200, AnswerError, PutSteps
    <3>2. Over(Account[q]) => Over(Account[q])'
      BY StepRemoves DEF Over
    <3> QED
      BY <1>1, <3>1, <3>2
         DEF RequestGood, Holding, Holds, BeforeMove, Answered
  <2>5. CASE LeaveChunks(r)
    BY <1>3, <1>4, <2>5 DEF LeaveChunks, PutSteps
  <2> QED
    BY <1>4, <2>1, <2>2, <2>3, <2>4, <2>5 DEF Put, FileProcess
<1>5. ASSUME NEW r \in Requests, Restore(r) \/ View(r), pc'[q] # pc[q]
      PROVE  RequestGood(q)'
  BY <1>3, <1>5 DEF Restore, RestoreBegin, RestoreWrite, View, ViewQueryFile,
        ViewQueryDeal, ViewHasTrackFile, PutSteps
<1>6. CASE TrackFile \/ TrackQueryFails
  <2>1. UNCHANGED pc
    BY <1>6, QuietThread DEF CleanData
  <2> QED
    BY <1>2, <2>1
<1>7. CASE Crash
  BY <1>3, <1>7 DEF Crash, PutSteps
<1>8. CASE \/ OrderCompletes \/ OrderExpires \/ CopyArrives
           \/ CopyLeaves \/ UNCHANGED vars
           \/ \E u \in Users : OtherGatewayDeclares(u) \/ Deauthorise(u)
  BY <1>2, <1>7, <1>8, QuietWorld
<1>9. CASE \E u \in Users, dir \in Dirs : Expire(u, dir)
  BY <1>2, <1>9 DEF Expire
<1> QED
  BY <1>1, <1>2, <1>4, <1>5, <1>6, <1>7, <1>8, <1>9 DEF Next

(* Every fragment the record on disk points at is there, unless the file   *)
(* is stored, deleted, no longer the gateway's to place, or its account    *)
(* has lost a directory to checkExpiredFiles or to a failed Rename; the    *)
(* two records that are excepted are named in the property.  The names of  *)
(* one account's uploads have to differ.                                   *)
THEOREM RecordsPointAtData ==
  ASSUME SecondsDiffer
  PROVE  Spec => []RecordHasData
<1>1. Init => DataInv
  BY RecordAssumption
     DEF Init, DataInv, RecordGood, ThreadGood, RequestGood, Recorded,
         Holding, BeforeMove, ThreadSteps, PutSteps
<1>2. TypeOK /\ FileInv /\ DataInv /\ [Next]_vars => DataInv'
  BY RecordGoodStep, ThreadGoodStep, RequestGoodStep DEF DataInv
<1>3. DataInv => RecordHasData
  <2>1. \A dir : Holds(dir, Fragments) => HasAll(dir)
    BY DEF Holds, HasAll, In
  <2> QED
    BY <2>1 DEF DataInv, RecordGood, HasData, Over, RecordHasData
<1> QED
  BY <1>1, <1>2, <1>3, TypeCorrect, FileKept, PTL DEF Spec
=============================================================================
