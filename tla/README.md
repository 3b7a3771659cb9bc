# DeOSS: specifications, model checks and proofs

DeOSS is the gateway of a decentralised storage network (CESS). Clients send it
files over HTTP; it splits each file into segments and each segment into
erasure-coded fragments, records the upload on disk, places a storage order on
the chain, hands the fragments to miners until the order is complete, and serves
files back from a cache, from other gateways or from the miners. This directory
holds TLA+ models of those mechanisms, TLC configurations that check them on
small instances, and TLAPS proofs that the type invariants, the safety properties
and the two refinements hold in every instance. Paths below are relative to the repository.

Run from this directory:

    tlc -workers 2 -config UploadTrack.cfg UploadTrackMC.tla     # one run
    tlapm UploadTrack_proofs.tla                                 # one proof module

The pairs of configuration and module, the code lines of every definition, the
mutants and the hazards are in `PROJECT.json`.

## 1. The system

### Components

| component | code | state | operations | modelled in |
|---|---|---|---|---|
| track pool, tracker loop | `inter/trackfile.go`, `node/tracker.go:44-98`, `node/taskMgt.go` | `trackFiles` (map behind a lock); the track directory; a channel that tells `TaskMgt` the loop has ended | `AddTrackFile`, `GetTrackFileNum`, `DelTrackFile`, `tracker`, `trackFileThread`, restart by `TaskMgt` | `TrackPool` |
| upload (PUT) | `node/putHandle.go`, `fileProcess` in `node/putChunksHandle.go` | directory `<account>/<fid>`, a private directory per request, the record `track/<fid>` | checks, save, shard, deduplication, record, storage order, answer | `UploadTrack` |
| tracking of an upload | `trackFile` in `node/tracker.go` | the parsed record; the record file; the order on the chain | query, clean up, declare, write the record back, duplicate handling, transfer | `UploadTrack` |
| transfer to miners | `storageData` in `node/tracker.go` | peers already used, the flag `failed`, batches | iterate batches, peers and fragments | `Transfer` |
| delete | `node/delHandle.go` | the same directory and record | transaction, `RemoveAll`, `DeleteTrackFile` | `UploadTrack` |
| resumable upload | `putChunksHandle` | directory with `chunk-info`, chunks, the assembled file | save a chunk, assemble, process, expire | `ChunkUpload` |
| download, open, cache | `node/getHandle.go`, `node/download_file.go`, `node/open_file.go` | `<file dir>/<fid>`, restored segments, the file cache | cache lookup, fetch from gateways, `fetchFiles`, serve, move to cache | `Download` |
| block synchronisation, restore list | `node/syncBlock.go`, `node/getRestore.go`, `pkg/db` | position, lists in leveldb and in files | follow blocks, answer GET /restore | `Restore` |
| restore request | `node/postRestore.go` | track records, the downloaded copy | write a record without segments, shard the copy again | `UploadTrack` |
| view of a file | `node/getHandle.go:201-228` | none | metadata, order, record, one after the other | `UploadTrack` |
| request limits | `node/putHandle.go:31-52`, `node/getHandle.go:68-85` | two channels of tokens and who is blocked on them | take, give back | `Admission` |
| account, state and space checks | `node/common.go:254-283`, `putChunksHandle.go:470-651`, `node/taskMgt.go:112-130` | balance and connection of the gateway; space on the chain | decide on one request; take the space with the order | `Admission`, authorisation in `UploadTrack` |
| storage peers, peer record | `node/sdkMgt.go`, `node/taskMgt.go`, `node/record_peer.go`, `node/node.go:159-176` | two maps behind locks | two tasks save and delete; discovery saves | `Peers` |
| start-up, exit, discovery | `cmd/cmd/run.go`, `cmd/cmd/exit.go`, `pkg/confile`, `node/discoverMgt.go` | workspace, peer key, registration on the chain, selector | configure, register or update, rebuild, run; unregister | `Startup` |
| metadata query, feedback, key-value cache, logging, content types | see `PROJECT.json` | none that matters to the above | I/O | not modelled |

### Interaction

- `putHandle` and `putChunksHandle` leave a record in the track directory. The
  loop `tracker()` lists the directory and starts one goroutine `trackFile()` per
  record; the pool keeps a file from getting two. `trackFile()` calls
  `storageData()` until the chain shows the file as stored, and removes the data
  and the record.
- DELETE works on the same record and the same directories, without telling the
  goroutine. Several requests for one file share its directory.
- Miners report fragments to the chain themselves; the gateway sees it only by
  its next query.
- Downloads share one path per file and one cache with each other. The copy they
  leave is what POST /restore works from, and what the goroutine removes when the
  file is stored.
- Every request passes the tokens and checks first; the space it was admitted for
  is taken by the storage order at its other end.
- A start registers the gateway, may empty the track directory, and starts the
  tasks. The peers it hears of are looked up in what the tasks have learned, and
  handed to the selector `trackFile()` takes its miners from.

### What is hard here

There is no lock around a file: the locks protect one map or one file operation
each. Everything between two operations interleaves: two uploads, an upload and
a delete, the goroutine and both of them, two downloads. A crash can fall
between any two steps, and the disk is all that is left. Every call to the chain
can fail, or take effect and still report an error. The list `hazards` in
`PROJECT.json` names the places, with the properties that watch them.

### What makes each component correct

- *Track pool*: one goroutine per file, a bounded number of them, no record left
  alone while there is room.
- *Upload and tracking*: what was answered 200 survives anything but its owner's
  own withdrawal, and ends on the chain; a record never points at data that is
  gone, or only half there, unless expiry has taken it.
- *Transfer*: no two batches for one miner, nothing sent twice, and the order is
  complete in the end.
- *Resumable upload*: `chunk-info` tells the truth; what is processed is whole.
- *Download*: an answer has the whole file; nothing spoils a name for good.
- *Restore list*: each event of a block is entered, once if possible.
- *Admission*: no token is lost, nobody waits for ever, and what was admitted is
  refused later only for a reason that came up later.
- *Start and peers*: a start that dies anywhere neither loses records nor stops the
  next one; what runs is registered as it is; the two tasks end up right.

## 2. Modules

| module | role |
|---|---|
| `KeyedWorkers` | abstract: workers per key, at most one each, at most `Limit` |
| `TrackPool`, `TrackPoolMC`, `TrackPool_proofs` | the pool, the loop, `TaskMgt`'s restart; refines `KeyedWorkers` |
| `DurableUpload` | abstract: only durable claims are acknowledged, only their owner gives them up |
| `UploadTrack`, `UploadTrackMC`, `UploadTrack_proofs` | one file from PUT (whole or in chunks) to chain, with DELETE, restore, view, `trackFile()` and the chain; refines `DurableUpload` for one account |
| `Transfer`, `Transfer_proofs` | `storageData()` |
| `ChunkUpload`, `ChunkUploadMC`, `ChunkUpload_proofs` | one upload directory of `putChunksHandle` |
| `Download`, `Download_proofs` | the three download handlers and `fetchFiles` for one file |
| `Restore`, `RestoreMC`, `Restore_proofs` | `syncBlock()` and GET /restore for one account |
| `Admission`, `AdmissionMC`, `Admission_proofs` | tokens, checks, and the space an order takes |
| `Peers` | `storagePeers` and the two tasks that write it |
| `Startup`, `Startup_proofs` | the life of the process; extends and composes with `Peers` |

Definitions of the form "Mutant: ..." stand before the definition they vary.
Each is a plausible bug in that piece of code; the property it is paired with in
`PROJECT.json` fails when it takes the definition's place.

### How the models read

- One action is one call that reads or writes state others can see: a file operation, a
  chain query, a declaration, a critical section. Everything between two of them is part
  of the next. Where two calls follow each other with nothing observable in between they
  are one action.
- `Fault`, `Fails`: a failing call, a crash, an expiring order. Their number is bounded
  (`MaxFaults`, `MaxCrashes`, `MaxFailures`); where they fall is free.
- Everything in memory is lost in a `Crash`; everything in the variables called disk or
  store stays. A restart is part of it, except in `Download`, where the process may also
  end by itself (`os.Exit`) and is started again (`Restart`).
- Data is abstracted to what can go wrong with it. In `UploadTrack` a record is its
  owner, its flag `Duplicate` and the directory it points into; a directory is the set
  of names in it, so that a move is seen half done. In `Download` a file is the set of
  segments it holds, so that truncation and holes are seen. In `ChunkUpload` a file is
  its size. In `Transfer` a peer is what it holds.

`TrackPool`. `trackFiles` is the map of that name. `ListTrackFiles`, `CheckRoom`,
`StatNext`, `AddTrackFile`, `AddTrackFileFails`, `GoTrackFileThread`, `EndScan` are
the steps of the loop in order; `TrackFileReturns` and `DelTrackFile` are the end of
a goroutine and its deferred release. `HandlerWrites` and `HandlerDeletes` are the
HTTP handlers, from the pool's point of view.

`UploadTrack`. One root hash is followed, because all state of an upload is named
by it. `pc[r]` is the step of request `r`, `tpc` that of the goroutine. At most one
goroutine exists: that is what `TrackPool` shows. The names `Dedup...`, `Track...`,
`Dup...` are the branches of `deduplication()` and `trackFile()`. Chain, miners, other
gateways and users act through `Accept`, `OrderCompletes`, `OrderExpires`,
`OtherGatewayDeclares`, `Deauthorise`. Two PUTs of one account in the same second
save under the same name; `Second` says when each was saved. A PUT in `Chunked` is
the last chunk of `putChunksHandle`: authorised by its first chunk, and with a
deferred `RemoveAll` of its directory (`LeaveChunks`) after every answer. `Copy` is the
file a download leaves; `CopyArrives` and `CopyLeaves` stand for module `Download`. A
record whose directory is `Copy` is one without segments, as POST /restore writes it.

`RenameDir` goes name by name: `MoveHome` renames some of the names, `MoveRest` the
others, and a crash, a failed `Rename` or a directory that has gone in between leaves
what has been moved where it is. `chunk-info` is one of the names, so the home of an
upload in chunks has one, and `Expire` (`checkExpiredFiles`, called by any later chunk of
the account) may remove that home as well as the directory of the chunks. `swept`
remembers for whom; a `RenameSaved` that fails removes the home too. `deduplication()`
asks for the order (`DedupOtherOrder`) and looks for the record (`DedupStat`) in two
steps, as `fileProcess()` does with the home and the record (`StatHome`, `AlreadyTracked`
or `NotTracked`). The write of a duplicate's record may fail and leave it torn
(`DedupWrite`), and the answer to a deletion may be lost (`DeleteTx`).

`Transfer`. `Begin` to `Return` is one call; `trackFile()` calls it again with the
list of reported batches of that moment. Any of the queries for the peers of these
may fail (`Begin`), and there may be no iterator over the peers (`NoIterator`). The ten
attempts for a fragment are one step. What remains of the call's locals is reset by `Return`.

`ChunkUpload`. `mine[r]` is the request's copy of `chunk-info`. The exemption of
known accounts from the request limit (`chunkReq`) never takes effect, since an
account is only entered when it is already there; all requests count. `StartUpload` is
what the first request checks. After `Process` the directory is emptied name by name
(`MoveSome`, `MoveRest`), and removed by the deferred call (`Leave`). The names are moved
in their order, so `chunk-info` goes after the chunks that were listed. A crash may cut
the write of `chunk-info`, or a removal of the directory by a request or by
`checkExpiredFiles`; `emptied` remembers that files have been taken out. `TooMany` is the
answer to an account with ten unfinished uploads.

`Download`. Other gateways are one step, which yields the whole file, nothing, or
a part left behind. `Evict` is the cache's expiry. `openFileHandle` moves the
fetched file into the cache and reads it by its old path: `OpenRead`.

`Restore`. Lists are sequences, since double entries matter. `TaskMgt()` of this
revision does not start `syncBlock()`; the module checks that code as it stands,
and the handler, which is reachable, against it. `AppendToFile` reads the list in the
file, appends and writes it in place: a list that cannot be read is replaced by one
with the new entry alone.

`Admission`. A Go channel hands a token that is sent to the receiver that has waited
longest: `Leave` either fills the channel or lets the head of `queue` in. Sizes are in
half segments, so that the rounding to whole segments and the factor 15/10 of the two
checks (`Asked`) and of the order (`Taken`) can be told apart; what an order takes is
decided by the chain, and modelled from the sizes it is given. `seen[r]` records what
the check saw. A PUT without a body ends with its bucket (`CreateBucket`);
`EarlyReturn` stands for every other return before the order: authorisation, memory,
disk, body, deduplication, an error of `fileProcess()`. `Order` takes the space, or is
refused for lack of room, or fails otherwise; the request is answered 200 whatever
comes of it (`PlaceOrder`), and an order that was not placed is `pending` until
`trackFile()` gets it through (`OrderAgain`). Uploads in chunks are uploads in one
chunk here, since the space is checked with the first and taken with the last.

`Peers`. `QueryAllMiner`, `QueryMinerItems` and `ApplyItems` are one round of either
task; they differ in what follows (`RoundEnd`). A miner on the chain is unknown, full
or has room. An answer is applied whatever has happened since.

`Startup`. `phase` is the next step of `cmd_run_func`; `Dead` is every end of the
process. `record` is one upload in the track directory and `owned` says that it was
acknowledged under the registration that still holds. A transaction whose answer is
lost has been included (`RegisterOss`, `UpdateOss`). `StartFlags` sets no `Access` and no
domain, as in the code: they are empty, or what a configuration file that parsed only
half way (`ParseFails`) has left in them. It panics when the workspace is new. `Track`
drops a record whose file is stored before it needs the selector; any other record
makes it panic with a nil one.

## 3. Runs

| run | shows | instance |
|---|---|---|
| `TrackPool` | `OneThreadPerFile`, `ThreadsBounded`, `RegistrationInv`, `WorkersSpec` (refinement), `ServedWhenRoomy` (liveness) | 3 names, pool of 2, 1 panic or crash |
| `UploadTrack` | `NoAckedFileLost`, `PendingOrderIsRecorded`, `ViewMissesOnlyStored` | 2 accounts, a PUT of each, a restore, a view, downloads, another gateway, 1 fault |
| `UploadSingle` | `RecordHasData`, `AckedNotForgotten`, `DurableSpec` (refinement), `AckedEventuallyOwner` (liveness) | 1 account that may withdraw, 2 PUTs, one in chunks, a DELETE, expiry, 2 faults |
| `Transfer` | `SentWhereMissing`, `LoggedGotFirst`, `OrderCompletes` (liveness) | 2 batches of 2 fragments, 3 peers, 2 faults |
| `ChunkUpload` | `ProcessedIsWhole`, `AnsweredStaysSaved`, `InfoMatchesDisk` | 3 chunks of size 1 or 2, total 4, 4 requests one at a time, 2 faults, expiry among them |
| `Download` | `NoLeftovers`, `DownloadRecovers` (liveness) | a download and an open at once, 2 segments, 2 faults |
| `Restore` | `CrashLosesNothing`, `OncePerLife`, `RestoreTruthful`, `CatchesUp` (liveness) | 4 blocks, 3 files, 2 crashes, 2 failures |
| `Admission` | `TokensConserved`, `RefusedOnlyOvertaken`, `EveryoneServed` (liveness) | 2 + 1 tokens, 2 PUTs, one of unannounced length, an upload in a chunk, the bucket of an exempt account, a download, 1 fault |
| `Startup` | `RunsAnnounced`, `NilOnlyIfFailed`, `RecordsSurvive`, `EventuallyRuns`, `PeersSettle` (liveness) | 2 miners, 2 changes, 2 faults, 1 exit |
| `UploadDuplicate` | a counterexample, section 5 | 2 accounts, no fault |
| `UploadDeleted` | a counterexample | 1 account, no fault |
| `ChunkTruncated` | a counterexample | 2 requests at a time, no fault |

Each passing run has its module's `TypeOK` too, `UploadSingle` excepted, whose module
is that of `UploadTrack`.

### Bounds and why they are enough

- *TrackPool*: a pool of two with three names is the smallest in which the pool is full,
  a name is left out, and the loop meets a registered name. The safety properties are
  proved for all sizes.
- *UploadTrack*: the interplay is between two accounts with one file; one request more
  of an account than the model has can repeat a situation but meets the same record and
  directory. One fault puts a crash, a lost answer, a failed write or an expired order
  at every step; two faults together are in `UploadSingle`, which has the DELETE. All
  three properties are proved for all sizes.
- *UploadSingle*: one account is not a convenience: with two, `AckedNotForgotten` is
  false (section 5). Two faults, two uploads and a delete give every order of upload,
  deletion and upload again. One fragment, the saved file and `chunk-info` are three
  names, so a move can be cut before, after and between those that matter: what is in
  the home and what tells `checkExpiredFiles` about it. The safety properties and the
  refinement are proved for any number of fragments.
- *Transfer*: a batch can be reported, half transferred or untouched, and a peer used,
  failed or fresh; two batches and three peers let a failing peer be replaced. The two
  safety properties are proved for all sizes.
- *ChunkUpload*: one request at a time, because with two the properties are false
  (`ChunkTruncated`, and section 4). Sizes are such that a set of three chunks can be
  short of the total, equal or above. Four requests allow one chunk to be lost and sent
  again. The three properties are proved for all sizes and any number of requests after
  one another.
- *Download*: two segments tell a half-written file from an empty one; two requests at a
  time reach every collision on the shared names, `os.Exit` included. `NoLeftovers` is
  proved for all sizes.
- *Restore*: events in one block, a deletion next to an upload, a file uploaded again;
  two crashes repeat a block twice. The safety properties are proved for all chains.
- *Admission*: with two tokens and three uploads that need one, the third waits for
  whichever returns first; longer queues are in the proof (`QueueInv`). One account has room for one of its two large files, or for a large one's
  check and not its order once the small one has taken its part; the small one announces
  no length, so its check passes anything. The exempt account creates a bucket.
  `TokensConserved` and `RefusedOnlyOvertaken` are proved for all sizes.
- *Startup*: two failures let a start die half way and the next one too; two changes
  give the key and a miner, or one miner twice, a new state while both tasks hold an old
  one. The safety properties are proved for all sizes.

Deadlock is checked where the system never stops (`TrackPool`, `Download`,
`Admission`, `Startup`). The
other configurations end when their finite set of requests or blocks is handled.

### Fairness

- Goroutines and the loop: weak fairness, since the Go scheduler runs what can
  run. In `TrackPool` it is not assumed that a goroutine returns, because
  `trackFile()` loops for as long as its file is not stored; where a property needs
  it, it is a premise of the property.
- `UploadTrack` assumes that `trackFile()` goes on and is started again for a record
  that is there (`TrackFile`): `TrackPool`'s `ServedWhenRoomy` is the reason for the
  latter. It assumes that a request that has begun goes on, and that miners holding
  the fragments report them (`OrderCompletes`). Neither arrival of requests, nor
  expiry, nor any fault is forced; faults are finite, so calls succeed eventually.
- `Transfer` assumes that a miner with a whole batch reports it.
- `Download` assumes that handlers run on, that cache entries expire (the cache is
  created with an expiry, `node.go:145`) and that an ended process is started again.
- `Restore` assumes only that the loop runs.
- `Admission` assumes that a handler that can go on does: a waiting request goes on
  when a token is handed to it, and every handler ends by `Leave`. That is an
  assumption about the clients too: the server sets no read timeout (`node.go:103`),
  and a client that stalls in the middle of its body keeps its token for as long.
- A failure in `Startup` belongs to one start. One that comes from the
  configuration would come back at each start, and `EventuallyRuns` does not hold then.
- `Startup` assumes that the operator starts a dead process again, that a start goes
  on, and that the tasks run. It does not assume that `TaskMgt` starts `refreshMiner`
  again (it looks for an hour that five divides): `PeersSettle` rests on `sdkMgt`.

## 4. Proofs

For every value of the constants that satisfies the modules' assumptions, and the
hypothesis in the last column:

| theorem | statement | hypothesis |
|---|---|---|
| `TrackPool_proofs!TypeCorrect` | `Spec => []TypeOK` | |
| `TrackPool_proofs!Registration` | `Spec => []RegistrationInv` | |
| `TrackPool_proofs!NoDoubleThread` | `Spec => []OneThreadPerFile` | |
| `TrackPool_proofs!PoolNeverOverrun` | `Spec => []ThreadsBounded` | |
| `TrackPool_proofs!PoolImplementsWorkers` | `Spec => WorkersSpec` | |
| `UploadTrack_proofs!TypeCorrect` | `Spec => []TypeOK` | |
| `UploadTrack_proofs!FileKept` | `Spec => []FileInv` | |
| `UploadTrack_proofs!AckedFileKept` | `Spec => []NoAckedFileLost` | |
| `UploadTrack_proofs!OrderRecorded` | `Spec => []PendingOrderIsRecorded` | |
| `UploadTrack_proofs!ViewTruthful` | `Spec => ViewMissesOnlyStored` | |
| `UploadTrack_proofs!ClaimNotForgotten` | `Spec => []AckedNotForgotten` | `OneAccountHere` |
| `UploadTrack_proofs!ClaimIsDurable` | `Spec => DurableSpec` | `OneAccountHere` |
| `UploadTrack_proofs!RecordsPointAtData` | `Spec => []RecordHasData` | `SecondsDiffer` |
| `Transfer_proofs!TypeCorrect` | `Spec => []TypeOK` | |
| `Transfer_proofs!FirstArrived` | `Spec => []LoggedGotFirst` | |
| `Transfer_proofs!NoTwoShards` | `Spec => SentWhereMissing` | |
| `ChunkUpload_proofs!SumAdd` and its three companions | what `SumFunctionOnSet` computes | finite sets, values in `Nat` |
| `ChunkUpload_proofs!TypeCorrect` | `Spec => []TypeOK` | |
| `ChunkUpload_proofs!WholeFilesOnly` | `Spec => []ProcessedIsWhole` | `MaxInFlight = 1` |
| `ChunkUpload_proofs!ResumeLosesNothing` | `Spec => []AnsweredStaysSaved` | `MaxInFlight = 1` |
| `ChunkUpload_proofs!InfoIsTrue` | `Spec => []InfoMatchesDisk` | `MaxInFlight = 1` |
| `Download_proofs!TypeCorrect` | `Spec => []TypeOK` | |
| `Download_proofs!NothingLeftOver` | `Spec => NoLeftovers` | |
| `Restore_proofs!TypeCorrect` | `Spec => []TypeOK` | |
| `Restore_proofs!PositionIsSafe` | `Spec => []CrashLosesNothing` | |
| `Restore_proofs!RestoreIsTruthful` | `Spec => []RestoreTruthful` | |
| `Restore_proofs!EnteredOnce` | `Spec => []OncePerLife` | |
| `Admission_proofs!TypeCorrect` | `Spec => []TypeOK` | |
| `Admission_proofs!Conserved` | `Spec => []TokensConserved` | |
| `Admission_proofs!OvertakenOnly` | `Spec => RefusedOnlyOvertaken` | |
| `Startup_proofs!TypeCorrect` | `Spec => []TypeOK`, that of `Peers` included | |
| `Startup_proofs!Announced` | `Spec => []RunsAnnounced` | |
| `Startup_proofs!Survive` | `Spec => RecordsSurvive` | |
| `Startup_proofs!NilUse` | `Spec => []NilOnlyIfFailed` | |

The three hypotheses are not conveniences; without each of them the properties are
false:

- `OneAccountHere`: one account uploads the file and no other gateway places an
  order for it. With a second account, whose order may come from anywhere, an owner is
  forgotten (`UploadDuplicate`).
- `SecondsDiffer`: two PUTs of one account are not saved in the same second. Else
  both save under one name, and the second one, which does not find its file there any
  more, takes the first one's data away.
- `MaxInFlight = 1`: a client sends its next chunk when it has the answer to the
  last one. Two requests at once truncate each other's file (`ChunkTruncated`), and
  each overwrites what the other has marked; TLC refutes all three with two at a time.

*TrackPool.* "One goroutine per file" is not inductive: nothing in it says that a
name without a goroutine may be registered, or that the loop between
`AddTrackFile` and the `go` statement counts. `RegistrationInv` says that each
goroutine, and the loop in that window, owns a registration of its own, and that
the pool's map is finite and within its limit. The two safety properties and the
refinement follow: a start is a step of `KeyedWorkers` because the new goroutine's
registration is one no goroutine had.

*UploadTrack.* A crash can follow any step, so what is promised to a client must be
on disk already. `FileInv` states it step by step: a request that is about to place
an order has a record, a goroutine that is about to clean up has seen the file
stored, a pending order has a record. All of it holds while `Undisturbed` does: no
deletion, no withdrawn authorisation, no declaration through another gateway. These
never become true again once they were false (`UndisturbedBefore`), which lets the step
proof assume them before the step. A duplicate's record is written in place. While
`Undisturbed` holds, the order that leads there is this gateway's own and has a record;
the `Stat` that finds none can only come after that order has completed and
`trackFile()` has dropped the record. So a torn record is there only once the file is
stored, and that is what `FileInv` says. With another gateway's order no record need be
there before, and the assumption is needed: a crash then leaves one that does not parse.

A view that finds no record when the file is acknowledged must find it stored:
`ViewTruthful` follows from `NoAckedFileLost` after the step, since only
`ViewHasTrackFile` answers 404 (`OnlyViewsMiss`).

What an account is promised follows from what the file is promised once the account
is alone on it. `OwnerInv` adds that nothing came from outside, and that a stored file
that was not deleted has an owner; with one account that owner is the one that was
answered 200 (`ClaimKept`). The refinement of `DurableUpload` then goes step by step: a
claim may end only when the account has withdrawn, and an answer comes only with the
claim in place, which is `AckedNotForgotten` after the step.

`RecordHasData` speaks of the record on disk alone, and no step preserves it by itself:
the goroutine writes its parsed copy back, and a request writes a record after its
directory. `DataInv` says the same of that copy (`ThreadGood`) and of what each step of
a PUT still finds of its own (`RequestGood`, `Holding`): in the private directory before
the move, in one or the other during it, in the home after it. What is needed there
(`Needed`) are the fragments and the saved file. A record is written only after the
saved file has been found in the home under its second, which with distinct seconds is
the request's own; by then the fragments are there too. So a move cut short anywhere
leaves a home without a record, or one whose record's own move was complete, and to
which further names only add. No name of another directory changes (`StepRemoves`).
The exceptions are part of the invariant: `Over` (the file is stored, or the owner has
withdrawn, or one of its directories was swept), a duplicate of an upload in chunks, and a
restored copy (`HasData`). `swept` cannot be dropped: section 5.

*Transfer.* The invariant `IInv` says what the locals of the call mean at each place of
the loops: the batch in hand was missing when the call began, its peer has none of
the known batches, and the flag `failed` is set exactly at the first fragment. So a
clear flag vouches for the first fragment and, as section 5 says, for no other.

*ChunkUpload.* `LinkedInv` is what types need: a request that holds an open file writes
the chunk or the assembled file of that name, unless the directory has been removed
under it. For the promises, `AloneIInv` says that one request is handled at a time
(`OneAtATime`), what a removed directory and an absent `chunk-info` mean (`DirInv`), and
what the request knows of the disk at each step (`Knows`): its copy of `chunk-info` is
the file, the chunk it writes is not marked, the file it assembles has as many bytes as
it counted. Expiry may remove the directory at any of these steps, which is why each is
conditional on it. When files have been taken out and the process has died, the
directory may have chunks without `chunk-info`, or `chunk-info` without chunks:
`emptied` lasts until the directory is removed or the next request starts anew in it,
and the two promises about `chunk-info` are not made meanwhile. `ProcessedIsWhole` is:
what is assembled is counted by what is read. `SizeOfMarked` needs that the sum of a set
grows by the element that is added. The community modules define the sum by a recursion
over the subsets of the set. The number of pairs `<<x, n>>` with `n` in `1 .. f[x]`
solves that recursion (`CountSolves`), and on the least subset on which another solution
would differ it would have to agree (`CountAlone`): so the sum is that number, and
additivity is that of cardinalities.

*Download.* Writing a segment adds it to the file behind the descriptor. That this is a
file needs `OpenInv`: a descriptor that still has a path has a file at it, although
other requests remove, move and replace files and the cache gives entries up. Each of
these takes the path from the descriptors it removes (`OpenRemoved`) or carries them
along. `NoLeftovers` is a property of steps: of all that change where a request is, only
three take it out of the two steps it speaks of, and each removes the segments or ends
the process (`LeavingRemoves`).

*Restore.* `PlaceInv` relates the place in the loop to the block: it is entered only when
the chain has its successor, and the events in hand are the block's or none. Without
failed calls, `PositionInv` says which of the block's events are in the lists at each
place, and that all of the blocks before it are; a crash falls back to `Passed`, which is
what was saved. GET /restore is nothing when it panics, so its theorem includes that it
does not; but without failed calls no list is ever in a file, and with one the code does
panic (section 5). Without crashes, `NoCrashInv` bounds the entries about a file by the
events of the earlier blocks and those taken of this one (`Taken`), whichever calls
failed. Events are counted as pairs of block and place, so that one more block adds a
set disjoint from the others.

*Admission.* A token is in its channel or held (`Holders`), and the sum is the limit.
This is inductive only with `QueueInv`: who is let in at the head of a queue must belong
to that pool, be blocked, and not be in the queue twice. `OvertakenOnly` needs that
whoever has an order to place, for the first time or again, was admitted (`AdmittedInv`,
`Ordering`), that only `Order` adds to the refused (`RefusedByOrder`), and that for a
PUT of whole segments the check asks for as much as the order takes (`WholePutAsksAll`).
Of other uploads it says nothing: a PUT that announces no length passes any check, and
an upload in chunks asks for less than its order takes. `RequestsAssumption` is used:
the requests are finitely many, each of one kind, with sizes that are numbers.

*Startup.* The types need that the key is never newer than the changes that made it, and
that a task's answer is of the miners it asked for. Three further invariants.
`SelectorInv`: outside `run` there are no storage peers and no task, so the callback
that runs before the selector is there does not use it. `AnnouncedInv`: what
`QueryOss()` answered is still what the chain has, and from the announcement on the
chain has what the process is. `RecordsInv`: only a start that has just registered
rebuilds, and a record belongs to a registration that holds. The last two rest on the
account being used by one gateway process at a time, and on a lost transaction being
included before the next start asks.

Only model-checked: liveness under fairness, which the prover has no rules for:
`ServedWhenRoomy`, `AckedEventuallyOwner`, `OrderCompletes`, `DownloadRecovers`, `CatchesUp`,
`EveryoneServed`, `EventuallyRuns` and `PeersSettle`. Every invariant and every action
property that a passing run checks is proved, and so are the two refinements.

## 5. Where the code does not do what it says

- *A second owner is forgotten* (`UploadDuplicate`). While an order of another
  account for the same content is pending, a PUT is answered 200 and leaves a
  record with `Duplicate` set. When that order completes, `trackFile()` finds the
  file stored and removes the record (`tracker.go:120-130`) before it comes to the
  branch for duplicates.
- *A deletion is undone* (`UploadDeleted`). DELETE falls between the two queries of
  `trackFile()`; the record is written back and the file ordered again.
- *A truncated file is processed* (`ChunkTruncated`): two requests for the last
  chunk, of which one truncates the file that the other has checked.

Uploads that are lost although they were acknowledged, or answered for:

- An upload in chunks brings its `chunk-info` into `<account>/<root hash>`, since
  `RenameDir` moves every name (`putChunksHandle.go:399`, `common.go:146-152`). A day later
  the account's next chunk lets `checkExpiredFiles` remove that directory
  (`putChunksHandle.go:633`), whether or not the file is on the chain by then; the record
  is kept and `storageData` fails for ever. Such homes count towards the limit of ten
  unfinished uploads too (`putChunksHandle.go:620-624`). In `UploadTrack` this is `Expire`, and
  `swept` in `RecordHasData` and `AckedEventuallyOwner` is the exception for it. So is a
  failed `Rename` of the saved file (`putChunksHandle.go:406-408`), which removes the
  directory with the fragments of an earlier upload of the account in it.
- A crash in `RenameDir` leaves the fragments of one upload in two directories. The
  record, which is written afterwards, is not there, so nothing was promised
  (`RecordHasData`, `AckedEventuallyOwner`). A directory of chunks is left without the
  chunks that were marked, or without `chunk-info`: chunks that were answered 200 have to
  be sent again (`emptied` in `ChunkUpload`).
- A crash or failed write in the midst of `chunk-info` leaves a file that every later
  request answers 500, and that never expires (`putChunksHandle.go:181-185, 317`).
- A crash while a duplicate's record is written, after another gateway's order, leaves a
  record that never parses (`putHandle.go:256-274`).
- The order of a PUT may fail for any reason, and the PUT is answered 200
  (`putChunksHandle.go:445-467`). `trackFile()` places it again, and goes on to do so when
  the chain has no room for it (`refused` in `Admission`).

Seen while modelling, and without a run: a batch is logged as transferred though one of
its fragments failed, since the flag `failed` is set per peer and cleared by any
fragment (`tracker.go:308-340`; `BatchSent` in `Transfer`); a peer gets a second batch
when the query for its first one fails, or in a later call before it has reported it
(`tracker.go:284-287`; `Begin`); a download may return an empty or half-written file,
since `fetchFiles` creates it under its final name before it has the data and takes any
file of that name for the finished one (`getHandle.go:382-391`; `StatUser` and
`CreateUser` in `Download`); a cache miss answers 404 and then appends the file
(`getHandle.go:275`, `download_file.go:43`); `openFileHandle` reads the file it has just
moved away (`open_file.go:173-190`); a concurrent download that removes another's
segments ends the process (`getHandle.go:466-468`); the list of GET /restore panics for
an account with more deletions in leveldb than in the file (`getRestore.go:118`);
`syncBlock` loses the first event of an account when its write fails, and every event of
a block whose retrieval fails (`syncBlock.go:119-134`), and replaces the whole list in a
file by one entry when it cannot read it (`syncBlock.go:308-316`), which is why
`CrashLosesNothing` and `RestoreTruthful` are stated for runs without failed calls; two
PUTs of one account in the same second save under one name, and the second removes the
directory the record of the first points into (`putChunksHandle.go:406-417`);
`SetWorkspace` dereferences the result of a failed `Stat` when it creates the directory
(`confile.go:239-246`), and a start by flags leaves `Access` empty, so that every upload
is refused (`common.go:265-282`), unless a configuration file that parsed half way has
left one there (`confile.go:147-189`, `run.go:228-262`); the error of `InitNodeSelector`
is dropped, and the first tracked upload then panics (`run.go:179`); a miner that leaves
the chain's list stays in `storagePeers`, which is why `RightAbout` speaks of listed
miners only; for a minute after a start `GetBalances` is 0 and uploads are refused
(`taskMgt.go:37`).

## 6. Not modelled, and why

Cryptography, erasure coding, HTTP parsing, libp2p and the chain client are libraries:
they appear as steps that succeed or fail. What is decided from the headers alone
(signatures, names of buckets, the length of the cipher) changes no state and rejects a
request before anything happens; it is left out of `Admission`'s `Check`. What ends a
request later (its authorisation, its body, its duplicates) is one step there,
`EarlyReturn`, and told apart in `UploadTrack` and `ChunkUpload`. The expiry of the
rented space, which only a clock can bring about, is left out. A `RemoveAll` either
takes everything or, in `ChunkUpload`, is cut by a crash; in `UploadTrack` it is one
step that succeeds. The bucket variants of delete and get, the metadata query and the
feedback upload are one query, one transaction or one file. Bodies that are no multipart
form are left out of `ChunkUpload`: the handler dereferences a nil header for them.
Range requests and content types are layout; logging and the key-value cache are output
and a library behind a lock. The blacklist of a node is cleared and never filled.
`GetAllPeerId`, `HasPeer`, `BackupPeer`, `LoadPeer`, `GetAllStoragePeerId` and `Run2`
have no caller; `GetPeer` is one lookup, a peer that answers or not in `Download`
(`PeerSends`).

## 7. Plan

Done, in this order: `TrackPool` with its proofs, `UploadTrack` with its proofs,
`Transfer`, `ChunkUpload`, `Download`, `Restore`; then restore, view and uploads in chunks
in `UploadTrack`, `Admission` with its proofs, `Peers` and `Startup` with their proofs; then
the proofs for `Transfer`, `ChunkUpload`, `Download` and `Restore`, the refinement of
`DurableUpload`, and `RecordHasData`.

What is left to prove: what an account is promised while others upload the same file
but none of their orders comes first, as a weaker hypothesis for `ClaimNotForgotten`;
and the safety part of the liveness properties, such as that a download without
faults, alone, answers with the whole file or an error.

What is left to model: the range requests of the download handlers, and the expiry of
the rented space in `Admission`; a `RemoveAll` that is cut short in `UploadTrack`; uploads
in several chunks in `Admission`.
