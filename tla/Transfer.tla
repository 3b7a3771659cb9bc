------------------------------ MODULE Transfer ------------------------------
(***************************************************************************)
(* storageData(): how trackFile() hands the fragments of one storage order *)
(* to the miners.  The fragments form batches; each batch goes to one peer *)
(* of an iterator that yields every candidate once.  trackFile() calls it  *)
(* again and again with the list of batches the miners have reported to    *)
(* the chain by then, until the order is complete.  The retries of one     *)
(* fragment (ten, then it has failed) are one step.                        *)
(***************************************************************************)
EXTENDS Integers, FiniteSets

CONSTANTS Batches,     \* indices of FragmentHash, DataShards + ParShards
          Segments,    \* number of segments, hence of fragments per batch
          Peers,       \* candidates of the peers iterator
          NoPeer,
          MaxFaults    \* bound on failed connections, transfers and queries

ASSUME SegmentsAssumption == Segments \in Nat \ {0}
ASSUME FaultsAssumption == MaxFaults \in Nat
ASSUME NoPeerAssumption == NoPeer \notin Peers

VARIABLES
  reported,   \* reported[b]: the peer whose miner reported batch b on chain
  holds,      \* <<p, b, j>>: peer p holds fragment j of batch b
  pc,         \* where storageData is; "idle": between two calls
  complete,   \* the call's copy of reported (storageOrder.CompleteList)
  sucPeer,    \* peers the call will not use (any more)
  todo,       \* batches the call has not looked at
  batch,      \* the batch being transferred
  peers,      \* peers the iterator has not yielded
  peer,       \* the peer being tried
  frag,       \* the next fragment to send, 1 .. Segments + 1
  failed,     \* the flag of that name
  logged,     \* <<b, p>>: logged "batch b of fragments is transferred to p"
  faults

call == <<complete, sucPeer, todo, batch, peers, peer, frag, failed>>
vars == <<reported, holds, pc, call, logged, faults>>

Fragments == 1 .. Segments

TypeOK ==
  /\ reported \in [Batches -> Peers \cup {NoPeer}]
  /\ holds \subseteq Peers \X Batches \X Fragments
  /\ pc \in {"idle", "batches", "peers", "send", "sent"}
  /\ complete \in [Batches -> Peers \cup {NoPeer}]
  /\ sucPeer \subseteq Peers /\ peers \subseteq Peers
  /\ todo \subseteq Batches /\ batch \in Batches
  /\ peer \in Peers \cup {NoPeer}
  /\ frag \in 1 .. Segments + 1
  /\ failed \in BOOLEAN
  /\ logged \subseteq Batches \X Peers
  /\ faults \in 0 .. MaxFaults

Init ==
  /\ reported = [b \in Batches |-> NoPeer]
  /\ holds = {} /\ logged = {}
  /\ pc = "idle"
  /\ complete = reported
  /\ sucPeer = {} /\ todo = {} /\ peers = {}
  /\ batch \in Batches /\ peer = NoPeer /\ frag = 1 /\ failed = FALSE
  /\ faults = 0

Fault == faults < MaxFaults /\ faults' = faults + 1
NoFault == UNCHANGED faults

Whole(p, b) == \A j \in Fragments : <<p, b, j>> \in holds
AllReported == \A b \in Batches : reported[b] # NoPeer

-----------------------------------------------------------------------------

(* Mutant: a batch that was logged as transferred is not looked at again.  *)
BeginUnlogged ==
  /\ pc = "idle" /\ ~AllReported
  /\ complete' = reported
  /\ sucPeer' = {reported[b] : b \in Batches} \ {NoPeer}
  /\ todo' = Batches \ {l[1] : l \in logged}
  /\ peers' = Peers
  /\ failed' = FALSE
  /\ pc' = "batches"
  /\ UNCHANGED <<reported, holds, batch, peer, frag, logged, faults>>

(* The call ends at once when there are not enough peers to iterate over.  *)
NoIterator ==
  /\ pc = "idle" /\ ~AllReported
  /\ Fault
  /\ UNCHANGED <<reported, holds, pc, call, logged>>

(* The call: the peers of reported batches are left out, but for those S   *)
(* whose query fails.                                                      *)
Begin ==
  /\ pc = "idle" /\ ~AllReported
  /\ complete' = reported
  /\ LET known == {reported[b] : b \in Batches} \ {NoPeer}
     IN  \E S \in SUBSET known :
           sucPeer' = known \ S /\ IF S = {} THEN NoFault ELSE Fault
  /\ todo' = Batches
  /\ peers' = Peers
  /\ failed' = FALSE
  /\ pc' = "batches"
  /\ UNCHANGED <<reported, holds, batch, peer, frag, logged>>

(* Mutant: batches are not looked up in the list of reported ones.         *)
NextBatchAny ==
  /\ pc = "batches"
  /\ \E b \in todo : todo' = todo \ {b} /\ batch' = b
  /\ pc' = "peers"
  /\ UNCHANGED <<reported, holds, complete, sucPeer, peers, peer, frag, failed,
                 logged, faults>>

(* The next batch of the map dataGroup, in any order; a reported one is    *)
(* passed over.                                                            *)
NextBatch ==
  /\ pc = "batches"
  /\ \E b \in todo :
       /\ todo' = todo \ {b}
       /\ batch' = b
       /\ pc' = IF complete[b] # NoPeer THEN "batches" ELSE "peers"
  /\ UNCHANGED <<reported, holds, complete, sucPeer, peers, peer, frag, failed,
                 logged, faults>>

(* No batch left: the call returns nil, whatever it transferred.           *)
Return ==
  /\ pc = "batches" /\ todo = {}
  /\ pc' = "idle"
  /\ peer' = NoPeer /\ sucPeer' = {} /\ peers' = {}   \* locals are gone
  /\ frag' = 1 /\ failed' = FALSE
  /\ UNCHANGED <<reported, holds, complete, todo, batch, logged, faults>>

(* Mutant: the flag starts clear.                                          *)
NextPeerClear ==
  /\ pc = "peers"
  /\ \E p \in peers :
       /\ peers' = peers \ {p}
       /\ peer' = p
       /\ frag' = 1
       /\ failed' = FALSE
       /\ \/ p \in sucPeer /\ NoFault /\ pc' = "peers"
          \/ p \notin sucPeer /\ NoFault /\ pc' = "send"
          \/ p \notin sucPeer /\ Fault /\ pc' = "peers"
  /\ UNCHANGED <<reported, holds, complete, sucPeer, todo, batch, logged>>

(* The iterator's next peer: one that has a batch is passed over, one that *)
(* cannot be connected is given up; both are used up.                      *)
NextPeer ==
  /\ pc = "peers"
  /\ \E p \in peers :
       /\ peers' = peers \ {p}
       /\ peer' = p
       /\ frag' = 1
       /\ failed' = TRUE
       /\ \/ p \in sucPeer /\ NoFault /\ pc' = "peers"
          \/ p \notin sucPeer /\ NoFault /\ pc' = "send"
          \/ p \notin sucPeer /\ Fault /\ pc' = "peers"
  /\ UNCHANGED <<reported, holds, complete, sucPeer, todo, batch, logged>>

NoPeerLeft ==
  /\ pc = "peers" /\ peers = {}
  /\ pc' = "batches"
  /\ UNCHANGED <<reported, holds, call, logged, faults>>

(* Mutant: the loop over the fragments runs past the last one.             *)
SendFragmentPast ==
  /\ pc = "send"
  /\ holds' = holds \cup {<<peer, batch, frag>>}
  /\ failed' = FALSE
  /\ frag' = frag + 1
  /\ UNCHANGED <<reported, complete, sucPeer, todo, batch, peers, peer, logged,
                 pc, faults>>

(* WriteFileAction, up to ten times.  A success clears the flag, a failure *)
(* leaves it as it is; with the flag set the batch is given up.            *)
SendFragment ==
  /\ pc = "send" /\ frag \in Fragments
  /\ \/ /\ holds' = holds \cup {<<peer, batch, frag>>}
        /\ failed' = FALSE /\ NoFault
     \/ UNCHANGED <<holds, failed>> /\ Fault
  /\ IF failed' THEN pc' = "sent" /\ UNCHANGED frag
                ELSE frag' = frag + 1 /\ UNCHANGED pc
  /\ UNCHANGED <<reported, complete, sucPeer, todo, batch, peers, peer, logged>>

(* After the fragments: next batch if the flag is clear, else next peer.   *)
BatchSent ==
  /\ pc = "sent" \/ (pc = "send" /\ frag > Segments)
  /\ IF failed
     THEN pc' = "peers" /\ UNCHANGED <<sucPeer, logged>>
     ELSE /\ pc' = "batches"
          /\ sucPeer' = sucPeer \cup {peer}
          /\ logged' = logged \cup {<<batch, peer>>}
  /\ UNCHANGED <<reported, holds, complete, todo, batch, peers, peer, frag,
                 failed, faults>>

(* A miner with a whole batch reports it; a miner reports one batch.       *)
MinerReports(p, b) ==
  /\ reported[b] = NoPeer /\ Whole(p, b)
  /\ \A c \in Batches : reported[c] # p
  /\ reported' = [reported EXCEPT ![b] = p]
  /\ UNCHANGED <<holds, pc, call, logged, faults>>

StorageData ==
  \/ NoIterator \/ Begin \/ NextBatch \/ Return
  \/ NextPeer \/ NoPeerLeft \/ SendFragment \/ BatchSent

Next ==
  \/ StorageData
  \/ \E p \in Peers, b \in Batches : MinerReports(p, b)

Spec == Init /\ [][Next]_vars

(* trackFile calls storageData again for as long as the order is pending,  *)
(* and a miner that holds a whole batch reports it.                        *)
FairSpec ==
  Spec /\ WF_vars(StorageData)
       /\ WF_vars(\E p \in Peers, b \in Batches : MinerReports(p, b))

-----------------------------------------------------------------------------
(* Properties                                                              *)

(* What a fragment is sent for: its batch was not known to be stored when   *)
(* the call began, and its peer has no other batch of the file, from this  *)
(* call or, as far as the queries succeeded, from the chain's list.  Two   *)
(* shards on one miner would be lost together.                             *)
SentWhereMissing ==
  [][holds' # holds => complete[batch] = NoPeer /\ peer \notin sucPeer]_vars

(* A peer is skipped or given up on, but a peer that was logged as having  *)
(* a batch did receive its first fragment.                                 *)
LoggedGotFirst == \A l \in logged : <<l[2], l[1], 1>> \in holds

(* With a peer for every batch, the order completes: failed transfers are  *)
(* sent again, to the same or to other peers, by later calls.              *)
OrderCompletes == <>AllReported
=============================================================================
