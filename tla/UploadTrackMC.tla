---------------------------- MODULE UploadTrackMC ----------------------------
(* Small worlds for UploadTrack: who sends which request, and when.        *)
EXTENDS UploadTrack

CONSTANTS u1, u2, p1, p2, d1, r1, v1

(* Two accounts upload the same file; the first also deletes or restores   *)
(* it.                                                                     *)
TwoAccounts == [r \in Requests |-> IF r = p2 THEN u2 ELSE u1]
(* All requests come from one account.                                     *)
OneAccount == [r \in Requests |-> u1]

DistinctSeconds ==
  [r \in Requests |-> CASE r = p1 -> "1" [] r = p2 -> "2" [] OTHER -> "3"]
=============================================================================
