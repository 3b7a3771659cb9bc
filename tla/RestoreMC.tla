------------------------------ MODULE RestoreMC ------------------------------
(* A file deleted in the block of the next upload, one deleted and         *)
(* uploaded again, two events in one block, and a latest block.            *)
EXTENDS Restore

CONSTANTS a, b, c

MCChain ==
  << [user |-> <<a, b>>, deleted |-> <<>>],
     [user |-> <<c>>, deleted |-> <<a>>],
     [user |-> <<a>>, deleted |-> <<b>>],
     [user |-> <<>>, deleted |-> <<>>] >>
=============================================================================
