----------------------------- MODULE TrackPoolMC -----------------------------
(* Three names and a pool of two: the pool fills, and a name is left out.  *)
EXTENDS TrackPool

MCFiles == 1 .. 3
=============================================================================
