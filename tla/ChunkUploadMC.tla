--------------------------- MODULE ChunkUploadMC ---------------------------
(* Requests are interchangeable: no property tells one from another.       *)
EXTENDS ChunkUpload, TLC

AnyRequest == Permutations(Requests)
=============================================================================
