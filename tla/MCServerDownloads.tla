------------------------- MODULE MCServerDownloads -------------------------
(* Instances of ServerDownloads for TLC: calls are interchangeable. *)
EXTENDS ServerDownloads, TLC
CallSymmetry == Permutations(Calls)
=============================================================================
