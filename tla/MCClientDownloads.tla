-------------------------- MODULE MCClientDownloads --------------------------
(* Instances of ClientDownloads for TLC. *)
EXTENDS ClientDownloads, TLC
Symmetric == Permutations(Tasks) \cup Permutations(Tabs)
Shrinking == <<3, 2>>
=============================================================================
