---------------------------- MODULE MCSyncQueue ----------------------------
(* Instances of SyncQueue for TLC. *)
EXTENDS SyncQueue

\* One podcast (1), its episodes (2, 3) and a playlist (4).
OwnedByOne == [e \in Episodes |-> 1]

CONSTANTS save, again, played, drop, add, remove

OneDevice == [o \in Ops |-> CHOOSE d \in Devices : TRUE]
Kind == [o \in Ops |->
    CASE o \in {save, again} -> "SetCursor"
      [] o = played -> "MarkPlayed"
      [] o = drop -> "Unsubscribe"
      [] o = add -> "AddToPlaylist"
      [] OTHER -> "RemoveFromPlaylist"]
Target == [o \in Ops |->
    CASE o \in {save, again, played} -> 2
      [] o = drop -> 1
      [] OTHER -> 4]
Member == [o \in Ops |-> 2]
=============================================================================
