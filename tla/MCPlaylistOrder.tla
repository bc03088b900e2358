--------------------------- MODULE MCPlaylistOrder ---------------------------
(* An instance of PlaylistOrder for TLC. *)
EXTENDS PlaylistOrder

TwoMembers == <<2, 1>>
OneToCome == <<4>>
OneUndated == [e \in Episodes |-> IF e = 1 THEN 0 ELSE e]

\* Episode 3 is a member of none at first.
OneOfEach == {Insert(<<3>>, 0), Insert(<<3, 1>>, End), Take(<<2>>), Move(1, 0), Move(2, 1),
              Move(2, End), Sort("published"), Sort("added")}
SomeOfThem == {Insert(<<3>>, End), Insert(<<3>>, 0), Take(<<1>>), Move(1, 0)}
=============================================================================
