----------------------------- MODULE MCWebTabs -----------------------------
(* Instances of WebTabs for TLC. *)
EXTENDS WebTabs, TLC
TabSymmetry == Permutations(Tabs)

\* An account with an episode or with a podcast: two troubles without another client's write,
\* or one with one.
MCInit ==
    /\ Init /\ Cardinality({row \in Rows : server[row] # 0}) = 1
    /\ \/ head = MaxHead /\ trouble = 0
       \/ head = 1 /\ trouble = MaxTrouble - 1
MCSpec == MCInit /\ [][Next]_vars
=============================================================================
