--------------------------------- MODULE Outbox ---------------------------------
(***************************************************************************)
(* What an offline client promises of the operations its user queues: each *)
(* is owed until the server has answered it or a newer one has replaced    *)
(* it, and none is answered while an older one is owed.  WebTabs           *)
(* implements it with a journal that several tabs fill and drain.          *)
(***************************************************************************)
EXTENDS Naturals

VARIABLES
    last,       \* operations are numbered as they are queued
    owed,       \* the ones the server has yet to answer
    answered

vars == <<last, owed, answered>>

Init == last = 0 /\ owed = {} /\ answered = {}

\* A new operation may replace older ones.
Queue ==
    /\ last' = last + 1
    /\ \E replaced \in SUBSET owed : owed' = (owed \ replaced) \cup {last + 1}
    /\ UNCHANGED answered

\* The server answers; one that was replaced on its way may still be answered.
Answer(id) ==
    /\ id \in 1..last /\ \A other \in owed : other >= id
    /\ owed' = owed \ {id} /\ answered' = answered \cup {id}
    /\ UNCHANGED last

Next == Queue \/ \E id \in 1..last : Answer(id)

Spec == Init /\ [][Next]_vars
=============================================================================
