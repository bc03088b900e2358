---------------------------- MODULE PlaylistOrder ----------------------------
(***************************************************************************)
(* The episodes of one playlist and their order.  The server keeps a       *)
(* position per member; its handlers read the rows, compute positions from *)
(* what they read, and write them later.  The web client changes its list  *)
(* at once, queues the operation and replays the queue in order, counting  *)
(* on the server to arrive at the same list; what differs it learns from   *)
(* the change feed, which reports that the playlist changed.               *)
(*                                                                         *)
(* One worker is modelled; the journal shared by tabs is WebTabs' subject. *)
(* When rows were added is not kept: sorting by it gives any order.        *)
(***************************************************************************)
EXTENDS Integers, Sequences, FiniteSets, SequencesExt

CONSTANTS
    Members,        \* the playlist's first members, in order
    Others,         \* further episodes
    Batch,          \* episodes a feed is yet to publish, in feed order
    Published,      \* episode -> when it was published, 0 if it does not say
    Known,          \* episodes whose rows the client has loaded
    Ours, Theirs,   \* what this client's user and other clients may ask for
    MaxOps,         \* bound: operations of this client
    MaxForeign,     \* bound: requests of other clients, new and deleted episodes
    MaxTrouble      \* bound: requests given up, episodes passed over, pages fetched

Episodes == ToSet(Members) \cup Others \cup ToSet(Batch)
End == Cardinality(Episodes) + 1   \* appended: no position given, so behind every index

\* What a client can ask for: episodes, an index or End, and for a sort the field; one
\* episode is moved, and "a positioned insert is only ever a single id" (apply.rs:83).
Operation ==
    {op \in [kind : {"add", "remove", "move", "sort"}, ids : Seq(Episodes), at : Int,
             by : {"none", "published", "added"}] :
        op.kind = "move" \/ (op.kind = "add" /\ op.at # End) => Len(op.ids) = 1}

ASSUME OrderAssumption == Episodes \subseteq Nat \ {0} /\ Published \in [Episodes -> Nat]
                       /\ Members \in Seq(Episodes) /\ IsInjective(Members)
                       /\ Batch \in Seq(Episodes) /\ IsFiniteSet(Others)
                       /\ Known \subseteq Episodes /\ Ours \cup Theirs \subseteq Operation
                       /\ MaxOps \in Nat /\ MaxForeign \in Nat /\ MaxTrouble \in Nat

VARIABLES
    position,       \* episode_playlist: member -> position
    alive,          \* episodes that exist
    handling,       \* requester -> its request's handler, while there is one
    due,            \* the feed has a change of the playlist that the client has not pulled
    list,           \* the client's list (episodes_by_playlist)
    outbox,         \* the client's operations, oldest first
    waiting,        \* the client awaits the answer to the first
    rejected,       \* an operation was refused and its playlist is to be read again
    page,           \* a playlist row on its way from the server to the worker
    bounds,         \* operations, foreign writes and troubles so far
    strayed,        \* history: since the client last read it, the list was changed by others, guessed,
                    \* or the server did not take one of its episodes
    missed,         \* history: the list is wrong and the feed has nothing about it: an operation was
                    \* acknowledged without all of its effect, or an old page cached
    overtaken,      \* history: requesters whose reads others have written over
    crossed         \* history: positions computed from an overtaken read, not yet rewritten

serverVars == <<position, alive>>
clientVars == <<list, outbox, waiting, rejected, page>>
histVars == <<strayed, missed, overtaken, crossed>>
vars == <<serverVars, handling, due, clientVars, bounds, histVars>>

Requesters == {"app", "late", "other"}
Insert(ids, at) == [kind |-> "add", ids |-> ids, at |-> at, by |-> "none"]
Take(ids) == [kind |-> "remove", ids |-> ids, at |-> End, by |-> "none"]
Move(e, to) == [kind |-> "move", ids |-> <<e>>, at |-> to, by |-> "none"]
Sort(by) == [kind |-> "sort", ids |-> <<>>, at |-> End, by |-> by]
Without(f, key) == [x \in DOMAIN f \ {key} |-> f[x]]
Joined(f, g) == [x \in DOMAIN f \cup DOMAIN g |-> IF x \in DOMAIN f THEN f[x] ELSE g[x]]
Index(ids, e) == CHOOSE i \in DOMAIN ids : ids[i] = e
Lesser(a, b) == IF a < b THEN a ELSE b
Greater(a, b) == IF a < b THEN b ELSE a
Spend(what, most) == bounds[what] < most /\ bounds' = [bounds EXCEPT ![what] = @ + 1]

-----------------------------------------------------------------------------
(* Sorting (wire-meta order.rs cmp_opt): what has no key goes last, ties by id. *)

Before(key, a, b) ==
    LET ka == key[a]
        kb == key[b]
    IN  \/ ka # 0 /\ (kb = 0 \/ ka < kb)
        \/ ka = kb /\ a < b
Sorted(key, E) == {ids \in SetToSeqs(E) : \A i, j \in DOMAIN ids : i < j => Before(key, ids[i], ids[j])}
SortedBy(key, E) == CHOOSE ids \in Sorted(key, E) : TRUE

-----------------------------------------------------------------------------
(* The client's list.                                                      *)

\* reorder_ids
Reordered(ids, e, to) ==
    LET at == Lesser(Greater(to, 0), Len(ids) - 1)
    IN  IF e \in ToSet(ids) THEN InsertAt(RemoveAt(ids, Index(ids, e)), at + 1, e) ELSE ids

\* add_to_playlist_locally
Added(ids, e, at) ==
    IF e \in ToSet(ids) THEN ids ELSE InsertAt(ids, Lesser(Greater(at, 0), Len(ids)) + 1, e)

\* sort_ids_by: episodes that are not loaded have no key; when one was added to the
\* playlist is not known here, when it was created is.
LocalKey(by) == [e \in Episodes |->
    IF e \notin Known THEN 0 ELSE IF by = "added" THEN e ELSE Published[e]]

\* One episode after another.
AllAdded(op, ids) ==
    LET after[n \in 0..Len(op.ids)] == IF n = 0 THEN ids ELSE Added(after[n - 1], op.ids[n], op.at)
    IN  after[Len(op.ids)]

\* What stays keeps its order.
InTurn(ids, E) == {part \in SetToSeqs(E) :
                     \A i, j \in DOMAIN part : i < j => Index(ids, part[i]) < Index(ids, part[j])}
Left(ids, gone) == CHOOSE part \in InTurn(ids, ToSet(ids) \ gone) : TRUE

\* handle_command: what an operation does to the list at once.
Locally(op, ids) ==
    CASE op.kind = "add" -> AllAdded(op, ids)
      [] op.kind = "remove" -> Left(ids, ToSet(op.ids))
      [] op.kind = "move" -> Reordered(ids, op.ids[1], op.at)
      [] op.kind = "sort" -> SortedBy(LocalKey(op.by), ToSet(ids))

Guessed(op) == op.kind = "sort" /\ (op.by = "added" \/ ~ToSet(list) \subseteq Known)

-----------------------------------------------------------------------------
(* The server.                                                             *)

\* Rows ordered by position: equal positions come in any order.
Listed(pos) == {ids \in SetToSeqs(DOMAIN pos) :
                  \A i, j \in DOMAIN ids : i < j => pos[ids[i]] <= pos[ids[j]]}
Distinct(pos) == \A a, b \in DOMAIN pos : a # b => pos[a] # pos[b]

\* write_positions_in_txn: rows outside the order keep their positions.
Renumber(order) == [e \in DOMAIN position \cup ToSet(order) |->
    IF e \in ToSet(order) THEN Index(order, e) - 1 ELSE position[e]]

\* Mutant: as many as there are members.
FreeByCount(pos) == Cardinality(DOMAIN pos)

\* The position after the last.
Free(pos) == IF DOMAIN pos = {} THEN 0
             ELSE CHOOSE n \in {pos[e] + 1 : e \in DOMAIN pos} : \A e \in DOMAIN pos : pos[e] < n

Lowest(pos) == CHOOSE n \in {pos[e] : e \in DOMAIN pos} : \A e \in DOMAIN pos : n <= pos[e]

\* Mutant: the index counts the episode that moves.
TargetBefore(order, e, to) ==
    LET here == InsertAt(order, (IF to > Len(order) THEN Len(order) ELSE to) + 1, 0)
    IN  [i \in DOMAIN order |-> LET left == SelectSeq(here, LAMBDA x : x # e)
                                IN  IF left[i] = 0 THEN e ELSE left[i]]

\* reordered: the index math of the server's own.
Clamped(to, last) == IF to < 0 THEN 0 ELSE IF to > last THEN last ELSE to
Target(order, e, to) ==
    InsertAt(RemoveAt(order, Index(order, e)), Clamped(to, Len(order) - 1) + 1, e)

Request(op) == [op |-> op, todo |-> op.ids, seen |-> <<>>, free |-> 0, phase |-> "read", reply |-> "none"]
Bulk(op) == op.kind = "remove" \/ (op.kind = "add" /\ op.at = End)

\* The membership changes: triggers log it, and what others have read of it is old.
Wrote(s, pos) ==
    /\ position' = pos /\ due' = TRUE
    /\ strayed' = (strayed \/ s # "app")
    /\ overtaken' = (overtaken \cup {t \in DOMAIN handling : handling[t].phase = "write"}) \ {s}

Done(s, reply) ==
    handling' = IF s = "app" THEN [handling EXCEPT ![s].phase = "done", ![s].reply = reply]
                ELSE Without(handling, s)

\* A bulk handler goes on to its next episode, another is done.
Advance(s, reply) ==
    IF Bulk(handling[s].op) THEN handling' = [handling EXCEPT ![s].todo = Tail(@), ![s].phase = "read"]
    ELSE Done(s, reply)

\* What the handler has read, and the order it is about to write.
Found(s, seen, free) ==
    /\ handling' = [handling EXCEPT ![s].seen = seen, ![s].free = free, ![s].phase = "write"]
    /\ overtaken' = overtaken \ {s}

Reads(s, kind) == s \in DOMAIN handling /\ handling[s].phase = "read" /\ handling[s].op.kind = kind
Writes(s, kinds) == s \in DOMAIN handling /\ handling[s].phase = "write" /\ handling[s].op.kind \in kinds

\* The answer of a bulk request whose episodes are all dealt with.
EndBulk(s) ==
    /\ s \in DOMAIN handling /\ handling[s].phase = "read"
    /\ Bulk(handling[s].op) /\ handling[s].todo = <<>>
    /\ Done(s, "ok")
    /\ UNCHANGED <<serverVars, due, clientVars, bounds, histVars>>

\* authorized_ids, and the loops of store_bulk and delete_bulk: an episode whose podcast the
\* user does not follow, or for which a lookup or a write fails, is passed over and the
\* answer is ok all the same; a single add of such an episode is refused.  What passing over
\* would leave as it is anyway is in the actions below.
PassOver(s) ==
    LET e == Head(handling[s].todo)
        op == handling[s].op
    IN  /\ Reads(s, "add") \/ Reads(s, "remove") \/ (Writes(s, {"add"}) /\ Bulk(op))
        /\ handling[s].todo # <<>> /\ Spend("trouble", MaxTrouble)
        /\ Bulk(op) => (e \in DOMAIN position <=> op.kind = "remove")
        /\ Advance(s, "refused")
        /\ missed' = (missed \/ (s = "app" /\ Bulk(op))) /\ strayed' = (strayed \/ s = "app")
    /\ UNCHANGED <<serverVars, due, clientVars, overtaken, crossed>>

\* store, store_bulk and handle_store up to the rows: a missing episode is refused, or
\* skipped in bulk; a member is left where it is.
ReadAdd(s) ==
    LET e == Head(handling[s].todo)
        op == handling[s].op
    IN  /\ Reads(s, "add") /\ handling[s].todo # <<>>
        /\ \/ /\ e \notin alive
              /\ Advance(s, "refused")
              /\ missed' = (missed \/ (s = "app" /\ Bulk(op))) /\ strayed' = (strayed \/ s = "app")
              /\ UNCHANGED overtaken
           \/ /\ e \in alive \cap DOMAIN position
              /\ Advance(s, "ok")
              /\ UNCHANGED <<missed, strayed, overtaken>>
           \/ /\ e \in alive \ DOMAIN position
              /\ \E order \in Listed(position) :
                    Found(s, Added(order, e, op.at), Free(position))
              /\ UNCHANGED <<missed, strayed>>
    /\ UNCHANGED <<serverVars, due, clientVars, bounds, crossed>>

\* handle_store's insert: one row after the last, or a row and a renumbering in one
\* transaction, which fails when a row it knows is gone.
WriteAdd(s) ==
    LET e == Head(handling[s].todo)
        r == handling[s]
        gone == ~ToSet(r.seen) \subseteq DOMAIN position \cup {e}
    IN  /\ Writes(s, {"add"})
        /\ \/ /\ e \in DOMAIN position \/ e \notin alive \/ (~Bulk(r.op) /\ gone)
              /\ Advance(s, IF e \in DOMAIN position THEN "refused" ELSE "error")
              /\ missed' = (missed \/ (s = "app" /\ Bulk(r.op) /\ e \notin alive))
              /\ strayed' = (strayed \/ s = "app")
              /\ UNCHANGED <<position, due, overtaken, crossed>>
           \/ /\ e \in alive \ DOMAIN position /\ (Bulk(r.op) \/ ~gone)
              /\ Wrote(s, IF Bulk(r.op) THEN Joined(position, [x \in {e} |-> r.free]) ELSE Renumber(r.seen))
              /\ Advance(s, "ok")
              /\ crossed' = IF Bulk(r.op) THEN crossed \/ s \in overtaken ELSE s \in overtaken
              /\ UNCHANGED missed
    /\ UNCHANGED <<alive, clientVars, bounds>>

\* delete_bulk: one episode after another; one that is no member is skipped.
Delete(s) ==
    /\ Reads(s, "remove") /\ handling[s].todo # <<>>
    /\ LET e == Head(handling[s].todo)
       IN  IF e \in DOMAIN position THEN Wrote(s, Without(position, e))
           ELSE UNCHANGED <<position, due, strayed, overtaken>>
    /\ handling' = [handling EXCEPT ![s].todo = Tail(@)]
    /\ UNCHANGED <<alive, clientVars, bounds, missed, crossed>>

\* handle_move up to the rows.
ReadMove(s) ==
    LET e == handling[s].op.ids[1]
    IN  /\ Reads(s, "move")
        /\ \/ e \notin DOMAIN position /\ Done(s, "refused") /\ UNCHANGED overtaken
           \/ /\ e \in DOMAIN position
              /\ \E order \in Listed(position) :
                    LET target == Target(order, e, handling[s].op.at)
                    IN  IF target = order THEN Done(s, "ok") /\ UNCHANGED overtaken
                        ELSE Found(s, target, 0)
    /\ UNCHANGED <<serverVars, due, clientVars, bounds, strayed, missed, crossed>>

\* handle_reorder up to the order.
ReadSort(s) ==
    /\ Reads(s, "sort")
    /\ IF Cardinality(DOMAIN position) < 2 THEN Done(s, "ok") /\ UNCHANGED overtaken
       ELSE \E order \in IF handling[s].op.by = "added" THEN SetToSeqs(DOMAIN position)
                         ELSE Sorted(Published, DOMAIN position) : Found(s, order, 0)
    /\ UNCHANGED <<serverVars, due, clientVars, bounds, strayed, missed, crossed>>

\* rewrite_positions: it fails when a row it knows is gone.
Rewrite(s) ==
    LET order == handling[s].seen
    IN  /\ Writes(s, {"move", "sort"})
        /\ IF ToSet(order) \subseteq DOMAIN position
           THEN Wrote(s, Renumber(order)) /\ Done(s, "ok") /\ crossed' = (s \in overtaken)
           ELSE Done(s, "error") /\ UNCHANGED <<position, due, strayed, overtaken, crossed>>
    /\ UNCHANGED <<alive, clientVars, bounds, missed>>

\* A request of another client.
Foreign(op) ==
    /\ "other" \notin DOMAIN handling /\ Spend("foreign", MaxForeign)
    /\ handling' = Joined(handling, [x \in {"other"} |-> Request(op)])
    /\ UNCHANGED <<serverVars, due, clientVars, histVars>>

\* auto_add_to_playlists: read and written in one transaction, at the end or before the
\* first, where positions may go below zero; or the transaction fails and is not repeated.
Publish(toStart) ==
    LET n == Len(Batch)
        first == IF toStart /\ DOMAIN position # {} THEN Lowest(position) - n ELSE Free(position)
    IN  /\ Batch # <<>> /\ ToSet(Batch) \cap alive = {} /\ Spend("foreign", MaxForeign)
        /\ alive' = alive \cup ToSet(Batch)
        /\ \/ Wrote("feed", Joined(position, [e \in ToSet(Batch) |-> first + Index(Batch, e) - 1]))
           \/ UNCHANGED <<position, due, strayed, overtaken>>
        /\ UNCHANGED <<handling, clientVars, missed, crossed>>

\* delete_episode_dependents: another client deletes an episode.
Vanish(e) ==
    /\ e \in alive /\ Spend("foreign", MaxForeign)
    /\ alive' = alive \ {e}
    /\ IF e \in DOMAIN position THEN Wrote("feed", Without(position, e))
       ELSE UNCHANGED <<position, due, strayed, overtaken>>
    /\ UNCHANGED <<handling, clientVars, missed, crossed>>

-----------------------------------------------------------------------------
(* The client.                                                             *)

\* handle_command: the list changes and the operation is queued.
Command(op) ==
    /\ ~waiting /\ Spend("ops", MaxOps)
    /\ list' = Locally(op, list) /\ outbox' = Append(outbox, op)
    /\ strayed' = (strayed \/ Guessed(op))
    /\ UNCHANGED <<serverVars, handling, due, waiting, rejected, page, missed, overtaken, crossed>>

\* drain_outbox, OutboxOp::apply: the first operation is sent.
Send ==
    /\ ~waiting /\ outbox # <<>> /\ "app" \notin DOMAIN handling
    /\ handling' = Joined(handling, [x \in {"app"} |-> Request(Head(outbox))])
    /\ waiting' = TRUE
    /\ UNCHANGED <<serverVars, due, list, outbox, rejected, page, bounds, histVars>>

\* Mutant: a refused operation leaves the queue and nothing else happens.
RepairsNothing(reply) == FALSE

NeedsRepair(reply) == reply = "refused"

\* push_entry: an operation leaves the queue when it was carried out or refused.
Answer ==
    /\ waiting /\ handling["app"].phase = "done"
    /\ LET reply == handling["app"].reply
       IN  /\ outbox' = IF reply = "error" THEN outbox ELSE Tail(outbox)
           /\ rejected' = (rejected \/ NeedsRepair(reply))
    /\ handling' = Without(handling, "app") /\ waiting' = FALSE
    /\ UNCHANGED <<serverVars, due, list, page, bounds, histVars>>

\* The client gives the request up: its handler has answered, is dropped, or goes on.
Lose ==
    /\ waiting /\ Spend("trouble", MaxTrouble)
    /\ waiting' = FALSE
    /\ \/ /\ handling' = Without(handling, "app") /\ overtaken' = overtaken \ {"app"}
       \/ /\ handling["app"].phase # "done" /\ "late" \notin DOMAIN handling
          /\ handling' = Joined(Without(handling, "app"), [x \in {"late"} |-> handling["app"]])
          /\ overtaken' = IF "app" \in overtaken THEN (overtaken \ {"app"}) \cup {"late"} ELSE overtaken
    /\ UNCHANGED <<serverVars, due, list, outbox, rejected, page, strayed, missed, crossed>>

Shows(ids) ==
    /\ list' = ids
    /\ strayed' = ~(ids \in Listed(position) /\ Distinct(position))
    /\ missed' = (ids \notin Listed(position))

\* do_pull, apply_server_changes: only with nothing queued.
Pull ==
    /\ ~waiting /\ outbox = <<>> /\ due
    /\ \E ids \in Listed(position) : Shows(ids)
    /\ due' = FALSE
    /\ UNCHANGED <<serverVars, handling, outbox, waiting, rejected, page, bounds, overtaken, crossed>>

\* repair_rejections, once nothing is queued.
Repair ==
    /\ ~waiting /\ outbox = <<>> /\ rejected
    /\ \E ids \in Listed(position) : Shows(ids)
    /\ rejected' = FALSE
    /\ UNCHANGED <<serverVars, handling, due, outbox, waiting, page, bounds, overtaken, crossed>>

\* A view fetches the playlist.
Fetch ==
    /\ page = {} /\ Spend("trouble", MaxTrouble)
    /\ \E ids \in Listed(position) : page' = {ids}
    /\ UNCHANGED <<serverVars, handling, due, list, outbox, waiting, rejected, histVars>>

\* cache_playlists: membership operations in the journal.
MembershipPending == outbox # <<>>

\* cache_playlists: a row that was fetched replaces the list unless operations are queued.
Cache ==
    /\ ~waiting /\ page # {}
    /\ IF MembershipPending THEN UNCHANGED <<list, strayed, missed>>
       ELSE \E ids \in page : Shows(ids)
    /\ page' = {}
    /\ UNCHANGED <<serverVars, handling, due, outbox, waiting, rejected, bounds, overtaken, crossed>>

-----------------------------------------------------------------------------
Init ==
    /\ position = [e \in ToSet(Members) |-> Index(Members, e) - 1]
    /\ alive = Episodes \ ToSet(Batch)
    /\ handling = <<>> /\ due = FALSE
    /\ list = Members /\ outbox = <<>> /\ waiting = FALSE /\ rejected = FALSE /\ page = {}
    /\ bounds = [ops |-> 0, foreign |-> 0, trouble |-> 0]
    /\ strayed = FALSE /\ missed = FALSE /\ overtaken = {} /\ crossed = FALSE

Handle(s) ==
    \/ EndBulk(s) \/ PassOver(s) \/ ReadAdd(s) \/ WriteAdd(s) \/ Delete(s)
    \/ ReadMove(s) \/ ReadSort(s) \/ Rewrite(s)

Next ==
    \/ \E s \in Requesters : Handle(s)
    \/ \E op \in Ours : Command(op)
    \/ \E op \in Theirs : Foreign(op)
    \/ \E toStart \in BOOLEAN : Publish(toStart)
    \/ \E e \in Episodes : Vanish(e)
    \/ Send \/ Answer \/ Lose \/ Pull \/ Repair \/ Fetch \/ Cache

Fairness == /\ \A s \in Requesters : WF_vars(Handle(s))
            /\ WF_vars(Send) /\ WF_vars(Answer) /\ WF_vars(Pull) /\ WF_vars(Repair)

Spec == Init /\ [][Next]_vars
FairSpec == Spec /\ Fairness

-----------------------------------------------------------------------------
\* The client's operations carried out on a list, oldest first.
Replayed(ids) ==
    LET after[n \in 0..Len(outbox)] == IF n = 0 THEN ids ELSE Locally(outbox[n], after[n - 1])
    IN  after[Len(outbox)]

\* "must match the server's, so a FIFO outbox replay reproduces the optimistic order"
\* (reorder.rs:3): what the server has, with the queue replayed, is what the client
\* shows, at every step of every handler and after lost answers; unless since the list was
\* read others changed the playlist, the server refused or passed over an episode, or the
\* client sorted by what it does not know.
Replays == ~strayed => \A ids \in Listed(position) : Replayed(ids) = list

\* Positions order the members: no two are equal, whatever holes deletions leave, unless
\* a handler wrote what it had computed from rows that others changed meanwhile, and
\* until the next rewriting heals it (manager.rs auto_add_to_playlists "self-heals").
Numbered == ~crossed => Distinct(position)

\* "survives offline until the next pull reconciles it" (data_ops.rs persist_playlist):
\* in the end the client shows the server's order, unless an episode it added or removed was
\* passed over with an answer that says ok, or it cached an old page, and the feed has had
\* nothing about the playlist since.
Reconciles == <>[](missed \/ list \in Listed(position))
=============================================================================
