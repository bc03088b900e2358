----------------------------- MODULE SyncQueue -----------------------------
(***************************************************************************)
(* The native sync engine (crates/sync, crates/mobile-ffi, the cache       *)
(* database of crates/queries): each device keeps a journal of operations  *)
(* it owes the server, a cache of the library and the cursor up to which   *)
(* the cache has followed the change feed.  Draining the journal and       *)
(* pulling changes are many requests long; they run under the queue's      *)
(* gate, while the server and the other devices move on between any two    *)
(* requests.  A request or the process may die at any point.               *)
(***************************************************************************)
EXTENDS Library

CONSTANTS
    Devices,
    Ops,            \* operations, each enqueued once by its host
    OpHome,         \* the device of an operation
    OpKind,         \* its OutboxOp variant
    OpTarget,       \* the episode, podcast or playlist it names
    OpMember,       \* the episode an AddToPlaylist or RemoveFromPlaylist names
    Budget,         \* ATTEMPT_BUDGET
    PageLimit,      \* events in a page of changes
    ListSize,       \* rows in a page of a list
    MaxTries,       \* attempts at a consistent snapshot
    LateRequests,   \* whether a request may reach the server after its sender gave up
    MaxTrouble      \* bound: failures, crashes and wipes

OpKinds == {"SetCursor", "MarkPlayed", "Unsubscribe", "AddToPlaylist", "RemoveFromPlaylist"}

\* Mutant: a 404 completes every operation.
AbsenceOfAnything == OpKinds

\* is_absence_request: a missing target is what these operations ask for.
AbsenceKinds == {"Unsubscribe", "RemoveFromPlaylist"}

TargetsOf(kind) ==
    CASE kind \in {"SetCursor", "MarkPlayed"} -> Episodes
      [] kind = "Unsubscribe" -> Podcasts
      [] OTHER -> Playlists

ASSUME OpAssumption ==
    /\ OpHome \in [Ops -> Devices]
    /\ OpKind \in [Ops -> OpKinds]
    /\ \A o \in Ops : OpTarget[o] \in TargetsOf(OpKind[o])
    /\ OpMember \in [Ops -> Episodes]
ASSUME LimitAssumption ==
    /\ Budget \in Nat \ {0} /\ PageLimit \in Nat \ {0} /\ ListSize \in Nat \ {0}
    /\ MaxTries \in Nat \ {0} /\ LateRequests \in BOOLEAN /\ MaxTrouble \in Nat

VARIABLES
    journal,    \* the outbox table: a set of entries, in id order
    serial,     \* its last AUTOINCREMENT id
    receipts,   \* outbox_import_receipts
    cache,      \* the cached rows
    cursor,     \* sync_metadata.cursor
    pc,         \* what the holder of the gate does
    reply,      \* the answer on its way to a drain
    next,       \* the cursor the running pull will commit
    todo,       \* events of its page still to be resolved
    got,        \* rows it has fetched
    del,        \* rows it has found deleted
    listing,    \* the list and page a snapshot has reached
    tries,      \* attempts at a snapshot
    late,       \* requests on the wire whose sender is gone
    trouble,    \* failures so far
    took,       \* history: operations that reached the library
    moot,       \* history: absence requests whose target was gone
    replaced,   \* history: <<old, new>>, a position save superseded by a later one
    wiped,      \* history: operations dropped by clear_all
    newest      \* history: id of the newest entry of a device that took effect

journalVars == <<journal, serial, receipts>>
pullVars == <<next, todo, got, del, listing, tries>>
ghostVars == <<took, moot, replaced, wiped, newest>>
vars == <<libVars, journalVars, cache, cursor, pc, reply, pullVars, late, trouble, ghostVars>>

Statuses == {"pending", "delivered", "rejected"}

\* A row of outbox: what has used up its attempts is not left pending.
Entry == {e \in [id : Nat, op : Ops, attempts : 0..Budget, status : Statuses] :
             e.status = "pending" => e.attempts < Budget}
Replies == {"none", "ok", "missing", "permanent", "countable", "transient"}
Phases == {"idle", "drain", "sent", "fetch", "list", "check", "rehead", "install"}
Lists == <<Podcasts, Episodes, Playlists>>

Nothing == [r \in Res |-> NoRow]

\* Mutant: entries waiting for a retry are not counted.
PendingUntried(d) == {e \in journal[d] : e.status = "pending" /\ e.attempts = 0}

Pending(d) == {e \in journal[d] : e.status = "pending"}

\* Mutant: retried entries go to the back of the queue.
LeastTried(d) == CHOOSE e \in Pending(d) : \A x \in Pending(d) :
    e.attempts < x.attempts \/ (e.attempts = x.attempts /\ e.id <= x.id)

First(d) == CHOOSE e \in Pending(d) : \A x \in Pending(d) : e.id <= x.id
OpsOf(E) == {e.op : e \in E}

QueueTypeOK ==
    /\ journal \in [Devices -> SUBSET Entry]
    /\ serial \in [Devices -> Nat]
    /\ receipts \in [Devices -> SUBSET Ops]
    /\ cache \in [Devices -> [Res -> Row \cup {NoRow}]]
    /\ cursor \in [Devices -> Cursor \cup {NoCursor}]
    /\ pc \in [Devices -> Phases]
    /\ reply \in [Devices -> Replies]
    /\ next \in [Devices -> Cursor \cup {NoCursor}]
    /\ todo \in [Devices -> SUBSET Event]
    /\ got \in [Devices -> [Res -> Row \cup {NoRow}]]
    /\ del \in [Devices -> SUBSET Res]
    /\ listing \in [Devices -> [list : 1..3, page : Nat]]
    /\ tries \in [Devices -> Nat]
    /\ late \subseteq [id : Nat, op : Ops]
    /\ trouble \in Nat
    /\ took \subseteq Ops /\ moot \subseteq Ops /\ wiped \subseteq Ops
    /\ replaced \subseteq Ops \X Ops
    /\ newest \in [Devices -> Nat]

TypeOK == LibTypeOK /\ QueueTypeOK

Init ==
    /\ LibInit
    /\ journal = [d \in Devices |-> {}]
    /\ serial = [d \in Devices |-> 0]
    /\ receipts = [d \in Devices |-> {}]
    /\ cache = [d \in Devices |-> Nothing]
    /\ cursor = [d \in Devices |-> NoCursor]
    /\ pc = [d \in Devices |-> "idle"]
    /\ reply = [d \in Devices |-> "none"]
    /\ next = [d \in Devices |-> NoCursor]
    /\ todo = [d \in Devices |-> {}]
    /\ got = [d \in Devices |-> Nothing]
    /\ del = [d \in Devices |-> {}]
    /\ listing = [d \in Devices |-> [list |-> 1, page |-> 0]]
    /\ tries = [d \in Devices |-> 0]
    /\ late = {} /\ trouble = 0
    /\ took = {} /\ moot = {} /\ replaced = {} /\ wiped = {}
    /\ newest = [d \in Devices |-> 0]

Trouble == trouble < MaxTrouble /\ trouble' = trouble + 1
GateFree(d) == pc[d] = "idle"

\* Leave the gate: what a pull holds in memory ends with the call.
Release(d) ==
    /\ pc' = [pc EXCEPT ![d] = "idle"]
    /\ next' = [next EXCEPT ![d] = NoCursor]
    /\ todo' = [todo EXCEPT ![d] = {}]
    /\ got' = [got EXCEPT ![d] = Nothing]
    /\ del' = [del EXCEPT ![d] = {}]
    /\ listing' = [listing EXCEPT ![d] = [list |-> 1, page |-> 0]]
    /\ tries' = [tries EXCEPT ![d] = 0]

-----------------------------------------------------------------------------
(* The journal: import_operations, confirm_cached, clear_all, and the cache *)
(* reset that an app with a new cache shape makes when it opens the store.  *)

\* Mutant: a pending MarkPlayed is superseded like a position save.
SupersededAny(d, o) ==
    {e \in Pending(d) : /\ OpKind[o] \in {"SetCursor", "MarkPlayed"}
                        /\ OpKind[e.op] \in {"SetCursor", "MarkPlayed"}
                        /\ OpTarget[e.op] = OpTarget[o]}

\* A pending position save that a new entry for the same episode supersedes.
Superseded(d, o) ==
    {e \in Pending(d) : /\ OpKind[o] \in {"SetCursor", "MarkPlayed"}
                        /\ OpKind[e.op] = "SetCursor"
                        /\ OpTarget[e.op] = OpTarget[o]}

\* A second import of an operation finds its receipt and changes nothing.
Import(d, o) ==
    /\ GateFree(d) /\ OpHome[o] = d /\ o \notin receipts[d]
    /\ receipts' = [receipts EXCEPT ![d] = @ \cup {o}]
    /\ serial' = [serial EXCEPT ![d] = @ + 1]
    /\ journal' = [journal EXCEPT ![d] =
                     (@ \ Superseded(d, o)) \cup
                     {[id |-> serial[d] + 1, op |-> o, attempts |-> 0, status |-> "pending"]}]
    /\ replaced' = replaced \cup {<<old, o>> : old \in OpsOf(Superseded(d, o))}
    /\ UNCHANGED <<libVars, cache, cursor, pc, reply, pullVars, late, trouble,
                   took, moot, wiped, newest>>

DeliveredEntries(d, wanted) ==
    {e \in journal[d] : e.status = "delivered" /\ e.op \in wanted}

\* The host has made these delivered operations part of its own cache.
ConfirmCached(d, wanted) ==
    LET done == DeliveredEntries(d, wanted) IN
    /\ GateFree(d) /\ done # {}
    /\ journal' = [journal EXCEPT ![d] = @ \ done]
    /\ UNCHANGED <<libVars, serial, receipts, cache, cursor, pc, reply, pullVars, late,
                   trouble, ghostVars>>

\* The cache is emptied and the cursor with it: for a host that clears, which waits for the gate, or
\* when a store is opened whose cache has an older layout.
Empty(d) ==
    /\ GateFree(d) /\ Trouble
    /\ cache' = [cache EXCEPT ![d] = Nothing]
    /\ cursor' = [cursor EXCEPT ![d] = NoCursor]
    /\ UNCHANGED <<libVars, serial, receipts, pc, reply, pullVars, late,
                   took, moot, replaced, newest>>

ClearAll(d) ==
    /\ Empty(d)
    /\ journal' = [journal EXCEPT ![d] = {}]
    /\ wiped' = wiped \cup OpsOf(journal[d])

ResetStaleCache(d) ==
    /\ Empty(d) /\ cursor[d] # NoCursor
    /\ UNCHANGED <<journal, wiped>>

-----------------------------------------------------------------------------
(* The drain: pending entries in id order, one request each.               *)

Send(d) ==
    /\ pc[d] \in {"idle", "drain"} /\ Pending(d) # {}
    /\ pc' = [pc EXCEPT ![d] = "sent"]
    /\ UNCHANGED <<libVars, journalVars, cache, cursor, reply, pullVars, late, trouble, ghostVars>>

EndDrain(d) ==
    /\ pc[d] = "drain" /\ Pending(d) = {}
    /\ pc' = [pc EXCEPT ![d] = "idle"]
    /\ UNCHANGED <<libVars, journalVars, cache, cursor, reply, pullVars, late, trouble, ghostVars>>

\* What an operation does to the library when its target is there.
Effect(o) ==
    LET t == OpTarget[o]
        members == IF OpKind[o] = "AddToPlaylist"
                   THEN row[t].refs \cup {e \in {OpMember[o]} : Live(e)}
                   ELSE row[t].refs \ {OpMember[o]}
    IN  \/ OpKind[o] \in {"SetCursor", "MarkPlayed"} /\ SetPlayback(t, FALSE)
        \/ /\ OpKind[o] = "Unsubscribe"
           /\ \E PB \in SUBSET EpisodesOf(t) : DeletePodcast(t, PB)
        \/ /\ OpKind[o] \in {"AddToPlaylist", "RemoveFromPlaylist"}
           /\ IF members = row[t].refs THEN UNCHANGED libVars ELSE SetMembers(t, members)

TakeEffect(d, e) ==
    /\ Effect(e.op)
    /\ took' = took \cup {e.op}
    /\ newest' = [newest EXCEPT ![d] = e.id]

NoEffect == UNCHANGED <<libVars, took, newest>>

\* The handler answers the request: as the target allows, or with a failure of its own.
Serve(d) ==
    LET e == First(d) IN
    /\ pc[d] = "sent" /\ reply[d] = "none"
    /\ \/ /\ Live(OpTarget[e.op]) /\ TakeEffect(d, e)
          /\ reply' = [reply EXCEPT ![d] = "ok"] /\ UNCHANGED trouble
       \/ /\ ~Live(OpTarget[e.op]) /\ NoEffect
          /\ reply' = [reply EXCEPT ![d] = "missing"] /\ UNCHANGED trouble
       \/ /\ \E answer \in {"permanent", "countable", "transient"} :
               reply' = [reply EXCEPT ![d] = answer]
          /\ NoEffect /\ Trouble
       \/ \* The change is committed but the response cannot be decoded.
          /\ Live(OpTarget[e.op]) /\ TakeEffect(d, e)
          /\ reply' = [reply EXCEPT ![d] = "countable"] /\ Trouble
    /\ UNCHANGED <<journalVars, cache, cursor, pc, pullVars, late, moot, replaced, wiped>>

\* Mutant: a missing target is worth another try.
RefusedOnly == {"permanent"}

\* is_permanent_failure: a 404 is a refusal like the other 4xx answers.
PermanentReplies == {"missing", "permanent"}

\* Mutant: one attempt more than the budget.
PastBudget(attempts) == attempts > Budget

\* The attempts an operation is given (ATTEMPT_BUDGET).
Exhausted(attempts) == attempts >= Budget

\* push_entry once the answer is in: save the entry and go on, or stop the drain.
Settle(d) ==
    LET e == First(d)
        attempts == IF reply[d] = "countable" THEN e.attempts + 1 ELSE e.attempts
        absent == reply[d] = "missing" /\ OpKind[e.op] \in AbsenceKinds
        applied == reply[d] = "ok" \/ absent
        rejected == /\ ~applied
                    /\ reply[d] \in PermanentReplies \/ Exhausted(attempts)
        status == IF applied THEN "delivered" ELSE IF rejected THEN "rejected" ELSE "pending"
    IN  /\ pc[d] = "sent" /\ reply[d] # "none"
        /\ journal' = [journal EXCEPT ![d] =
                         (@ \ {e}) \cup {[e EXCEPT !.attempts = attempts, !.status = status]}]
        /\ pc' = [pc EXCEPT ![d] = IF status = "pending" THEN "idle" ELSE "drain"]
        /\ reply' = [reply EXCEPT ![d] = "none"]
        /\ moot' = IF absent THEN moot \cup {e.op} ELSE moot
        /\ UNCHANGED <<libVars, serial, receipts, cache, cursor, pullVars, late, trouble,
                       took, replaced, wiped, newest>>

-----------------------------------------------------------------------------
(* The pull: pull_changes, fetch_changes, fetch_consistent_snapshot.       *)

\* Only the last event for a row matters.
LastEvents(evs) ==
    {ev \in evs : ~\E x \in evs : x.kind = ev.kind /\ x.id = ev.id /\ x.seq > ev.seq}

\* Deferred while anything is pending.
StartPull(d) ==
    /\ GateFree(d) /\ Pending(d) = {}
    /\ \E f \in floor..head :
         /\ ReadChanges(f)
         /\ \/ /\ MustReset(cursor[d], f)
               /\ next' = [next EXCEPT ![d] = HeadCursor]
               /\ todo' = [todo EXCEPT ![d] = {}]
               /\ pc' = [pc EXCEPT ![d] = "list"]
            \/ /\ ~MustReset(cursor[d], f)
               /\ \E n \in cursor[d].seq..head :
                    /\ PageEnds(cursor[d], PageLimit, n)
                    /\ next' = [next EXCEPT ![d] = [epoch |-> epoch, seq |-> n]]
                    /\ todo' = [todo EXCEPT ![d] = LastEvents(UpTo(Since(cursor[d]), n))]
               /\ pc' = [pc EXCEPT ![d] = "fetch"]
    /\ got' = [got EXCEPT ![d] = Nothing]
    /\ del' = [del EXCEPT ![d] = {}]
    /\ listing' = [listing EXCEPT ![d] = [list |-> 1, page |-> 0]]
    /\ tries' = [tries EXCEPT ![d] = 1]
    /\ UNCHANGED <<journalVars, cache, cursor, reply, late, trouble, ghostVars>>

\* A deleted podcast takes its cached episodes with it.
Doomed(d, r) == {r} \cup {e \in Episodes : r \in Podcasts /\ PodcastOf[e] = r /\ cache[d][e] # NoRow}

\* Mutant: a playback's tombstone is believed like any other.
NotDeleted(ev) == ~ev.gone

\* Whether an event is resolved by a request: a playback's tombstone leaves its episode.
Asked(ev) == ~ev.gone \/ ev.kind = "playbacks"

\* Resolve one event to the row as it is now.
Fetch(d) ==
    /\ pc[d] = "fetch"
    /\ \E ev \in todo[d] :
         /\ \A x \in todo[d] : ev.seq <= x.seq
         /\ todo' = [todo EXCEPT ![d] = @ \ {ev}]
         /\ IF Asked(ev) /\ Live(ev.id)
            THEN got' = [got EXCEPT ![d][ev.id] = row[ev.id]] /\ UNCHANGED del
            ELSE del' = [del EXCEPT ![d] = @ \cup Doomed(d, ev.id)] /\ UNCHANGED got
    /\ UNCHANGED <<libVars, journalVars, cache, cursor, pc, reply, next, listing, tries, late,
                   trouble, ghostVars>>

\* A cached playlist that was not fetched loses the episodes found deleted.
Pruned(d, r) ==
    IF r \in Playlists /\ cache[d][r] # NoRow
    THEN [cache[d][r] EXCEPT !.refs = @ \ del[d]]
    ELSE cache[d][r]

\* The cache after the transaction: deletions first, then the fetched rows.
Merged(d) ==
    [r \in Res |-> IF got[d][r] # NoRow THEN got[d][r]
                   ELSE IF r \in del[d] THEN NoRow ELSE Pruned(d, r)]

Commit(d, rows) ==
    /\ Pending(d) = {}
    /\ cache' = [cache EXCEPT ![d] = rows]
    /\ cursor' = [cursor EXCEPT ![d] = next[d]]
    /\ Release(d)
    /\ UNCHANGED <<libVars, journalVars, reply, late, trouble, ghostVars>>

CommitDelta(d) == pc[d] = "fetch" /\ todo[d] = {} /\ Commit(d, Merged(d))

\* How many live rows of a list come before r: lists are ordered by id.
Position(L, r) == Cardinality({x \in L : Live(x) /\ x < r})

\* Mutant: a page of fewer rows than were left is taken for the last.
LastPageEarly(L, page) == Cardinality({r \in L : Live(r)}) <= (page + 2) * ListSize

\* The paginator's count in the answer says whether the page is the last.
LastPage(L, page) == Cardinality({r \in L : Live(r)}) <= (page + 1) * ListSize

\* Request one page of a list.
ListPage(d) ==
    LET at == listing[d]
        L == Lists[at.list]
        page == {r \in L : /\ Live(r)
                           /\ at.page * ListSize <= Position(L, r)
                           /\ Position(L, r) < (at.page + 1) * ListSize}
    IN  /\ pc[d] = "list"
        /\ got' = [got EXCEPT ![d] = [r \in Res |-> IF r \in page THEN row[r] ELSE @[r]]]
        /\ IF ~LastPage(L, at.page)
           THEN /\ listing' = [listing EXCEPT ![d].page = @ + 1] /\ UNCHANGED pc
           ELSE IF at.list < 3
                THEN /\ listing' = [listing EXCEPT ![d] = [list |-> at.list + 1, page |-> 0]]
                     /\ UNCHANGED pc
                ELSE /\ pc' = [pc EXCEPT ![d] = "check"] /\ UNCHANGED listing
        /\ UNCHANGED <<libVars, journalVars, cache, cursor, reply, next, todo, del, tries, late,
                       trouble, ghostVars>>

\* Accept the snapshot only if the feed stayed unchanged since its cursor.
Check(d) ==
    /\ pc[d] = "check"
    /\ \E f \in floor..head :
         /\ ReadChanges(f)
         /\ IF ~MustReset(next[d], f) /\ Since(next[d]) = {}
            THEN /\ next' = [next EXCEPT ![d] = HeadCursor]
                 /\ pc' = [pc EXCEPT ![d] = "install"]
            ELSE pc' = [pc EXCEPT ![d] = "rehead"] /\ UNCHANGED next
    /\ UNCHANGED <<journalVars, cache, cursor, reply, todo, got, del, listing, tries, late,
                   trouble, ghostVars>>

\* Start again from a fresh cursor, or give up until the next pull.
Rehead(d) ==
    /\ pc[d] = "rehead"
    /\ \E f \in floor..head : ReadChanges(f)
    /\ \/ /\ tries[d] < MaxTries
          /\ tries' = [tries EXCEPT ![d] = @ + 1]
          /\ pc' = [pc EXCEPT ![d] = "list"]
          /\ next' = [next EXCEPT ![d] = HeadCursor]
          /\ got' = [got EXCEPT ![d] = Nothing]
          /\ listing' = [listing EXCEPT ![d] = [list |-> 1, page |-> 0]]
          /\ UNCHANGED <<todo, del>>
       \/ tries[d] = MaxTries /\ Release(d)
    /\ UNCHANGED <<journalVars, cache, cursor, reply, late, trouble, ghostVars>>

CommitSnapshot(d) == pc[d] = "install" /\ Commit(d, got[d])

-----------------------------------------------------------------------------
(* Failures.                                                               *)

\* A request fails in transport, or the process dies: what was not saved is lost.
Abort(d) ==
    /\ pc[d] # "idle" /\ Trouble /\ Release(d)
    /\ reply' = [reply EXCEPT ![d] = "none"]
    /\ late' = IF LateRequests /\ pc[d] = "sent" /\ reply[d] = "none"
               THEN late \cup {[id |-> First(d).id, op |-> First(d).op]} ELSE late
    /\ UNCHANGED <<libVars, journalVars, cache, cursor, ghostVars>>

\* A request whose sender gave up reaches the server after all.
ServeLate(req) ==
    /\ late' = late \ {req}
    /\ IF Live(OpTarget[req.op]) THEN TakeEffect(OpHome[req.op], req) ELSE NoEffect
    /\ UNCHANGED <<journalVars, cache, cursor, pc, reply, pullVars, trouble,
                   moot, replaced, wiped>>

Push(d) == Send(d) \/ EndDrain(d) \/ Serve(d) \/ Settle(d)
Pull(d) == \/ StartPull(d) \/ Fetch(d) \/ CommitDelta(d)
           \/ ListPage(d) \/ Check(d) \/ Rehead(d) \/ CommitSnapshot(d)
Host(d) == \/ \E o \in Ops : Import(d, o)
           \/ \E wanted \in SUBSET Ops : ConfirmCached(d, wanted)
           \/ ClearAll(d) \/ ResetStaleCache(d)

Next ==
    \/ Background /\ UNCHANGED <<journalVars, cache, cursor, pc, reply, pullVars, late, trouble,
                                 ghostVars>>
    \/ \E d \in Devices : Push(d) \/ Pull(d) \/ Host(d) \/ Abort(d)
    \/ \E req \in late : ServeLate(req)

Spec == Init /\ [][Next]_vars

\* Hosts call drain and pull on a timer and after every change, the gate passes to the
\* next caller, and a request that does not fail is answered.
Fairness == \A d \in Devices : WF_vars(Push(d)) /\ WF_vars(Pull(d))
FairSpec == Spec /\ Fairness

-----------------------------------------------------------------------------
(* What the engine promises.                                               *)

\* The server can still answer from this cursor.
Follows(cur) == cur # NoCursor /\ cur.epoch = epoch /\ cur.seq >= floor

\* An event after sequence n will make a device look at r again.
Announced(r, n) == \E ev \in feed : ev.id = r /\ ev.seq > n

\* No silent staleness (pull/engine.rs "cache rows and the cursor share one
\* transaction", queries/sync.rs read_changes): wherever a cached row differs from
\* the server's, the feed still holds an event after the device's cursor for it.
NoSilentStaleness ==
    \A d \in Devices : Follows(cursor[d]) =>
        \A r \in Res : cache[d][r] = row[r] \/ Announced(r, cursor[d].seq)

\* What commits is a picture of one moment (pull/snapshot.rs "Offset pagination is
\* accepted only while the actor's change feed stays unchanged"): rows read by offset
\* over several requests, while rows came and went, are accepted only if they are the
\* whole library as it is.
SnapshotExact ==
    [][\A d \in Devices : pc[d] = "check" /\ pc'[d] = "install" => got[d] = row]_vars

\* A pull never replaces what the host wrote ahead of the server (pull/engine.rs
\* Deferred, require_empty_pending): rows and cursor move only once nothing is owed.
LocalFirst ==
    [][\A d \in Devices : cache'[d] # cache[d] /\ cursor'[d] # NoCursor =>
         \A e \in journal[d] : e.status # "pending"]_vars

\* No operation is lost (push.rs push_entry, coalesce.rs): once imported it is in the
\* journal, or reached the library, or asked for an absence that held, or was a position
\* save followed by a later write of the same position, or was wiped with the account.
NoLostOperation ==
    \A d \in Devices : \A o \in receipts[d] :
        \/ o \in took \cup moot \cup wiped
        \/ \E e \in journal[d] : e.op = o /\ e.status \in {"pending", "rejected"}
        \/ /\ OpKind[o] = "SetCursor"
           /\ \E by \in receipts[d] : <<o, by>> \in replaced /\ OpTarget[by] = OpTarget[o]

\* What the host is told was delivered did happen (push.rs complete): it reached the
\* library, or asked for the absence of something that was gone.
HonestReceipts ==
    \A d \in Devices : \A e \in journal[d] :
        e.status = "delivered" =>
            \/ e.op \in took
            \/ OpKind[e.op] \in {"Unsubscribe", "RemoveFromPlaylist"} /\ e.op \in moot

\* Rejected work stays for review (sync-enrich/journal.rs "Keeps rejected work
\* available for review without blocking the pending FIFO"): only a wipe removes it.
RejectedKept ==
    [][\A d \in Devices : \A e \in journal[d] :
         e.status = "rejected" => e \in journal'[d] \/ e.op \in wiped']_vars

\* A device's operations reach the library in the order its host enqueued them, replays
\* included (push_entry stops the drain at a retry): none overtakes or undoes a later one.
InOrder ==
    [][\A d \in Devices :
         newest'[d] # newest[d] => newest'[d] > newest[d]]_vars

\* Every operation is settled, whatever became of those before it (mobile-ffi/sync.rs
\* drain skips rejected and delivered entries).
Settles ==
    \A o \in Ops : o \in OpsOf(Pending(OpHome[o])) ~> o \notin OpsOf(Pending(OpHome[o]))

\* Once the library is quiet every cache becomes equal to it (pull/engine.rs).
Converges == <>[](\A d \in Devices : cache[d] = row)
=============================================================================
