------------------------------- MODULE WebTabs -------------------------------
(***************************************************************************)
(* Tabs of the web client that share one IndexedDB store.  Every tab has a *)
(* worker of its own (webui/sync-engine): it hydrates a pool from the      *)
(* store, handles one command at a time, drains the shared journal under a *)
(* Web Lock after each, pulls when its timer fires, and writes pages that  *)
(* detached tasks and views fetched.                                       *)
(*                                                                         *)
(* A row's value is what wrote it last: an operation's id, or minus the    *)
(* feed position for the server's other clients; 0 is no row.  What a pull *)
(* does between reading its cursor and committing is SyncQueue's subject   *)
(* and one step here, and so are attempt budgets: a failed request is      *)
(* retried or refused.  An operation's request is handled before its tab   *)
(* is gone, or never.  Web Locks are supported.                            *)
(***************************************************************************)
EXTENDS Integers, FiniteSets

CONSTANTS
    Tabs,
    Episodes,       \* rows that "cursor" and "mark" operations write (SetCursor, MarkPlayed)
    Podcasts,       \* rows that "subscribe" and "unsubscribe" operations write
    NoTab,
    MaxOps,         \* bound: operations queued
    MaxHead,        \* bound: feed position up to which other clients write
    MaxTrouble      \* bound: failed requests, reloads, local removals and pages

ASSUME WebAssumption == Episodes \cap Podcasts = {} /\ NoTab \notin Tabs
                     /\ MaxOps \in Nat /\ MaxHead \in Nat /\ MaxTrouble \in Nat

VARIABLES
    server,     \* row -> its value on the server
    changed,    \* row -> feed position of its last change
    head,       \* the feed's last position
    rows,       \* the shared store: row -> value
    cursor,     \* the shared store: the position pulled to
    journal,    \* the shared store: id -> operation
    lastId,     \* the journal's key generator
    pool,       \* tab -> row -> value in the worker's memory
    unsubscribed, \* tab -> tombstones of podcasts unsubscribed in this session
    repaired,   \* tab -> rejected operations whose rows it has repaired
    worker,     \* tab -> what its worker is doing
    page,       \* tab -> a row on its way from the server to the worker
    lock,       \* holder of the drain lock
    trouble,
    superseded, \* history: operations a newer save dropped from the journal
    landed,     \* history: operations the server has answered for good
    crossed,    \* history: rows written unchecked from a read older than the last pull
    removed,    \* history: rows removed locally and not brought back
    author      \* history: operation -> the tab that queued it, NoTab when it lost what it showed:
                \* it was reloaded, or removed the row

serverVars == <<server, changed, head>>
storeVars == <<rows, cursor, journal, lastId>>
tabVars == <<pool, unsubscribed, repaired, worker, page, lock>>
histVars == <<superseded, landed, crossed, removed, author>>
vars == <<serverVars, storeVars, tabVars, trouble, histVars>>

Rows == Episodes \cup Podcasts
Kinds(row) == IF row \in Episodes THEN {"cursor", "mark"} ELSE {"subscribe", "unsubscribe"}
Effect(id, kind) == IF kind = "unsubscribe" THEN 0 ELSE id

Idle == [pc |-> "idle", work |-> {}, outcome |-> "none", need |-> FALSE, due |-> FALSE,
         got |-> <<>>, seen |-> 0, next |-> 0, id |-> 0]
Phases == {"idle", "drain", "push", "settle", "created", "repair", "fix", "end",
           "pull", "commit", "merge"}

Pending == {id \in DOMAIN journal : ~journal[id].rejected}
Queued(row) == {id \in Pending : journal[id].row = row}
Without(ids) == [id \in DOMAIN journal \ ids |-> journal[id]]
With(j, id, entry) == [x \in DOMAIN j \cup {id} |-> IF x = id THEN entry ELSE j[x]]
Over(values, got) == [row \in Rows |-> IF row \in DOMAIN got THEN got[row] ELSE values[row]]
Only(row, value) == [r \in {row} |-> value]
Become(t, new) == worker' = [worker EXCEPT ![t] = new]
GoTo(t, pc) == worker' = [worker EXCEPT ![t].pc = pc]
Trouble == trouble < MaxTrouble /\ trouble' = trouble + 1
Ids == 1..lastId

TypeOK ==
    /\ \A row \in Rows : server[row] \in (-head)..lastId /\ rows[row] \in (-head)..lastId
                         /\ changed[row] \in 0..head
    /\ cursor \in 0..head /\ DOMAIN journal \subseteq Ids
    /\ \A id \in DOMAIN journal : journal[id].row \in Rows /\ journal[id].kind \in Kinds(journal[id].row)
    /\ \A t \in Tabs : /\ worker[t].pc \in Phases /\ unsubscribed[t] \subseteq Podcasts
                       /\ repaired[t] \subseteq Ids
                       /\ worker[t].pc \in {"push", "settle"} => worker[t].work # {} /\ lock = t
                       /\ worker[t].pc \in {"created", "repair", "fix", "end"} => lock = t
    /\ lock \in Tabs \cup {NoTab} /\ trouble \in 0..MaxTrouble
    /\ author \in [1..MaxOps -> Tabs \cup {NoTab}]
    /\ superseded \cup landed \subseteq Ids /\ crossed \cup removed \subseteq Rows

\* The rows an account has: tabs open on a store that has pulled them.
Init ==
    /\ head \in 1..MaxHead /\ changed \in [Rows -> {0, 1}]
    /\ server = [row \in Rows |-> -changed[row]]
    /\ rows = server /\ cursor = head /\ journal = <<>> /\ lastId = 0
    /\ pool = [t \in Tabs |-> rows]
    /\ unsubscribed = [t \in Tabs |-> {}] /\ repaired = [t \in Tabs |-> {}]
    /\ worker = [t \in Tabs |-> Idle] /\ page = [t \in Tabs |-> <<>>] /\ lock = NoTab
    /\ trouble \in 0..MaxTrouble
    /\ superseded = {} /\ landed = {} /\ crossed = {} /\ removed = {} /\ author = [id \in 1..MaxOps |-> NoTab]

-----------------------------------------------------------------------------
(* The server.                                                             *)

Write(row, value) ==
    IF server[row] = value THEN UNCHANGED serverVars
    ELSE /\ head' = head + 1
         /\ server' = [server EXCEPT ![row] = value]
         /\ changed' = [changed EXCEPT ![row] = head + 1]

\* Another client of the account writes, subscribes or deletes.
Remote(row) ==
    /\ head < MaxHead
    /\ \/ Write(row, -(head + 1))
       \/ Write(row, 0)
    /\ UNCHANGED <<storeVars, tabVars, trouble, histVars>>

-----------------------------------------------------------------------------
(* Commands.                                                               *)

\* coalesce_pending_cursor
Superseded(row, kind) ==
    IF kind \in {"cursor", "mark"} THEN {id \in Queued(row) : journal[id].kind = "cursor"} ELSE {}

\* handle_command: the optimistic row and its operation commit together.
Command(t, row, kind) ==
    LET id == lastId + 1
        value == Effect(id, kind)
        old == Superseded(row, kind)
    IN  /\ worker[t].pc = "idle" /\ lastId < MaxOps /\ kind \in Kinds(row)
        /\ (kind = "subscribe") <=> pool[t][row] = 0
        /\ lastId' = id
        /\ journal' = With(Without(old), id, [row |-> row, kind |-> kind, rejected |-> FALSE])
        /\ superseded' = superseded \cup old
        /\ IF kind = "subscribe" THEN UNCHANGED <<rows, pool>>
           ELSE rows' = [rows EXCEPT ![row] = value] /\ pool' = [pool EXCEPT ![t][row] = value]
        /\ unsubscribed' = CASE kind = "unsubscribe" -> [unsubscribed EXCEPT ![t] = @ \cup {row}]
                             [] kind = "subscribe" -> [unsubscribed EXCEPT ![t] = {}]
                             [] OTHER -> unsubscribed
        /\ author' = [author EXCEPT ![id] = t]
        /\ GoTo(t, "drain")
        /\ UNCHANGED <<serverVars, cursor, repaired, page, lock, trouble, landed, crossed, removed>>

\* The timer, RefreshNow and a reconnect: drain, then pull.
Tick(t) ==
    /\ worker[t].pc = "idle"
    /\ Become(t, [Idle EXCEPT !.pc = "drain", !.due = TRUE])
    /\ UNCHANGED <<serverVars, storeVars, pool, unsubscribed, repaired, page, lock, trouble, histVars>>

\* remove_local_episode_data, remove_local_podcast_data
RemoveLocal(t, row) ==
    /\ worker[t].pc = "idle" /\ pool[t][row] # 0 /\ Trouble
    /\ rows' = [rows EXCEPT ![row] = 0] /\ pool' = [pool EXCEPT ![t][row] = 0]
    /\ removed' = removed \cup {row}
    /\ author' = [id \in DOMAIN author |-> IF author[id] = t /\ id \in Queued(row) THEN NoTab ELSE author[id]]
    /\ GoTo(t, "drain")
    /\ UNCHANGED <<serverVars, cursor, journal, lastId, unsubscribed, repaired, page, lock,
                   superseded, landed, crossed>>

\* The tab is reloaded, or its worker is replaced: everything but the store is lost.
Reload(t) ==
    /\ Trouble
    /\ pool' = [pool EXCEPT ![t] = rows]
    /\ unsubscribed' = [unsubscribed EXCEPT ![t] = {}] /\ repaired' = [repaired EXCEPT ![t] = {}]
    /\ Become(t, Idle) /\ page' = [page EXCEPT ![t] = <<>>]
    /\ lock' = IF lock = t THEN NoTab ELSE lock
    /\ author' = [id \in DOMAIN author |-> IF author[id] = t THEN NoTab ELSE author[id]]
    /\ UNCHANGED <<serverVars, storeVars, superseded, landed, crossed, removed>>

-----------------------------------------------------------------------------
(* drain_outbox.                                                           *)

\* Mutant: the drain goes on without the lock.
Unlocked(t) == TRUE

\* A tab waits for the drain lock until it is free.
MayDrain(t) == lock = NoTab

\* The entries are read under the lock; a tab that has seen the first of them fail (head_retry)
\* passes some drains over.
Drain(t) ==
    /\ worker[t].pc = "drain" /\ MayDrain(t)
    /\ lock' = t
    /\ \/ Become(t, [worker[t] EXCEPT
              !.pc = IF Pending = {} THEN "repair" ELSE "push",
              !.work = {[id |-> id, row |-> journal[id].row, kind |-> journal[id].kind] : id \in Pending}])
       \/ Pending # {} /\ GoTo(t, "end")
    /\ UNCHANGED <<serverVars, storeVars, pool, unsubscribed, repaired, page, trouble, histVars>>

\* Mutant: the entries are sent in any order.
AnyOf(work) == work

\* The entries are sent in the order of their ids.
Foremost(work) == {op \in work : \A x \in work : op.id <= x.id}

Answered(t, op, outcome) == worker' = [worker EXCEPT ![t].pc = "settle", ![t].outcome = outcome, ![t].id = op.id]

\* OutboxOp::apply.  A write to an episode that is gone is refused; unsubscribing twice is not.
Push(t) ==
    /\ worker[t].pc = "push"
    /\ \E op \in Foremost(worker[t].work) :
       \/ /\ op.row \in Podcasts \/ server[op.row] # 0
          /\ Write(op.row, Effect(op.id, op.kind)) /\ landed' = landed \cup {op.id}
          /\ \/ Answered(t, op, "ok") /\ UNCHANGED trouble
             \/ Trouble /\ Answered(t, op, "retry")
       \/ /\ op.row \in Episodes /\ server[op.row] = 0
          /\ Answered(t, op, "rejected") /\ UNCHANGED <<serverVars, trouble>> /\ landed' = landed \cup {op.id}
       \/ /\ Trouble /\ Answered(t, op, "retry") /\ UNCHANGED <<serverVars, landed>>
       \/ /\ Trouble /\ Answered(t, op, "rejected") /\ UNCHANGED serverVars /\ landed' = landed \cup {op.id}
    /\ UNCHANGED <<storeVars, pool, unsubscribed, repaired, page, lock, superseded, crossed, removed, author>>

\* Mutant: a failed request acknowledges its operation.
AckFailed(outcome) == outcome # "rejected"

\* Mutant: a rejected operation is acknowledged.
AckRejected(outcome) == outcome # "retry"

\* Only an applied operation leaves the journal.
Done(outcome) == outcome = "ok"

\* push_entry's own writes: ack, or save the entry, which inserts it when it is missing.
Settle(t) ==
    LET w == worker[t]
        rest == IF w.outcome = "retry" THEN {} ELSE {op \in w.work : op.id # w.id}
    IN  \E op \in w.work :
        /\ w.pc = "settle" /\ op.id = w.id
        /\ journal' = IF Done(w.outcome) THEN Without({op.id})
                      ELSE With(journal, op.id, [row |-> op.row, kind |-> op.kind,
                                                 rejected |-> w.outcome = "rejected"])
        /\ Become(t, [w EXCEPT
             !.pc = IF rest = {} THEN "created" ELSE "push", !.work = rest, !.outcome = "none", !.id = 0,
             !.need = @ \/ (w.outcome = "ok" /\ op.row \in Podcasts),
             !.got = IF w.outcome = "ok" /\ op.kind = "subscribe"
                     THEN [r \in DOMAIN @ \cup {op.row} |-> IF r = op.row THEN op.id ELSE @[r]] ELSE @,
             !.seen = IF w.outcome = "ok" /\ op.kind = "subscribe" THEN cursor ELSE @])
        /\ UNCHANGED <<serverVars, rows, cursor, lastId, pool, unsubscribed, repaired, page, lock,
                       trouble, histVars>>

\* Mutant: tombstones are not looked at.
AnyRow(t, got) == got

\* cache_podcasts leaves out what was unsubscribed in this session.
Admitted(t, got) == [r \in DOMAIN got \ unsubscribed[t] |-> got[r]]

\* Rows written to the store and the pool without looking at the cursor.
Unchecked(t, got, seen) ==
    /\ rows' = Over(rows, got) /\ pool' = [pool EXCEPT ![t] = Over(@, got)]
    /\ removed' = removed \ DOMAIN got
    /\ crossed' = IF seen = cursor THEN crossed ELSE crossed \cup DOMAIN got

\* The podcasts the drain subscribed to.
Created(t) ==
    /\ worker[t].pc = "created"
    /\ Unchecked(t, Admitted(t, worker[t].got), worker[t].seen)
    /\ Become(t, [worker[t] EXCEPT !.pc = "repair", !.got = <<>>, !.seen = 0])
    /\ UNCHANGED <<serverVars, cursor, journal, lastId, unsubscribed, repaired, page, lock, trouble,
                   superseded, landed, author>>

\* What repair_operation reads again: nothing for a subscription.
Suspect(entry) == {entry.row} \ {row \in Podcasts : entry.kind = "subscribe"}

\* repair_rejections: the row of a rejected operation is read again ...  None is when the last
\* repair is not half a minute ago, and those whose request fails are left for later.
Repair(t) ==
    LET rejected == {id \in DOMAIN journal : journal[id].rejected} \ repaired[t] IN
    /\ worker[t].pc = "repair"
    /\ \/ /\ Pending = {}
          /\ \E id \in rejected :
               Become(t, [worker[t] EXCEPT !.pc = "fix", !.id = id, !.seen = cursor,
                            !.got = [row \in Suspect(journal[id]) |-> server[row]]])
       \/ GoTo(t, "end")
    /\ UNCHANGED <<serverVars, storeVars, pool, unsubscribed, repaired, page, lock, trouble, histVars>>

\* ... and committed.
Fix(t) ==
    LET got == worker[t].got IN
    /\ worker[t].pc = "fix"
    /\ Unchecked(t, got, worker[t].seen)
    /\ unsubscribed' = [unsubscribed EXCEPT ![t] = @ \ {r \in DOMAIN got : got[r] # 0}]
    /\ repaired' = [repaired EXCEPT ![t] = @ \cup {worker[t].id}]
    /\ Become(t, [worker[t] EXCEPT !.pc = "repair", !.got = <<>>, !.seen = 0, !.id = 0])
    /\ UNCHANGED <<serverVars, cursor, journal, lastId, page, lock, trouble, superseded, landed,
                   author>>

\* A subscription changed: pull before the lock is released.
EndDrain(t) ==
    /\ worker[t].pc = "end"
    /\ IF worker[t].need THEN GoTo(t, "pull") /\ UNCHANGED lock
       ELSE /\ lock' = NoTab
            /\ Become(t, IF worker[t].due THEN [Idle EXCEPT !.pc = "pull"] ELSE Idle)
    /\ UNCHANGED <<serverVars, storeVars, pool, unsubscribed, repaired, page, trouble, histVars>>

-----------------------------------------------------------------------------
(* do_pull.                                                                *)

EndPull(t) ==
    /\ lock' = IF lock = t THEN NoTab ELSE lock
    /\ Become(t, IF lock = t /\ worker[t].due THEN [Idle EXCEPT !.pc = "pull"] ELSE Idle)

\* Deferred while operations are pending; the request may fail.
Pull(t) ==
    /\ worker[t].pc = "pull"
    /\ \/ /\ Pending = {}
          /\ Become(t, [worker[t] EXCEPT !.pc = "commit", !.seen = cursor, !.next = head,
                          !.got = [r \in {x \in Rows : changed[x] > cursor} |-> server[r]]])
          /\ UNCHANGED <<lock, trouble>>
       \/ Pending # {} /\ EndPull(t) /\ UNCHANGED trouble
       \/ Trouble /\ EndPull(t)
    /\ UNCHANGED <<serverVars, storeVars, pool, unsubscribed, repaired, page, histVars>>

\* commit_changes: nothing queued meanwhile, and no other tab has pulled.
MayCommit(seen) == Pending = {} /\ cursor = seen

\* The pool takes what was committed (apply_server_changes).
Commit(t) ==
    LET w == worker[t] IN
    /\ w.pc = "commit"
    /\ IF MayCommit(w.seen)
       THEN /\ rows' = Over(rows, w.got) /\ cursor' = w.next
            /\ pool' = [pool EXCEPT ![t] = Over(@, w.got)]
            /\ unsubscribed' = [unsubscribed EXCEPT ![t] = @ \ {r \in DOMAIN w.got : w.got[r] # 0}]
            /\ crossed' = crossed \ DOMAIN w.got /\ removed' = removed \ DOMAIN w.got
       ELSE UNCHANGED <<rows, cursor, pool, unsubscribed, crossed, removed>>
    /\ EndPull(t)
    /\ UNCHANGED <<serverVars, journal, lastId, repaired, page, trouble, superseded, landed,
                   author>>

-----------------------------------------------------------------------------
(* Pages: lists, history and detached fetches.                             *)

FetchPage(t, row) ==
    /\ page[t] = <<>> /\ server[row] # 0 /\ Trouble
    /\ page' = [page EXCEPT ![t] = <<[row |-> row, value |-> server[row], seen |-> cursor]>>]
    /\ UNCHANGED <<serverVars, storeVars, pool, unsubscribed, repaired, worker, lock, histVars>>

\* Mutant: queued operations are not looked at.
AsFetched(t, p) == p.value

\* cache_episodes, merge_history_page: while an operation on it is queued, a row the pool has is
\* authoritative.
Kept(t, p) ==
    IF p.row \in Episodes /\ Queued(p.row) # {} /\ pool[t][p.row] # 0 THEN pool[t][p.row] ELSE p.value

MergePage(t) ==
    LET p == page[t][1] IN
    /\ worker[t].pc = "idle" /\ page[t] # <<>>
    /\ Become(t, [Idle EXCEPT !.pc = "merge", !.seen = p.seen,
                    !.got = Admitted(t, Only(p.row, Kept(t, p)))])
    /\ page' = [page EXCEPT ![t] = <<>>]
    /\ UNCHANGED <<serverVars, storeVars, pool, unsubscribed, repaired, lock, trouble, histVars>>

\* The write is another transaction.
WritePage(t) ==
    /\ worker[t].pc = "merge"
    /\ Unchecked(t, worker[t].got, worker[t].seen)
    /\ Become(t, [Idle EXCEPT !.pc = "drain"])
    /\ UNCHANGED <<serverVars, cursor, journal, lastId, unsubscribed, repaired, page, lock, trouble,
                   superseded, landed, author>>

Work(t) ==
    \/ Drain(t) \/ Push(t) \/ Settle(t) \/ Created(t) \/ Repair(t) \/ Fix(t) \/ EndDrain(t)
    \/ Pull(t) \/ Commit(t) \/ WritePage(t)

Next ==
    \/ \E row \in Rows : Remote(row)
    \/ \E t \in Tabs :
         \/ Work(t) \/ Tick(t) \/ Reload(t) \/ MergePage(t)
         \/ \E row \in Rows : \/ RemoveLocal(t, row) \/ FetchPage(t, row)
                              \/ \E kind \in Kinds(row) : Command(t, row, kind)

Spec == Init /\ [][Next]_vars

-----------------------------------------------------------------------------
(* What the tabs promise.                                                  *)

\* The shared store is never silently stale: a row that differs from the server's has a change
\* to come, an operation on it queued or not yet repaired (none of which is a subscription: it
\* writes nothing ahead of its answer, and is not repaired), was removed locally, or was written by
\* a page or a repair that crossed a pull.
StoreFresh ==
    \A row \in Rows :
        \/ rows[row] = server[row] \/ changed[row] > cursor \/ row \in crossed \cup removed
        \/ \E id \in DOMAIN journal : row \in Suspect(journal[id])
                                      /\ (journal[id].rejected => \E t \in Tabs : id \notin repaired[t])

\* A row unsubscribed in this session is not resurrected by a late page, a subscription's answer
\* or a repair (data_ops.rs cache_podcasts).
TombstonesHold == \A t \in Tabs : \A row \in unsubscribed[t] : pool[t][row] = 0

\* An operation leaves the journal only when the server has answered it or a newer save has
\* replaced it, whichever tab drains.
NoLostOperation == \A id \in Ids : id \in DOMAIN journal \cup landed \cup superseded

\* What a tab queued for an episode, it shows until it is sent, whatever page, pull or repair
\* comes in between (network.rs merge_history_page "Their optimistic cursor/history order remains
\* authoritative until drain"): a reload reads the store instead, a removal takes it away.
QueuedShown ==
    \A row \in Episodes : \A id \in Queued(row) :
        author[id] # NoTab /\ (\A x \in Queued(row) : x <= id) => pool[author[id]][row] = id

\* To its user, the store that the tabs share is one outbox, however they take turns at filling
\* and draining it, reload, and answer for each other's entries (network.rs drain_outbox).
Owed == Pending \ (landed \cup superseded)
Promise == INSTANCE Outbox WITH last <- lastId, owed <- Owed, answered <- landed
OneOutbox == Promise!Spec

\* The server takes a row's operations in the order they were queued, whichever tabs queue and
\* drain them (network.rs drain_outbox "so the next tab sees completed acknowledgments").
InOrder ==
    [][\A row \in Rows : server[row] > 0 /\ server'[row] > 0 => server'[row] >= server[row]]_vars

\* Tabs that pull at once do not take the shared cursor back.
CursorAdvances == [][cursor' >= cursor]_vars
=============================================================================
