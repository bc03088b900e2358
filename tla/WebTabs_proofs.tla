---------------------------- MODULE WebTabs_proofs ----------------------------
(***************************************************************************)
(* The tabs over one store, for any number of tabs, rows and operations:   *)
(* one outbox, rows that are never silently stale, and what a tab queued   *)
(* stays on its screen.                                                    *)
(***************************************************************************)
EXTENDS WebTabs, TLAPS

\* What a worker may hold.
Gots == UNION {[S -> Int] : S \in SUBSET Rows}
Op == {op \in [id : Nat, row : Rows, kind : {"cursor", "mark", "subscribe", "unsubscribe"}] :
         op.kind \in Kinds(op.row)}
Workers == [pc : Phases, work : SUBSET Op, outcome : {"none", "ok", "retry", "rejected"},
            need : BOOLEAN, due : BOOLEAN, got : Gots, seen : Nat, next : Nat, id : Nat]
Fetched == [row : Rows, value : Int, seen : Nat]

StoreTypes ==
    /\ head \in Nat /\ cursor \in Nat /\ lastId \in 0..MaxOps
    /\ server \in [Rows -> Int] /\ rows \in [Rows -> Int] /\ changed \in [Rows -> Nat]
    /\ DOMAIN journal \subseteq Nat
    /\ \A id \in DOMAIN journal : journal[id].row \in Rows /\ journal[id].kind \in Kinds(journal[id].row)

TabTypes ==
    /\ pool \in [Tabs -> [Rows -> Int]]
    /\ unsubscribed \in [Tabs -> SUBSET Podcasts] /\ repaired \in [Tabs -> SUBSET Nat]
    /\ worker \in [Tabs -> Workers]
    /\ page \in [Tabs -> {<<>>} \cup {<<p>> : p \in Fetched}]
    /\ lock \in Tabs \cup {NoTab} /\ trouble \in 0..MaxTrouble

HistTypes ==
    /\ superseded \in SUBSET Nat /\ landed \in SUBSET Nat
    /\ crossed \in SUBSET Rows /\ removed \in SUBSET Rows
    /\ author \in [1..MaxOps -> Tabs \cup {NoTab}]

Types == StoreTypes /\ TabTypes /\ HistTypes

\* A value names a write that has happened.
Valid(v) == -v <= head /\ v <= lastId

StoreBounds ==
    /\ cursor <= head /\ DOMAIN journal \subseteq Ids /\ superseded \cup landed \subseteq Ids
    /\ \A row \in Rows : Valid(server[row]) /\ Valid(rows[row]) /\ changed[row] <= head

WorkerBounds(w) ==
    /\ \A row \in DOMAIN w.got : Valid(w.got[row])
    /\ \A op \in w.work : op.id \in Ids
    /\ w.seen <= head /\ w.next <= head
    /\ w.pc = "fix" => w.id \in Ids
    /\ w.pc = "commit" => w.seen <= w.next

TabBounds(t) ==
    /\ \A row \in Rows : Valid(pool[t][row])
    /\ page[t] # <<>> => Valid(page[t][1].value) /\ page[t][1].seen <= head
    /\ repaired[t] \subseteq Ids
    /\ WorkerBounds(worker[t])

Bounds == StoreBounds /\ \A t \in Tabs : TabBounds(t)

\* Only the lock's holder is in a drain.
Holds(t) ==
    /\ worker[t].pc \in {"push", "settle"} => worker[t].work # {} /\ lock = t
    /\ worker[t].pc \in {"created", "repair", "fix", "end"} => lock = t

Holding == \A t \in Tabs : Holds(t)

Sending(t) == worker[t].pc \in {"push", "settle"}

\* What the holder has yet to send is the journal as it was, and nothing sent overtakes it.
Covered ==
    \A t \in Tabs : Sending(t) =>
        /\ \A id \in Pending : \/ \E op \in worker[t].work : op.id = id
                               \/ \A op \in worker[t].work : op.id < id
        /\ \A op \in worker[t].work : op.id \in Pending \cup superseded \cup landed
        /\ worker[t].pc = "settle" => worker[t].outcome # "none"
        /\ worker[t].pc = "settle" /\ worker[t].outcome # "retry" => worker[t].id \in landed

\* The server has nothing newer of a row than what is still to be sent.
Low ==
    /\ \A id \in Pending : server[journal[id].row] <= id
    /\ \A t \in Tabs : Sending(t) => \A op \in worker[t].work : server[op.row] <= op.id

\* A page on its way to the store has no row unsubscribed since.
Buried == \A t \in Tabs : worker[t].pc = "merge" => DOMAIN worker[t].got \cap unsubscribed[t] = {}

OrderInv == NoLostOperation /\ Covered /\ Low

-----------------------------------------------------------------------------
\* Types step by step.

LEMMA GotIn == ASSUME NEW S \in SUBSET Rows, NEW g \in [S -> Int] PROVE g \in Gots
BY DEF Gots

LEMMA GotOut ==
    ASSUME NEW g \in Gots PROVE DOMAIN g \subseteq Rows /\ \A r \in DOMAIN g : g[r] \in Int
BY DEF Gots

LEMMA OverType ==
    ASSUME NEW values \in [Rows -> Int], NEW g \in Gots PROVE Over(values, g) \in [Rows -> Int]
BY GotOut DEF Over

LEMMA IdleType == Idle \in Workers
<1>1. <<>> \in [{} -> Int]  OBVIOUS
<1>2. <<>> \in Gots  BY <1>1, GotIn
<1> QED BY <1>2 DEF Idle, Workers, Phases

\* A worker goes on with another record of its type; the store's types are as they were.
LEMMA BecomeType ==
    ASSUME TabTypes, NEW t \in Tabs, NEW w \in Workers, Become(t, w)
    PROVE  worker' \in [Tabs -> Workers]
BY DEF TabTypes, Become

LEMMA PhaseType ==
    ASSUME NEW w \in Workers, NEW p \in Phases PROVE [w EXCEPT !.pc = p] \in Workers
BY DEF Workers

LEMMA WriteType ==
    ASSUME StoreTypes, NEW row \in Rows, NEW value \in Int, Write(row, value)
    PROVE  head' \in Nat /\ server' \in [Rows -> Int] /\ changed' \in [Rows -> Nat]
BY DEF StoreTypes, Write, serverVars

LEMMA RemoteTypes == ASSUME Types, NEW row \in Rows, Remote(row) PROVE Types'
<1>1. -(head + 1) \in Int /\ 0 \in Int  BY DEF Types, StoreTypes
<1>2. head' \in Nat /\ server' \in [Rows -> Int] /\ changed' \in [Rows -> Nat]
  BY <1>1, WriteType DEF Types, Remote
<1> QED BY <1>2 DEF Types, StoreTypes, TabTypes, HistTypes, Remote, storeVars, tabVars, histVars

LEMMA CommandTypes ==
    ASSUME Types, NEW t \in Tabs, NEW row \in Rows, NEW kind \in Kinds(row), Command(t, row, kind)
    PROVE  Types'
<1> USE WebAssumption DEF Types, StoreTypes, TabTypes, HistTypes, Command
<1>1. worker' \in [Tabs -> Workers]
  BY PhaseType DEF GoTo, Phases
<1>2. lastId' \in 0..MaxOps /\ lastId + 1 \in 1..MaxOps  BY SMTT(30)
<1>3. Superseded(row, kind) \subseteq Nat  BY DEF Superseded, Queued, Pending
<1>4. DOMAIN journal' \subseteq Nat /\ \A id \in DOMAIN journal' :
          journal'[id].row \in Rows /\ journal'[id].kind \in Kinds(journal'[id].row)
  BY DEF With, Without
<1>5. Effect(lastId + 1, kind) \in Int  BY DEF Effect
<1>6. rows' \in [Rows -> Int] /\ pool' \in [Tabs -> [Rows -> Int]]
  <2>1. \/ UNCHANGED <<rows, pool>>
        \/ \E value \in Int : rows' = [rows EXCEPT ![row] = value]
                              /\ pool' = [pool EXCEPT ![t][row] = value]
    BY <1>5
  <2>2. CASE UNCHANGED <<rows, pool>>  BY <2>2
  <2>3. ASSUME NEW value \in Int, rows' = [rows EXCEPT ![row] = value],
                                 pool' = [pool EXCEPT ![t][row] = value]
        PROVE  rows' \in [Rows -> Int] /\ pool' \in [Tabs -> [Rows -> Int]]
    <3> HIDE DEF Command
    <3> QED BY <2>3
  <2> QED BY <2>1, <2>2, <2>3
<1>7. kind = "unsubscribe" => row \in Podcasts  BY DEF Kinds, Rows
<1>8. unsubscribed' \in [Tabs -> SUBSET Podcasts]  BY <1>7
<1>9. author' \in [1..MaxOps -> Tabs \cup {NoTab}]  BY <1>2
<1> QED BY <1>1, <1>2, <1>3, <1>4, <1>6, <1>8, <1>9 DEF serverVars

LEMMA TickTypes == ASSUME Types, NEW t \in Tabs, Tick(t) PROVE Types'
<1> USE DEF Types, StoreTypes, TabTypes, HistTypes, Tick
<1>1. [Idle EXCEPT !.pc = "drain", !.due = TRUE] \in Workers
  <2> HIDE DEF Types, StoreTypes, TabTypes, HistTypes, Tick
  <2> QED BY IdleType DEF Workers, Phases
<1>2. worker' \in [Tabs -> Workers]  BY <1>1, BecomeType
<1> QED BY <1>2 DEF serverVars, storeVars, histVars

LEMMA RemoveLocalTypes ==
    ASSUME Types, NEW t \in Tabs, NEW row \in Rows, RemoveLocal(t, row) PROVE Types'
<1> USE WebAssumption DEF Types, StoreTypes, TabTypes, HistTypes, RemoveLocal
<1>1. worker' \in [Tabs -> Workers]  BY PhaseType DEF GoTo, Phases
<1>2. rows' \in [Rows -> Int] /\ pool' \in [Tabs -> [Rows -> Int]]  OBVIOUS
<1>3. trouble' \in 0..MaxTrouble  BY DEF Trouble
<1>4. author' \in [1..MaxOps -> Tabs \cup {NoTab}]  OBVIOUS
<1> QED BY <1>1, <1>2, <1>3, <1>4 DEF serverVars

LEMMA ReloadTypes == ASSUME Types, NEW t \in Tabs, Reload(t) PROVE Types'
<1> USE WebAssumption DEF Types, StoreTypes, TabTypes, HistTypes, Reload
<1>1. worker' \in [Tabs -> Workers]  BY IdleType, BecomeType
<1>2. page' \in [Tabs -> {<<>>} \cup {<<p>> : p \in Fetched}]  OBVIOUS
<1>3. author' \in [1..MaxOps -> Tabs \cup {NoTab}]  OBVIOUS
<1> QED BY <1>1, <1>2, <1>3 DEF serverVars, storeVars, Trouble

LEMMA DrainTypes == ASSUME Types, NEW t \in Tabs, Drain(t) PROVE Types'
<1> DEFINE sent == {[id |-> id, row |-> journal[id].row, kind |-> journal[id].kind] : id \in Pending}
<1>0. ASSUME GoTo(t, "end") PROVE Types'
  <2>1. worker' \in [Tabs -> Workers]  BY <1>0, PhaseType DEF GoTo, Phases, Types, TabTypes
  <2> QED BY <2>1, WebAssumption DEF Drain, Types, StoreTypes, TabTypes, HistTypes, serverVars, storeVars, histVars
<1> SUFFICES ASSUME Become(t, [worker[t] EXCEPT !.pc = IF Pending = {} THEN "repair" ELSE "push",
                                             !.work = sent])
             PROVE  Types'
  BY <1>0 DEF Drain
<1> USE DEF Types, StoreTypes, TabTypes, HistTypes
<1> DEFINE next == IF Pending = {} THEN "repair" ELSE "push"
<1>1. sent \subseteq Op
  <2>1. ASSUME NEW id \in Pending PROVE [id |-> id, row |-> journal[id].row, kind |-> journal[id].kind] \in Op
    BY DEF Op, Pending, Kinds
  <2> QED BY <2>1
<1>2. next \in Phases  BY DEF Phases
<1>3. [worker[t] EXCEPT !.pc = next, !.work = sent] \in Workers
  <2>1. worker[t] \in Workers  OBVIOUS
  <2> HIDE DEF sent, next, Types, StoreTypes, TabTypes, HistTypes
  <2> QED BY <1>1, <1>2, <2>1 DEF Workers
<1>4. worker' \in [Tabs -> Workers]  BY <1>3, BecomeType DEF Drain
<1> QED BY <1>4 DEF Drain, serverVars, storeVars, histVars

\* The server's side of a request, and the worker's.
LEMMA AnsweredType ==
    ASSUME Types, NEW t \in Tabs, NEW op \in Op, NEW outcome \in {"ok", "retry", "rejected"},
           Answered(t, op, outcome)
    PROVE  worker' \in [Tabs -> Workers]
<1> DEFINE w == [worker[t] EXCEPT !.pc = "settle", !.outcome = outcome, !.id = op.id]
<1>1. worker \in [Tabs -> Workers] /\ op.id \in Nat  BY DEF Types, TabTypes, Op
<1>2. w \in Workers
  <2>1. worker[t] \in Workers /\ "settle" \in Phases  BY <1>1 DEF Phases
  <2> QED BY <1>1, <2>1, ZenonT(30) DEF Workers
<1>3. worker' = [worker EXCEPT ![t] = w]  BY <1>1 DEF Answered
<1> QED BY <1>1, <1>2, <1>3

LEMMA PushTypes == ASSUME Types, NEW t \in Tabs, Push(t) PROVE Types'
<1>1. PICK op \in Foremost(worker[t].work) :
       \/ /\ op.row \in Podcasts \/ server[op.row] # 0
          /\ Write(op.row, Effect(op.id, op.kind)) /\ landed' = landed \cup {op.id}
          /\ \/ Answered(t, op, "ok") /\ UNCHANGED trouble
             \/ Trouble /\ Answered(t, op, "retry")
       \/ /\ op.row \in Episodes /\ server[op.row] = 0
          /\ Answered(t, op, "rejected") /\ UNCHANGED <<serverVars, trouble>> /\ landed' = landed \cup {op.id}
       \/ /\ Trouble /\ Answered(t, op, "retry") /\ UNCHANGED <<serverVars, landed>>
       \/ /\ Trouble /\ Answered(t, op, "rejected") /\ UNCHANGED serverVars /\ landed' = landed \cup {op.id}
  BY DEF Push
<1>2. op \in Op  BY DEF Foremost, Types, TabTypes, Workers
<1>3. op.id \in Nat /\ op.row \in Rows /\ Effect(op.id, op.kind) \in Int  BY <1>2 DEF Op, Effect
<1>4. worker' \in [Tabs -> Workers]  BY <1>1, <1>2, AnsweredType
<1>5. head' \in Nat /\ server' \in [Rows -> Int] /\ changed' \in [Rows -> Nat]
  BY <1>1, <1>3, WriteType DEF Types, StoreTypes, serverVars
<1>6. landed' \in SUBSET Nat  BY <1>1, <1>3 DEF Types, HistTypes
<1>7. trouble' \in 0..MaxTrouble  BY <1>1, WebAssumption DEF Types, TabTypes, Trouble
<1> QED BY <1>4, <1>5, <1>6, <1>7 DEF Push, Types, StoreTypes, TabTypes, HistTypes, storeVars

\* What Settle does, with its LET and its choices opened.
More(t, op) ==
    [r \in DOMAIN worker[t].got \cup {op.row} |-> IF r = op.row THEN op.id ELSE worker[t].got[r]]

Settled(t, op, rest, need, seen, got) ==
    /\ worker[t].pc = "settle" /\ op.id = worker[t].id
    /\ journal' = IF Done(worker[t].outcome) THEN Without({op.id})
                  ELSE With(journal, op.id, [row |-> op.row, kind |-> op.kind,
                                             rejected |-> worker[t].outcome = "rejected"])
    /\ rest = IF worker[t].outcome = "retry" THEN {} ELSE {x \in worker[t].work : x.id # worker[t].id}
    /\ Become(t, [worker[t] EXCEPT
         !.pc = IF rest = {} THEN "created" ELSE "push", !.work = rest, !.outcome = "none",
         !.id = 0, !.need = need, !.got = got, !.seen = seen])
    /\ \/ got = worker[t].got /\ seen = worker[t].seen
       \/ /\ worker[t].outcome = "ok" /\ op.kind = "subscribe"
          /\ got = More(t, op) /\ seen = cursor
    /\ UNCHANGED <<serverVars, rows, cursor, lastId, pool, unsubscribed, repaired, page, lock,
                   trouble, histVars>>

LEMMA SettleIs ==
    ASSUME Types, NEW t \in Tabs, Settle(t)
    PROVE  \E op \in worker[t].work, rest \in SUBSET worker[t].work, need \in BOOLEAN,
              seen \in {cursor, worker[t].seen} :
           \E got \in {worker[t].got, More(t, op)} : Settled(t, op, rest, need, seen, got)
<1> DEFINE w == worker[t]
<1> DEFINE rest == IF w.outcome = "retry" THEN {} ELSE {op \in w.work : op.id # w.id}
<1>1. PICK op \in w.work :
        /\ w.pc = "settle" /\ op.id = w.id
        /\ journal' = IF Done(w.outcome) THEN Without({op.id})
                      ELSE With(journal, op.id, [row |-> op.row, kind |-> op.kind,
                                                 rejected |-> w.outcome = "rejected"])
        /\ Become(t, [w EXCEPT
             !.pc = IF rest = {} THEN "created" ELSE "push", !.work = rest, !.outcome = "none", !.id = 0,
             !.need = @ \/ (w.outcome = "ok" /\ op.row \in Podcasts),
             !.got = IF w.outcome = "ok" /\ op.kind = "subscribe"
                     THEN [r \in DOMAIN @ \cup {op.row} |-> IF r = op.row THEN op.id ELSE @[r]] ELSE @,
             !.seen = IF w.outcome = "ok" /\ op.kind = "subscribe" THEN cursor ELSE @])
        /\ UNCHANGED <<serverVars, rows, cursor, lastId, pool, unsubscribed, repaired, page, lock,
                       trouble, histVars>>
  BY Zenon DEF Settle
<1> DEFINE need == w.need \/ (w.outcome = "ok" /\ op.row \in Podcasts)
           got == IF w.outcome = "ok" /\ op.kind = "subscribe" THEN More(t, op) ELSE w.got
           seen == IF w.outcome = "ok" /\ op.kind = "subscribe" THEN cursor ELSE w.seen
<1>2. Become(t, [w EXCEPT
             !.pc = IF rest = {} THEN "created" ELSE "push", !.work = rest, !.outcome = "none", !.id = 0,
             !.need = need, !.got = got, !.seen = seen])
  BY <1>1 DEF More
<1>3. Settled(t, op, rest, need, seen, got)
  <2>1. \/ got = w.got /\ seen = w.seen
        \/ w.outcome = "ok" /\ op.kind = "subscribe" /\ got = More(t, op) /\ seen = cursor
    OBVIOUS
  <2> HIDE DEF need, got, seen
  <2> QED BY <1>1, <1>2, <2>1 DEF Settled
<1>4. rest \in SUBSET w.work /\ seen \in {cursor, w.seen} /\ got \in {w.got, More(t, op)}  OBVIOUS
<1>5. need \in BOOLEAN
  <2>1. w.need \in BOOLEAN  BY DEF Types, TabTypes, Workers
  <2> QED BY <2>1
<1> HIDE DEF rest, need, got, seen
<1>6. \E g \in {w.got, More(t, op)} : Settled(t, op, rest, need, seen, g)  BY <1>3, <1>4
<1> QED BY <1>4, <1>5, <1>6

LEMMA SettleTypes == ASSUME Types, NEW t \in Tabs, Settle(t) PROVE Types'
<1> USE DEF Types, StoreTypes, TabTypes, HistTypes
<1>0. PICK op \in worker[t].work, rest \in SUBSET worker[t].work, need \in BOOLEAN,
           seen \in {cursor, worker[t].seen} :
         \E got \in {worker[t].got, More(t, op)} : Settled(t, op, rest, need, seen, got)
  BY SettleIs
<1>1. PICK got \in {worker[t].got, More(t, op)} : Settled(t, op, rest, need, seen, got)  BY <1>0
<1>2. worker[t] \in Workers /\ op \in Op  BY DEF Workers
<1>3. op.id \in Nat /\ op.row \in Rows  BY <1>2 DEF Op
<1>4. got \in Gots /\ seen \in Nat
  <2>1. worker[t].got \in Gots /\ worker[t].seen \in Nat  BY <1>2 DEF Workers
  <2>2. More(t, op) \in [DOMAIN worker[t].got \cup {op.row} -> Int]  BY <1>3, <2>1, GotOut DEF More
  <2>3. DOMAIN worker[t].got \cup {op.row} \in SUBSET Rows  BY <1>3, <2>1, GotOut
  <2>4. More(t, op) \in Gots
    <3> HIDE DEF Types, StoreTypes, TabTypes, HistTypes
    <3> QED BY <2>2, <2>3, GotIn
  <2> QED BY <2>1, <2>4
<1>5. [worker[t] EXCEPT !.pc = IF rest = {} THEN "created" ELSE "push", !.work = rest, !.outcome = "none",
                       !.id = 0, !.need = need, !.got = got, !.seen = seen] \in Workers
  <2>1. (IF rest = {} THEN "created" ELSE "push") \in Phases  BY DEF Phases
  <2> HIDE DEF Types, StoreTypes, TabTypes, HistTypes
  <2> QED BY <1>2, <1>4, <2>1, ZenonT(30) DEF Workers
<1>6. worker' \in [Tabs -> Workers]  BY <1>1, <1>5, BecomeType DEF Settled
<1>7. DOMAIN journal' \subseteq Nat /\ \A id \in DOMAIN journal' :
          journal'[id].row \in Rows /\ journal'[id].kind \in Kinds(journal'[id].row)
  <2>1. op.kind \in Kinds(op.row)  BY <1>2 DEF Op
  <2>2. CASE journal' = Without({op.id})  BY <2>2 DEF Without
  <2>3. CASE journal' = With(journal, op.id, [row |-> op.row, kind |-> op.kind,
                                              rejected |-> worker[t].outcome = "rejected"])
    BY <1>3, <2>1, <2>3 DEF With
  <2> QED BY <1>1, <2>2, <2>3 DEF Settled
<1> QED BY <1>1, <1>6, <1>7 DEF Settled, serverVars, histVars

\* Rows written unchecked keep their types.
LEMMA UncheckedTypes ==
    ASSUME Types, NEW t \in Tabs, NEW g \in Gots, NEW seen, Unchecked(t, g, seen)
    PROVE  /\ rows' \in [Rows -> Int] /\ pool' \in [Tabs -> [Rows -> Int]]
           /\ crossed' \in SUBSET Rows /\ removed' \in SUBSET Rows
<1> USE DEF Types, StoreTypes, TabTypes, HistTypes
<1>1. rows' \in [Rows -> Int]  BY OverType DEF Unchecked
<1>2. Over(pool[t], g) \in [Rows -> Int]  BY OverType
<1>3. pool' \in [Tabs -> [Rows -> Int]]  BY <1>2 DEF Unchecked
<1>4. DOMAIN g \subseteq Rows  BY GotOut
<1> QED BY <1>1, <1>3, <1>4 DEF Unchecked

LEMMA AdmittedType == ASSUME NEW t, NEW g \in Gots PROVE Admitted(t, g) \in Gots
<1>1. DOMAIN g \ unsubscribed[t] \in SUBSET Rows /\ \A r \in DOMAIN g : g[r] \in Int  BY GotOut
<1>2. Admitted(t, g) \in [DOMAIN g \ unsubscribed[t] -> Int]  BY <1>1 DEF Admitted
<1> QED BY <1>1, <1>2, GotIn

LEMMA NoneType == <<>> \in Gots
<1>1. <<>> \in [{} -> Int]  OBVIOUS
<1> QED BY <1>1, GotIn

LEMMA CreatedTypes == ASSUME Types, NEW t \in Tabs, Created(t) PROVE Types'
<1>1. worker[t] \in Workers /\ worker[t].got \in Gots  BY DEF Types, TabTypes, Workers
<1>2. [worker[t] EXCEPT !.pc = "repair", !.got = <<>>, !.seen = 0] \in Workers
  BY <1>1, NoneType DEF Workers, Phases
<1>3. worker' \in [Tabs -> Workers]  BY <1>2, BecomeType DEF Created, Types
<1>4. Admitted(t, worker[t].got) \in Gots  BY <1>1, AdmittedType
<1> QED BY <1>3, <1>4, UncheckedTypes
    DEF Created, Types, StoreTypes, TabTypes, HistTypes, serverVars

\* What is read again of a rejected operation.
LEMMA SuspectIs ==
    \A entry, row : row \in Suspect(entry) <=> row = entry.row /\ ~(row \in Podcasts /\ entry.kind = "subscribe")
BY DEF Suspect

LEMMA RepairTypes == ASSUME Types, NEW t \in Tabs, Repair(t) PROVE Types'
<1>1. worker[t] \in Workers  BY DEF Types, TabTypes
<1>2. CASE GoTo(t, "end")
  <2>1. worker' \in [Tabs -> Workers]  BY <1>1, <1>2, PhaseType DEF GoTo, Phases, Types, TabTypes
  <2> QED BY <2>1, Zenon DEF Repair, Types, StoreTypes, TabTypes, HistTypes, serverVars, storeVars, histVars
<1>3. ASSUME NEW id \in DOMAIN journal,
             Become(t, [worker[t] EXCEPT !.pc = "fix", !.id = id, !.seen = cursor,
                          !.got = [row \in Suspect(journal[id]) |-> server[row]]])
      PROVE  Types'
  <2>1. id \in Nat /\ cursor \in Nat /\ journal[id].row \in Rows /\ server \in [Rows -> Int]
    BY DEF Types, StoreTypes
  <2>2. [row \in Suspect(journal[id]) |-> server[row]] \in Gots
    <3>1. Suspect(journal[id]) \in SUBSET Rows  BY <2>1, SuspectIs
    <3>2. [row \in Suspect(journal[id]) |-> server[row]] \in [Suspect(journal[id]) -> Int]  BY <2>1, <3>1
    <3> QED BY <3>1, <3>2, GotIn
  <2>3. [worker[t] EXCEPT !.pc = "fix", !.id = id, !.seen = cursor,
                          !.got = [row \in Suspect(journal[id]) |-> server[row]]] \in Workers
    BY <1>1, <2>1, <2>2 DEF Workers, Phases
  <2>4. worker' \in [Tabs -> Workers]  BY <1>3, <2>3, BecomeType DEF Types
  <2> QED BY <2>4, Zenon DEF Repair, Types, StoreTypes, TabTypes, HistTypes, serverVars, storeVars, histVars
<1> QED BY <1>2, <1>3, Zenon DEF Repair

LEMMA FixTypes == ASSUME Types, NEW t \in Tabs, Fix(t) PROVE Types'
<1>1. worker[t] \in Workers /\ worker[t].got \in Gots /\ worker[t].id \in Nat
  BY DEF Types, TabTypes, Workers
<1>2. [worker[t] EXCEPT !.pc = "repair", !.got = <<>>, !.seen = 0, !.id = 0] \in Workers
  BY <1>1, NoneType DEF Workers, Phases
<1>3. worker' \in [Tabs -> Workers]  BY <1>2, BecomeType DEF Fix, Types
<1>4. unsubscribed' \in [Tabs -> SUBSET Podcasts] /\ repaired' \in [Tabs -> SUBSET Nat]
  BY <1>1 DEF Fix, Types, TabTypes
<1> QED BY <1>1, <1>3, <1>4, UncheckedTypes
    DEF Fix, Types, StoreTypes, TabTypes, HistTypes, serverVars

LEMMA PullPhase == [Idle EXCEPT !.pc = "pull"] \in Workers
BY IdleType DEF Workers, Phases

LEMMA EndDrainTypes == ASSUME Types, NEW t \in Tabs, EndDrain(t) PROVE Types'
<1>1. worker[t] \in Workers  BY DEF Types, TabTypes
<1>2. [worker[t] EXCEPT !.pc = "pull"] \in Workers  BY <1>1, PhaseType DEF Phases
<1>3. worker' \in [Tabs -> Workers]
  BY <1>2, IdleType, PullPhase, BecomeType DEF EndDrain, GoTo, Become, Types, TabTypes
<1> QED BY <1>3 DEF EndDrain, Types, StoreTypes, TabTypes, HistTypes, serverVars, storeVars, histVars

LEMMA EndPullTypes ==
    ASSUME Types, NEW t \in Tabs, EndPull(t)
    PROVE  worker' \in [Tabs -> Workers] /\ lock' \in Tabs \cup {NoTab}
<1>1. worker' \in [Tabs -> Workers]
  BY IdleType, PullPhase, BecomeType DEF EndPull, Types
<1> QED BY <1>1 DEF EndPull, Types, TabTypes

LEMMA PullTypes == ASSUME Types, NEW t \in Tabs, Pull(t) PROVE Types'
<1> DEFINE got == [r \in {x \in Rows : changed[x] > cursor} |-> server[r]]
<1>1. worker[t] \in Workers  BY DEF Types, TabTypes
<1>2. got \in Gots
  <2>1. got \in [{x \in Rows : changed[x] > cursor} -> Int]  BY DEF Types, StoreTypes
  <2> QED BY <2>1, GotIn
<1>3. CASE Become(t, [worker[t] EXCEPT !.pc = "commit", !.seen = cursor, !.next = head, !.got = got])
           /\ UNCHANGED <<lock, trouble>>
  <2>1. [worker[t] EXCEPT !.pc = "commit", !.seen = cursor, !.next = head, !.got = got] \in Workers
    <3>1. cursor \in Nat /\ head \in Nat  BY DEF Types, StoreTypes
    <3> HIDE DEF got
    <3> QED BY <1>1, <1>2, <3>1 DEF Workers, Phases
  <2>2. worker' \in [Tabs -> Workers]  BY <1>3, <2>1, BecomeType DEF Types
  <2> QED BY <1>3, <2>2 DEF Pull, Types, StoreTypes, TabTypes, HistTypes, serverVars, storeVars, histVars
<1>4. CASE EndPull(t) /\ UNCHANGED trouble
  BY <1>4, EndPullTypes DEF Pull, Types, StoreTypes, TabTypes, HistTypes, serverVars, storeVars, histVars
<1>5. CASE Trouble /\ EndPull(t)
  <2>1. trouble' \in 0..MaxTrouble  BY <1>5, WebAssumption DEF Trouble, Types, TabTypes
  <2> QED BY <1>5, <2>1, EndPullTypes
      DEF Pull, Types, StoreTypes, TabTypes, HistTypes, serverVars, storeVars, histVars
<1> QED BY <1>3, <1>4, <1>5 DEF Pull

LEMMA CommitTypes == ASSUME Types, NEW t \in Tabs, Commit(t) PROVE Types'
<1> USE DEF Types, StoreTypes, TabTypes, HistTypes
<1>1. worker[t].got \in Gots /\ worker[t].next \in Nat  BY DEF Workers
<1>2. DOMAIN worker[t].got \subseteq Rows  BY <1>1, GotOut
<1>3. Over(rows, worker[t].got) \in [Rows -> Int] /\ Over(pool[t], worker[t].got) \in [Rows -> Int]
  BY <1>1, OverType
<1>4. rows' \in [Rows -> Int] /\ cursor' \in Nat
  <2>1. \/ UNCHANGED <<rows, cursor>>
        \/ rows' = Over(rows, worker[t].got) /\ cursor' = worker[t].next
    BY DEF Commit
  <2> QED BY <1>1, <1>3, <2>1
<1>5. pool' \in [Tabs -> [Rows -> Int]]  BY <1>3 DEF Commit
<1>6. unsubscribed' \in [Tabs -> SUBSET Podcasts]
  <2>1. unsubscribed[t] \in SUBSET Podcasts  OBVIOUS
  <2>2. \/ UNCHANGED unsubscribed
        \/ \E gone \in SUBSET Podcasts : unsubscribed' = [unsubscribed EXCEPT ![t] = gone]
    BY <2>1 DEF Commit
  <2> HIDE DEF Commit
  <2> QED BY <2>2
<1>7. crossed' \in SUBSET Rows /\ removed' \in SUBSET Rows  BY DEF Commit
<1>8. worker' \in [Tabs -> Workers] /\ lock' \in Tabs \cup {NoTab}  BY EndPullTypes DEF Commit
<1> QED BY <1>4, <1>5, <1>6, <1>7, <1>8 DEF Commit, serverVars
LEMMA FetchPageTypes ==
    ASSUME Types, NEW t \in Tabs, NEW row \in Rows, FetchPage(t, row) PROVE Types'
<1> DEFINE p == [row |-> row, value |-> server[row], seen |-> cursor]
<1>1. p \in Fetched  BY DEF Fetched, Types, StoreTypes
<1>2. page' \in [Tabs -> {<<>>} \cup {<<x>> : x \in Fetched}]
  <2>1. page' = [page EXCEPT ![t] = <<p>>]  BY DEF FetchPage
  <2> HIDE DEF p
  <2> QED BY <1>1, <2>1 DEF Types, TabTypes
<1>3. trouble' \in 0..MaxTrouble  BY WebAssumption DEF FetchPage, Trouble, Types, TabTypes
<1> QED BY <1>2, <1>3
    DEF FetchPage, Types, StoreTypes, TabTypes, HistTypes, serverVars, storeVars, histVars

LEMMA PageIs ==
    ASSUME Types, NEW t \in Tabs, page[t] # <<>> PROVE page[t][1] \in Fetched
<1>1. PICK p \in Fetched : page[t] = <<p>>  BY DEF Types, TabTypes
<1> QED BY <1>1

LEMMA MergePageTypes == ASSUME Types, NEW t \in Tabs, MergePage(t) PROVE Types'
<1> DEFINE p == page[t][1]
<1> DEFINE got == Admitted(t, Only(p.row, Kept(t, p)))
<1>1. p \in Fetched  BY PageIs DEF MergePage
<1>2. p.row \in Rows /\ Kept(t, p) \in Int /\ p.seen \in Nat
  BY <1>1 DEF Kept, Fetched, Types, TabTypes
<1>3. Only(p.row, Kept(t, p)) \in Gots  BY <1>2, GotIn DEF Only
<1>4. got \in Gots  BY <1>3, AdmittedType
<1>5. [Idle EXCEPT !.pc = "merge", !.seen = p.seen, !.got = got] \in Workers
  <2> HIDE DEF p, got
  <2> QED BY <1>2, <1>4, IdleType DEF Workers, Phases
<1>6. worker' \in [Tabs -> Workers]
  <2>1. Become(t, [Idle EXCEPT !.pc = "merge", !.seen = p.seen, !.got = got])  BY DEF MergePage
  <2> HIDE DEF p, got
  <2> QED BY <1>5, <2>1, BecomeType DEF Types
<1>7. page' \in [Tabs -> {<<>>} \cup {<<x>> : x \in Fetched}]  BY DEF MergePage, Types, TabTypes
<1> QED BY <1>6, <1>7
    DEF MergePage, Types, StoreTypes, TabTypes, HistTypes, serverVars, storeVars, histVars

LEMMA WritePageTypes == ASSUME Types, NEW t \in Tabs, WritePage(t) PROVE Types'
<1>1. worker[t] \in Workers /\ worker[t].got \in Gots  BY DEF Types, TabTypes, Workers
<1>2. [Idle EXCEPT !.pc = "drain"] \in Workers  BY IdleType DEF Workers, Phases
<1>3. worker' \in [Tabs -> Workers]  BY <1>2, BecomeType DEF WritePage, Types
<1> QED BY <1>1, <1>3, UncheckedTypes
    DEF WritePage, Types, StoreTypes, TabTypes, HistTypes, serverVars

LEMMA InitTypes == ASSUME Init PROVE Types
<1>1. \A t \in Tabs : worker[t] \in Workers  BY IdleType DEF Init
<1>2. author \in [1..MaxOps -> Tabs \cup {NoTab}]  BY DEF Init
<1> QED BY <1>1, <1>2, WebAssumption DEF Init, Types, StoreTypes, TabTypes, HistTypes, Kinds

LEMMA StepTypes == ASSUME Types, [Next]_vars PROVE Types'
<1>1. CASE UNCHANGED vars
  BY <1>1 DEF vars, serverVars, storeVars, tabVars, histVars, Types, StoreTypes, TabTypes, HistTypes
<1>2. ASSUME NEW t \in Tabs, Work(t) PROVE Types'
  BY <1>2, DrainTypes, PushTypes, SettleTypes, CreatedTypes, RepairTypes, FixTypes, EndDrainTypes,
     PullTypes, CommitTypes, WritePageTypes DEF Work
<1> QED BY <1>1, <1>2, RemoteTypes, CommandTypes, TickTypes, RemoveLocalTypes, ReloadTypes,
           FetchPageTypes, MergePageTypes DEF Next

-----------------------------------------------------------------------------
\* Bounds and the lock step by step.

Grows == head <= head' /\ lastId <= lastId'

LEMMA ValidGrows ==
    ASSUME Types, Types', Grows, NEW v \in Int, Valid(v) PROVE -v <= head' /\ v <= lastId'
<1>1. head \in Int /\ lastId \in Int  BY WebAssumption DEF Types, StoreTypes
<1>2. head' \in Int /\ lastId' \in Int  BY WebAssumption DEF Types, StoreTypes
<1> QED BY <1>1, <1>2 DEF Grows, Valid

LEMMA WorkerGrows ==
    ASSUME Types, Types', Grows, NEW w \in Workers, WorkerBounds(w)
    PROVE  /\ \A row \in DOMAIN w.got : -w.got[row] <= head' /\ w.got[row] <= lastId'
           /\ \A op \in w.work : op.id \in 1..lastId'
           /\ w.seen <= head' /\ w.next <= head'
           /\ w.pc = "fix" => w.id \in 1..lastId'
           /\ w.pc = "commit" => w.seen <= w.next
<1>1. head \in Nat /\ head' \in Nat /\ lastId \in Nat /\ lastId' \in Nat
  BY WebAssumption DEF Types, StoreTypes
<1>2. \A row \in DOMAIN w.got : w.got[row] \in Int  BY GotOut DEF Workers
<1>3. \A op \in w.work : op.id \in Nat  BY DEF Workers, Op
<1>4. w.seen \in Nat /\ w.next \in Nat /\ w.id \in Nat  BY DEF Workers
<1>5. \A v \in Int : Valid(v) => -v <= head' /\ v <= lastId'  BY ValidGrows
<1>6. \A i \in Nat : i \in 1..lastId => i \in 1..lastId'  BY <1>1 DEF Grows
<1>7. \A i \in Nat : i <= head => i <= head'  BY <1>1 DEF Grows
<1>8. \A row \in DOMAIN w.got : -w.got[row] <= head' /\ w.got[row] <= lastId'
  BY <1>2, <1>5 DEF WorkerBounds
<1>9. \A op \in w.work : op.id \in 1..lastId'  BY <1>3, <1>6 DEF WorkerBounds, Ids
<1>10. w.seen <= head' /\ w.next <= head'  BY <1>4, <1>7 DEF WorkerBounds
<1>11. w.pc = "fix" => w.id \in 1..lastId'  BY <1>4, <1>6 DEF WorkerBounds, Ids
<1>12. w.pc = "commit" => w.seen <= w.next  BY DEF WorkerBounds
<1> QED BY <1>8, <1>9, <1>10, <1>11, <1>12

\* What a tab has, when the tab stands still.
LEMMA OthersBounds ==
    ASSUME Types, Types', Grows, NEW u \in Tabs, TabBounds(u), pool'[u] = pool[u], page'[u] = page[u],
           repaired'[u] = repaired[u], worker'[u] = worker[u]
    PROVE  TabBounds(u)'
<1>1. \A row \in Rows : pool[u][row] \in Int  BY DEF Types, TabTypes
<1>2. \A row \in DOMAIN worker[u].got : worker[u].got[row] \in Int
  BY GotOut DEF Types, TabTypes, Workers
<1>3. \A op \in worker[u].work : op.id \in Nat  BY DEF Types, TabTypes, Workers, Op
<1>4. head \in Nat /\ head' \in Nat /\ lastId \in Nat /\ lastId' \in Nat  BY DEF Types, StoreTypes
<1>5. worker[u].seen \in Nat /\ worker[u].next \in Nat /\ worker[u].id \in Nat
  BY DEF Types, TabTypes, Workers
<1>6. page[u] # <<>> => page[u][1].value \in Int /\ page[u][1].seen \in Nat  BY PageIs DEF Fetched
<1>7. \A v \in Int : Valid(v) => -v <= head' /\ v <= lastId'  BY ValidGrows
<1>8. \A i \in Nat : i \in 1..lastId => i \in 1..lastId'  BY <1>4 DEF Grows
<1>9. \A i \in Nat : i <= head => i <= head'  BY <1>4 DEF Grows
<1>10. repaired[u] \subseteq Nat  BY DEF Types, TabTypes
<1>11. WorkerBounds(worker[u])'
  <2>1. worker[u] \in Workers /\ WorkerBounds(worker[u])  BY DEF Types, TabTypes, TabBounds
  <2> QED BY <2>1, WorkerGrows DEF WorkerBounds, Valid, Ids
<1>12. \A row \in Rows : -pool'[u][row] <= head' /\ pool'[u][row] <= lastId'  BY <1>1, <1>7 DEF TabBounds
<1>13. page'[u] # <<>> => -page'[u][1].value <= head' /\ page'[u][1].value <= lastId'
                          /\ page'[u][1].seen <= head'
  BY <1>6, <1>7, <1>9 DEF TabBounds
<1>14. repaired'[u] \subseteq 1..lastId'  BY <1>8, <1>10 DEF TabBounds, Ids
<1> QED BY <1>11, <1>12, <1>13, <1>14 DEF TabBounds, Valid, Ids

LEMMA StoreBoundsGrow ==
    ASSUME Types, Types', Grows, StoreBounds
    PROVE  /\ cursor <= head' /\ DOMAIN journal \subseteq 1..lastId'
           /\ superseded \cup landed \subseteq 1..lastId'
           /\ \A row \in Rows : /\ -server[row] <= head' /\ server[row] <= lastId'
                                /\ -rows[row] <= head' /\ rows[row] <= lastId'
                                /\ changed[row] <= head'
<1>1. head \in Nat /\ head' \in Nat /\ lastId \in Nat /\ lastId' \in Nat /\ cursor \in Nat
  BY WebAssumption DEF Types, StoreTypes
<1>2. \A v \in Int : Valid(v) => -v <= head' /\ v <= lastId'  BY ValidGrows
<1>3. \A i \in Nat : i \in 1..lastId => i \in 1..lastId'  BY <1>1 DEF Grows
<1>4. \A i \in Nat : i <= head => i <= head'  BY <1>1 DEF Grows
<1>5. \A row \in Rows : server[row] \in Int /\ rows[row] \in Int /\ changed[row] \in Nat
  BY DEF Types, StoreTypes
<1>6. DOMAIN journal \subseteq Nat /\ superseded \cup landed \subseteq Nat
  BY DEF Types, StoreTypes, HistTypes
<1> QED BY <1>1, <1>2, <1>3, <1>4, <1>5, <1>6 DEF StoreBounds, Ids

LEMMA WriteBounds ==
    ASSUME Types, Types', StoreBounds, NEW row \in Rows, NEW value \in Int,
           -value <= head + 1, value <= lastId, Write(row, value)
    PROVE  /\ head' \in head..(head + 1)
           /\ \A r \in Rows : changed'[r] <= head' /\ -server'[r] <= head' /\ server'[r] <= lastId
<1>1. head \in Nat /\ lastId \in Nat  BY WebAssumption DEF Types, StoreTypes
<1>2. \A r \in Rows : changed[r] \in Nat /\ changed[r] <= head /\ server[r] \in Int
                     /\ -server[r] <= head /\ server[r] <= lastId
  BY DEF Types, StoreTypes, StoreBounds, Valid
<1>3. CASE UNCHANGED serverVars  BY <1>1, <1>2, <1>3 DEF serverVars
<1>4. CASE server[row] # value
  <2>1. head' = head + 1 /\ server' = [server EXCEPT ![row] = value]
        /\ changed' = [changed EXCEPT ![row] = head + 1]
    BY <1>4 DEF Write
  <2> QED BY <1>1, <1>2, <2>1 DEF Types, StoreTypes
<1> QED BY <1>3, <1>4 DEF Write

LEMMA RemoteBounds ==
    ASSUME Types, Types', Bounds, NEW row \in Rows, Remote(row) PROVE Bounds'
<1>1. head \in Nat /\ lastId \in Nat  BY WebAssumption DEF Types, StoreTypes
<1>2. PICK value \in {-(head + 1), 0} : Write(row, value)  BY DEF Remote
<1>3. value \in Int /\ -value <= head + 1 /\ value <= lastId  BY <1>1
<1>4. /\ head' \in head..(head + 1)
      /\ \A r \in Rows : changed'[r] <= head' /\ -server'[r] <= head' /\ server'[r] <= lastId
  BY <1>2, <1>3, WriteBounds DEF Bounds
<1>5. UNCHANGED <<storeVars, tabVars, histVars>>  BY DEF Remote
<1>6. Grows  BY <1>1, <1>4, <1>5 DEF Grows, storeVars
<1>7. StoreBounds'
  BY <1>4, <1>5, <1>6, StoreBoundsGrow DEF Bounds, StoreBounds, Valid, Ids, storeVars, histVars
<1>8. ASSUME NEW u \in Tabs PROVE TabBounds(u)'
  BY <1>5, <1>6, OthersBounds DEF Bounds, tabVars
<1> QED BY <1>7, <1>8 DEF Bounds

\* What a tab does leaves the other tabs alone.
Acts(t) ==
    \/ Work(t) \/ Tick(t) \/ Reload(t) \/ MergePage(t)
    \/ \E row \in Rows : \/ RemoveLocal(t, row) \/ FetchPage(t, row)
                         \/ \E kind \in Kinds(row) : Command(t, row, kind)

OthersKept(t) ==
    /\ \A u \in Tabs \ {t} :
         /\ worker'[u] = worker[u] /\ pool'[u] = pool[u] /\ page'[u] = page[u]
         /\ repaired'[u] = repaired[u] /\ unsubscribed'[u] = unsubscribed[u]
    /\ lock' = lock \/ lock \in {t, NoTab}

LEMMA Alone == ASSUME Types, Holding, NEW t \in Tabs, Acts(t) PROVE OthersKept(t)
<1> USE DEF Types, TabTypes, OthersKept, GoTo, Become, storeVars, histVars
<1>1. CASE Drain(t)  BY <1>1 DEF Drain, MayDrain
<1>2. CASE Push(t)  BY <1>2 DEF Push, Answered
<1>3. CASE Settle(t)  BY <1>3 DEF Settle
<1>4. CASE Created(t)  BY <1>4 DEF Created, Unchecked
<1>5. CASE Repair(t)  BY <1>5, Zenon DEF Repair
<1>6. CASE Fix(t)  BY <1>6 DEF Fix, Unchecked
<1>7. CASE EndDrain(t)  BY <1>7 DEF EndDrain, Holding, Holds
<1>8. CASE Pull(t)  BY <1>8 DEF Pull, EndPull
<1>9. CASE Commit(t)  BY <1>9 DEF Commit, EndPull
<1>10. CASE WritePage(t)  BY <1>10 DEF WritePage, Unchecked
<1>11. CASE Tick(t)  BY <1>11 DEF Tick
<1>12. CASE Reload(t)  BY <1>12 DEF Reload
<1>13. CASE MergePage(t)  BY <1>13 DEF MergePage
<1>14. ASSUME NEW row \in Rows, RemoveLocal(t, row) PROVE OthersKept(t)  BY <1>14 DEF RemoveLocal
<1>15. ASSUME NEW row \in Rows, FetchPage(t, row) PROVE OthersKept(t)  BY <1>15 DEF FetchPage
<1>16. ASSUME NEW row \in Rows, NEW kind \in Kinds(row), Command(t, row, kind) PROVE OthersKept(t)
  BY <1>16 DEF Command
<1> QED BY <1>1, <1>2, <1>3, <1>4, <1>5, <1>6, <1>7, <1>8, <1>9, <1>10, <1>11, <1>12, <1>13, <1>14,
           <1>15, <1>16 DEF Acts, Work

LEMMA PushWrites ==
    ASSUME Types, Types', Bounds, NEW t \in Tabs, Push(t)
    PROVE  /\ head' \in head..(head + 1) /\ landed' \subseteq Ids
           /\ \A r \in Rows : changed'[r] <= head' /\ -server'[r] <= head' /\ server'[r] <= lastId
<1>1. head \in Nat /\ lastId \in Nat  BY WebAssumption DEF Types, StoreTypes
<1>2. PICK op \in worker[t].work :
        /\ UNCHANGED serverVars \/ Write(op.row, Effect(op.id, op.kind))
        /\ landed' = landed \/ landed' = landed \cup {op.id}
  BY DEF Push, Foremost
<1>3. op \in Op /\ op.id \in Ids  BY DEF Types, TabTypes, Workers, Bounds, TabBounds, WorkerBounds
<1>4. op.row \in Rows /\ op.id \in 1..lastId  BY <1>3 DEF Op, Ids
<1> DEFINE value == Effect(op.id, op.kind)
<1>5. value \in Int /\ -value <= head + 1 /\ value <= lastId  BY <1>1, <1>4 DEF Effect
<1>6. landed' \subseteq Ids  BY <1>2, <1>3 DEF Bounds, StoreBounds
<1>7. CASE UNCHANGED serverVars
  <2>1. \A r \in Rows : changed[r] <= head /\ -server[r] <= head /\ server[r] <= lastId
    BY DEF Bounds, StoreBounds, Valid
  <2> QED BY <1>1, <1>6, <1>7, <2>1 DEF serverVars
<1>8. CASE Write(op.row, value)
  <2> HIDE DEF value
  <2> QED BY <1>4, <1>5, <1>6, <1>8, WriteBounds DEF Bounds
<1> QED BY <1>2, <1>7, <1>8

LEMMA ActsGrow == ASSUME Types, Types', Bounds, NEW t \in Tabs, Acts(t) PROVE Grows
<1>1. head \in Nat /\ lastId \in Nat  BY WebAssumption DEF Types, StoreTypes
<1>2. CASE Push(t)  BY <1>1, <1>2, PushWrites DEF Push, Grows, storeVars
<1>3. CASE Drain(t) \/ Settle(t) \/ Created(t) \/ Repair(t) \/ Fix(t) \/ EndDrain(t) \/ Pull(t)
           \/ Commit(t) \/ WritePage(t)
  <2>1. UNCHANGED <<head, lastId>>
    <3>1. CASE Settle(t)  BY <3>1 DEF Settle, serverVars
    <3>2. CASE Repair(t) \/ EndDrain(t) \/ Pull(t)
      BY <3>2, Zenon DEF Repair, EndDrain, Pull, serverVars, storeVars
    <3>3. CASE Drain(t) \/ Created(t) \/ Fix(t) \/ Commit(t) \/ WritePage(t)
      BY <3>3 DEF Drain, Created, Fix, Commit, WritePage, serverVars, storeVars
    <3> QED BY <1>3, <3>1, <3>2, <3>3
  <2> QED BY <1>1, <2>1 DEF Grows
<1>4. CASE Tick(t) \/ Reload(t) \/ MergePage(t)
  BY <1>1, <1>4 DEF Tick, Reload, MergePage, serverVars, storeVars, Grows
<1>5. ASSUME NEW row \in Rows, RemoveLocal(t, row) \/ FetchPage(t, row) PROVE Grows
  BY <1>1, <1>5 DEF RemoveLocal, FetchPage, serverVars, storeVars, Grows
<1>6. ASSUME NEW row \in Rows, NEW kind \in Kinds(row), Command(t, row, kind) PROVE Grows
  BY <1>1, <1>6 DEF Command, serverVars, Grows
<1> QED BY <1>2, <1>3, <1>4, <1>5, <1>6 DEF Acts, Work

\* What remains to be shown of a tab's step: its own part.
LEMMA OwnStep ==
    ASSUME Types, Types', Bounds, Holding, NEW t \in Tabs, Acts(t), StoreBounds', TabBounds(t)', Holds(t)'
    PROVE  Bounds' /\ Holding'
<1>1. OthersKept(t) /\ Grows  BY Alone, ActsGrow
<1>2. ASSUME NEW u \in Tabs, u # t PROVE TabBounds(u)' /\ Holds(u)'
  <2>1. TabBounds(u)'  BY <1>1, <1>2, OthersBounds DEF OthersKept, Bounds
  <2>2. Holds(u)'  BY <1>1, <1>2, WebAssumption DEF OthersKept, Holding, Holds
  <2> QED BY <2>1, <2>2
<1> QED BY <1>2 DEF Bounds, Holding

\* The same when the store's bounds and the tab's pool, page and repairs stand still.
LEMMA WorkerStep ==
    ASSUME Types, Types', Bounds, Holding, NEW t \in Tabs, Acts(t), Holds(t)', WorkerBounds(worker[t])',
           UNCHANGED <<serverVars, storeVars, superseded, landed>>,
           pool'[t] = pool[t], page'[t] \in {page[t], <<>>}, repaired'[t] \in {repaired[t], {}}
    PROVE  Bounds' /\ Holding'
<1>1. StoreBounds'  BY DEF Bounds, StoreBounds, serverVars, storeVars, Valid, Ids
<1>2. TabBounds(t)'  BY DEF Bounds, TabBounds, serverVars, storeVars, Valid, Ids
<1> QED BY <1>1, <1>2, OwnStep

LEMMA IdleBounds ==
    ASSUME Types PROVE WorkerBounds(Idle) /\ Idle.pc = "idle" /\ Idle.work = {}
<1>1. head \in Nat  BY DEF Types, StoreTypes
<1>2. DOMAIN <<>> = {}  OBVIOUS
<1>3. Idle.got = <<>> /\ Idle.work = {} /\ Idle.pc = "idle" /\ Idle.seen = 0 /\ Idle.next = 0  BY DEF Idle
<1> QED BY <1>1, <1>2, <1>3 DEF WorkerBounds

LEMMA TickBounds ==
    ASSUME Types, Types', Bounds, Holding, NEW t \in Tabs, Tick(t) PROVE Bounds' /\ Holding'
<1> DEFINE w == [Idle EXCEPT !.pc = "drain", !.due = TRUE]
<1>1. worker'[t] = w  BY DEF Tick, Become, Types, TabTypes
<1>2. w.pc = "drain" /\ w.work = {} /\ w.got = <<>> /\ w.seen = 0 /\ w.next = 0  BY DEF Idle
<1>3. head' \in Nat  BY DEF Types, StoreTypes
<1> HIDE DEF w
<1>4. DOMAIN w.got = {}  BY <1>2
<1>5. WorkerBounds(worker[t])'  BY <1>1, <1>2, <1>3, <1>4 DEF WorkerBounds
<1>6. Holds(t)'  BY <1>1, <1>2 DEF Holds
<1> QED BY <1>5, <1>6, WorkerStep DEF Tick, Acts, storeVars, histVars

LEMMA RepairBounds ==
    ASSUME Types, Types', Bounds, Holding, NEW t \in Tabs, Repair(t) PROVE Bounds' /\ Holding'
<1>1. worker[t] \in Workers /\ WorkerBounds(worker[t]) /\ lock = t /\ lock' = lock
  BY Zenon DEF Repair, Types, TabTypes, Bounds, TabBounds, Holding, Holds
<1>2. CASE GoTo(t, "end")
  <2>1. worker'[t] = [worker[t] EXCEPT !.pc = "end"]  BY <1>2 DEF GoTo, Types, TabTypes
  <2>2. WorkerBounds(worker[t])'
    BY <1>1, <2>1, Zenon DEF WorkerBounds, Valid, Ids, Workers, Repair, serverVars, storeVars
  <2>3. Holds(t)'  BY <1>1, <2>1 DEF Holds, Workers
  <2> QED BY <2>2, <2>3, WorkerStep, Zenon DEF Repair, Acts, Work, histVars
<1>3. ASSUME NEW id \in DOMAIN journal,
             Become(t, [worker[t] EXCEPT !.pc = "fix", !.id = id, !.seen = cursor,
                          !.got = [row \in Suspect(journal[id]) |-> server[row]]])
      PROVE  Bounds' /\ Holding'
  <2> DEFINE got == [row \in Suspect(journal[id]) |-> server[row]]
  <2>1. worker'[t] = [worker[t] EXCEPT !.pc = "fix", !.id = id, !.seen = cursor, !.got = got]
    BY <1>3 DEF Become, Types, TabTypes
  <2>2. \A r \in DOMAIN got : Valid(got[r])  BY SuspectIs DEF Types, StoreTypes, Bounds, StoreBounds
  <2>3. id \in Ids /\ cursor <= head  BY DEF Bounds, StoreBounds
  <2> HIDE DEF got
  <2>4. WorkerBounds(worker[t])'
    BY <1>1, <2>1, <2>2, <2>3, Zenon DEF WorkerBounds, Valid, Ids, Workers, Repair, serverVars, storeVars
  <2>5. Holds(t)'  BY <1>1, <2>1 DEF Holds, Workers
  <2> QED BY <2>4, <2>5, WorkerStep, Zenon DEF Repair, Acts, Work, histVars
<1> QED BY <1>2, <1>3, Zenon DEF Repair

LEMMA DrainBounds ==
    ASSUME Types, Types', Bounds, Holding, NEW t \in Tabs, Drain(t) PROVE Bounds' /\ Holding'
<1> DEFINE sent == {[id |-> id, row |-> journal[id].row, kind |-> journal[id].kind] : id \in Pending}
<1> DEFINE next == IF Pending = {} THEN "repair" ELSE "push"
<1>1. worker[t] \in Workers /\ WorkerBounds(worker[t]) /\ lock' = t
  BY DEF Drain, Types, TabTypes, Bounds, TabBounds
<1>0. ASSUME GoTo(t, "end") PROVE Bounds' /\ Holding'
  <2>1. worker'[t] = [worker[t] EXCEPT !.pc = "end"]  BY <1>0 DEF GoTo, Types, TabTypes
  <2>2. WorkerBounds(worker[t])'
    BY <1>1, <2>1 DEF WorkerBounds, Valid, Ids, Workers, Drain, serverVars, storeVars
  <2>3. Holds(t)'  BY <1>1, <2>1 DEF Holds, Workers
  <2> QED BY <2>2, <2>3, WorkerStep, Zenon DEF Drain, Acts, Work, histVars
<1> SUFFICES ASSUME Become(t, [worker[t] EXCEPT !.pc = next, !.work = sent]) PROVE Bounds' /\ Holding'
  BY <1>0 DEF Drain
<1>2. worker'[t] = [worker[t] EXCEPT !.pc = next, !.work = sent]
  BY DEF Drain, Become, Types, TabTypes
<1>3. \A op \in sent : op.id \in Ids  BY DEF Pending, Bounds, StoreBounds
<1>4. next \in {"repair", "push"} /\ (next = "push" => sent # {})
  <2>1. Pending # {} => \E id \in Pending : TRUE  OBVIOUS
  <2> QED BY <2>1
<1> HIDE DEF sent, next
<1>5. WorkerBounds(worker[t])'
  BY <1>1, <1>2, <1>3, <1>4 DEF WorkerBounds, Valid, Ids, Workers, Drain, serverVars, storeVars
<1>6. Holds(t)'  BY <1>1, <1>2, <1>4 DEF Holds, Workers
<1> QED BY <1>5, <1>6, WorkerStep, Zenon DEF Drain, Acts, Work, histVars

LEMMA PushBounds ==
    ASSUME Types, Types', Bounds, Holding, NEW t \in Tabs, Push(t) PROVE Bounds' /\ Holding'
<1>1. PICK op \in worker[t].work, outcome \in {"ok", "retry", "rejected"} : Answered(t, op, outcome)
  BY DEF Push, Foremost
<1>2. worker[t] \in Workers /\ TabBounds(t) /\ lock = t /\ worker[t].work # {}
  BY DEF Push, Types, TabTypes, Bounds, Holding, Holds
<1>3. worker'[t] = [worker[t] EXCEPT !.pc = "settle", !.outcome = outcome, !.id = op.id]
  BY <1>1 DEF Answered, Types, TabTypes
<1>4. /\ worker'[t].pc = "settle" /\ worker'[t].work = worker[t].work /\ worker'[t].got = worker[t].got
      /\ worker'[t].seen = worker[t].seen /\ worker'[t].next = worker[t].next
  BY <1>2, <1>3 DEF Workers
<1>5. UNCHANGED <<storeVars, pool, page, repaired, lock, superseded>>  BY DEF Push
<1>6. Grows  BY ActsGrow DEF Acts, Work
<1>7. StoreBounds'
  BY <1>5, <1>6, PushWrites, StoreBoundsGrow DEF storeVars, Bounds, StoreBounds, Valid, Ids
<1>8. Holds(t)'  BY <1>2, <1>4, <1>5 DEF Holds
<1>9. TabBounds(t)'
  <2>1. WorkerBounds(worker[t])'
    BY <1>2, <1>4, <1>6, WorkerGrows DEF TabBounds, WorkerBounds, Valid, Ids
  <2>2. \A row \in Rows : -pool[t][row] <= head' /\ pool[t][row] <= lastId'
    BY <1>2, <1>6, ValidGrows DEF TabBounds, Types, TabTypes
  <2>3. head \in Nat /\ head' \in Nat /\ head <= head' /\ lastId' = lastId
    BY <1>5, <1>6 DEF Grows, Types, StoreTypes, storeVars
  <2>4. page[t] # <<>> => -page[t][1].value <= head' /\ page[t][1].value <= lastId'
                          /\ page[t][1].seen <= head'
    <3>1. page[t] # <<>> => page[t][1].value \in Int /\ page[t][1].seen \in Nat
      BY PageIs DEF Fetched
    <3> QED BY <1>2, <1>6, <2>3, <3>1, ValidGrows DEF TabBounds
  <2> QED BY <1>2, <1>5, <2>1, <2>2, <2>3, <2>4 DEF TabBounds, Valid, Ids
<1> QED BY <1>7, <1>8, <1>9, OwnStep DEF Acts, Work

\* A worker that ends its drain or its pull is idle, or pulls.
LEMMA EndBounds ==
    ASSUME Types, Types', Bounds, NEW t \in Tabs, worker'[t] \in {Idle, [Idle EXCEPT !.pc = "pull"]}
    PROVE  WorkerBounds(worker[t])' /\ Holds(t)'
<1> DEFINE w == worker'[t]
<1>1. w.pc \in {"idle", "pull"} /\ w.work = {} /\ w.got = <<>> /\ w.seen = 0 /\ w.next = 0  BY DEF Idle
<1>2. head' \in Nat  BY DEF Types, StoreTypes
<1>3. DOMAIN w.got = {}  BY <1>1
<1> QED BY <1>1, <1>2, <1>3 DEF WorkerBounds, Holds

LEMMA EndDrainBounds ==
    ASSUME Types, Types', Bounds, Holding, NEW t \in Tabs, EndDrain(t) PROVE Bounds' /\ Holding'
<1>1. worker[t] \in Workers /\ WorkerBounds(worker[t])
  BY DEF Types, TabTypes, Bounds, TabBounds
<1>2. CASE GoTo(t, "pull") /\ UNCHANGED lock
  <2>1. worker'[t] = [worker[t] EXCEPT !.pc = "pull"]  BY <1>2 DEF GoTo, Types, TabTypes
  <2>2. WorkerBounds(worker[t])'
    BY <1>1, <2>1 DEF WorkerBounds, Valid, Ids, Workers, EndDrain, serverVars, storeVars
  <2>3. Holds(t)'  BY <1>1, <2>1 DEF Holds, Workers
  <2> QED BY <2>2, <2>3, WorkerStep DEF EndDrain, Acts, Work, histVars
<1>3. CASE Become(t, IF worker[t].due THEN [Idle EXCEPT !.pc = "pull"] ELSE Idle)
  <2>1. worker'[t] \in {Idle, [Idle EXCEPT !.pc = "pull"]}  BY <1>3 DEF Become, Types, TabTypes
  <2> QED BY <2>1, EndBounds, WorkerStep DEF EndDrain, Acts, Work, histVars
<1> QED BY <1>2, <1>3 DEF EndDrain

LEMMA PullBounds ==
    ASSUME Types, Types', Bounds, Holding, NEW t \in Tabs, Pull(t) PROVE Bounds' /\ Holding'
<1> DEFINE got == [r \in {x \in Rows : changed[x] > cursor} |-> server[r]]
<1>1. worker[t] \in Workers /\ WorkerBounds(worker[t]) /\ Holds(t)
  BY DEF Types, TabTypes, Bounds, TabBounds, Holding
<1>2. CASE Become(t, [worker[t] EXCEPT !.pc = "commit", !.seen = cursor, !.next = head, !.got = got])
           /\ UNCHANGED <<lock, trouble>>
  <2>1. worker'[t] = [worker[t] EXCEPT !.pc = "commit", !.seen = cursor, !.next = head, !.got = got]
    BY <1>2 DEF Become, Types, TabTypes
  <2>2. \A r \in DOMAIN got : Valid(got[r])  BY DEF Bounds, StoreBounds
  <2>3. head \in Nat /\ cursor <= head  BY DEF Bounds, StoreBounds, Types, StoreTypes
  <2> HIDE DEF got
  <2>4. WorkerBounds(worker[t])'
    BY <1>1, <2>1, <2>2, <2>3 DEF WorkerBounds, Valid, Ids, Workers, Pull, serverVars, storeVars
  <2>5. Holds(t)'  BY <1>1, <2>1 DEF Holds, Workers
  <2> QED BY <2>4, <2>5, WorkerStep, Zenon DEF Pull, Acts, Work, histVars
<1>3. CASE EndPull(t)
  <2>1. worker'[t] \in {Idle, [Idle EXCEPT !.pc = "pull"]}
    BY <1>3 DEF EndPull, Become, Types, TabTypes
  <2> QED BY <2>1, EndBounds, WorkerStep, Zenon DEF Pull, Acts, Work, histVars
<1> QED BY <1>2, <1>3 DEF Pull

\* What a got row does to a row of the store or of a pool.
LEMMA OverBounds ==
    ASSUME Types, NEW values \in [Rows -> Int], NEW g \in Gots, \A row \in Rows : Valid(values[row]),
           \A row \in DOMAIN g : Valid(g[row])
    PROVE  \A row \in Rows : Valid(Over(values, g)[row])
BY DEF Over

LEMMA CommitBounds ==
    ASSUME Types, Types', Bounds, Holding, NEW t \in Tabs, Commit(t) PROVE Bounds' /\ Holding'
<1> DEFINE w == worker[t]
<1>1. w \in Workers /\ w.got \in Gots /\ WorkerBounds(w) /\ TabBounds(t) /\ StoreBounds
  BY DEF Types, TabTypes, Workers, Bounds, TabBounds
<1>2. worker'[t] \in {Idle, [Idle EXCEPT !.pc = "pull"]}
  BY DEF Commit, EndPull, Become, Types, TabTypes
<1>3. UNCHANGED <<serverVars, journal, lastId, repaired, page, superseded, landed>>  BY DEF Commit
<1>4. (\A row \in Rows : Valid(rows'[row])) /\ cursor' <= head
  <2>1. \/ rows' = Over(rows, w.got) /\ cursor' = w.next
        \/ UNCHANGED <<rows, cursor>>
    BY DEF Commit
  <2>2. \A row \in Rows : Valid(Over(rows, w.got)[row])
    BY <1>1, OverBounds DEF WorkerBounds, StoreBounds, Types, StoreTypes
  <2> QED BY <1>1, <2>1, <2>2 DEF WorkerBounds, StoreBounds
<1>5. \A row \in Rows : Valid(pool'[t][row])
  <2>1. \/ pool' = [pool EXCEPT ![t] = Over(@, w.got)]
        \/ UNCHANGED pool
    BY DEF Commit
  <2>2. pool \in [Tabs -> [Rows -> Int]]  BY DEF Types, TabTypes
  <2>3. \A row \in Rows : Valid(Over(pool[t], w.got)[row])
    BY <1>1, <2>2, OverBounds DEF WorkerBounds, TabBounds
  <2>4. \A row \in Rows : Valid(pool[t][row])  BY <1>1 DEF TabBounds
  <2> QED BY <2>1, <2>2, <2>3, <2>4
<1>6. StoreBounds'  BY <1>1, <1>3, <1>4 DEF StoreBounds, Valid, Ids, serverVars
<1>7. WorkerBounds(worker[t])' /\ Holds(t)'  BY <1>2, EndBounds
<1>8. TabBounds(t)'  BY <1>1, <1>3, <1>5, <1>7 DEF TabBounds, Valid, Ids, serverVars
<1> QED BY <1>6, <1>7, <1>8, OwnStep DEF Acts, Work

\* Rows written unchecked are bounded as the rows they are.
LEMMA UncheckedBounds ==
    ASSUME Types, Bounds, NEW t \in Tabs, NEW g \in Gots, \A row \in DOMAIN g : Valid(g[row]),
           NEW seen, Unchecked(t, g, seen)
    PROVE  \A row \in Rows : Valid(rows'[row]) /\ Valid(pool'[t][row])
<1>1. rows \in [Rows -> Int] /\ pool \in [Tabs -> [Rows -> Int]]  BY DEF Types, StoreTypes, TabTypes
<1>2. \A row \in Rows : Valid(rows[row]) /\ Valid(pool[t][row])  BY DEF Bounds, StoreBounds, TabBounds
<1>3. \A row \in Rows : Valid(Over(rows, g)[row]) /\ Valid(Over(pool[t], g)[row])
  BY <1>1, <1>2, OverBounds
<1>4. rows' = Over(rows, g) /\ pool'[t] = Over(pool[t], g)  BY <1>1 DEF Unchecked
<1> QED BY <1>3, <1>4

\* A step that writes rows and nothing else of the store.
LEMMA RowsStep ==
    ASSUME Types, Types', Bounds, Holding, NEW t \in Tabs, Acts(t), Holds(t)', WorkerBounds(worker[t])',
           UNCHANGED <<serverVars, cursor, journal, lastId, superseded, landed, page>>,
           \A row \in Rows : Valid(rows'[row]) /\ Valid(pool'[t][row]), repaired'[t] \subseteq Ids
    PROVE  Bounds' /\ Holding'
<1>1. StoreBounds'  BY DEF Bounds, StoreBounds, serverVars, Valid, Ids
<1>2. TabBounds(t)'  BY DEF Bounds, TabBounds, serverVars, Valid, Ids
<1> QED BY <1>1, <1>2, OwnStep

LEMMA CreatedBounds ==
    ASSUME Types, Types', Bounds, Holding, NEW t \in Tabs, Created(t) PROVE Bounds' /\ Holding'
<1> DEFINE g == Admitted(t, worker[t].got)
<1>1. worker[t] \in Workers /\ worker[t].got \in Gots /\ WorkerBounds(worker[t]) /\ lock = t
      /\ lock' = lock /\ repaired[t] \subseteq Ids /\ UNCHANGED repaired
  BY DEF Types, TabTypes, Workers, Bounds, TabBounds, Holding, Holds, Created
<1>2. g \in Gots /\ \A row \in DOMAIN g : Valid(g[row])
  BY <1>1, AdmittedType DEF Admitted, WorkerBounds
<1>3. \A row \in Rows : Valid(rows'[row]) /\ Valid(pool'[t][row])
  BY <1>2, UncheckedBounds DEF Created
<1>4. worker'[t] = [worker[t] EXCEPT !.pc = "repair", !.got = <<>>, !.seen = 0]
  BY DEF Created, Become, Types, TabTypes
<1>5. head' \in Nat /\ UNCHANGED <<head, lastId>>  BY DEF Types, StoreTypes, Created, serverVars
<1>6. WorkerBounds(worker[t])'
  <2>1. DOMAIN <<>> = {}  OBVIOUS
  <2> QED BY <1>1, <1>4, <1>5, <2>1 DEF WorkerBounds, Valid, Ids, Workers
<1>7. Holds(t)'  BY <1>1, <1>4 DEF Holds, Workers
<1> QED BY <1>1, <1>3, <1>6, <1>7, RowsStep, Zenon DEF Created, Acts, Work

LEMMA FixBounds ==
    ASSUME Types, Types', Bounds, Holding, NEW t \in Tabs, Fix(t) PROVE Bounds' /\ Holding'
<1> DEFINE g == worker[t].got
<1>1. worker[t] \in Workers /\ g \in Gots /\ WorkerBounds(worker[t]) /\ lock = t
      /\ lock' = lock /\ repaired[t] \subseteq Ids /\ worker[t].id \in Ids
  BY DEF Types, TabTypes, Workers, Bounds, TabBounds, WorkerBounds, Holding, Holds, Fix
<1>2. \A row \in DOMAIN g : Valid(g[row])  BY <1>1 DEF WorkerBounds
<1>3. \A row \in Rows : Valid(rows'[row]) /\ Valid(pool'[t][row])
  BY <1>1, <1>2, UncheckedBounds DEF Fix
<1>4. worker'[t] = [worker[t] EXCEPT !.pc = "repair", !.got = <<>>, !.seen = 0, !.id = 0]
  BY DEF Fix, Become, Types, TabTypes
<1>5. head' \in Nat /\ UNCHANGED <<head, lastId>>  BY DEF Types, StoreTypes, Fix, serverVars
<1>6. WorkerBounds(worker[t])'
  <2>1. DOMAIN <<>> = {}  OBVIOUS
  <2> QED BY <1>1, <1>4, <1>5, <2>1 DEF WorkerBounds, Valid, Ids, Workers
<1>7. Holds(t)'  BY <1>1, <1>4 DEF Holds, Workers
<1>8. repaired'[t] \subseteq Ids  BY <1>1 DEF Fix, Types, TabTypes
<1> QED BY <1>3, <1>6, <1>7, <1>8, RowsStep, Zenon DEF Fix, Acts, Work

LEMMA WritePageBounds ==
    ASSUME Types, Types', Bounds, Holding, NEW t \in Tabs, WritePage(t) PROVE Bounds' /\ Holding'
<1> DEFINE g == worker[t].got
<1>1. g \in Gots /\ repaired'[t] \subseteq Ids /\ \A row \in DOMAIN g : Valid(g[row])
  BY DEF Types, TabTypes, Workers, Bounds, TabBounds, WorkerBounds, WritePage
<1>2. \A row \in Rows : Valid(rows'[row]) /\ Valid(pool'[t][row])
  BY <1>1, UncheckedBounds DEF WritePage
<1>3. worker'[t] = [Idle EXCEPT !.pc = "drain"]  BY DEF WritePage, Become, Types, TabTypes
<1>4. worker'[t].pc = "drain" /\ worker'[t].work = {} /\ worker'[t].got = <<>> /\ worker'[t].seen = 0
      /\ worker'[t].next = 0
  BY <1>3 DEF Idle
<1>5. head' \in Nat  BY DEF Types, StoreTypes
<1>6. DOMAIN worker'[t].got = {}  BY <1>4
<1>7. WorkerBounds(worker[t])' /\ Holds(t)'  BY <1>4, <1>5, <1>6 DEF WorkerBounds, Holds
<1> QED BY <1>1, <1>2, <1>7, RowsStep DEF WritePage, Acts, Work

\* Going to drain changes nothing that is bounded.
LEMMA DrainNext ==
    ASSUME Types, Types', Bounds, Grows, NEW t \in Tabs, GoTo(t, "drain")
    PROVE  WorkerBounds(worker[t])' /\ Holds(t)'
<1>1. worker[t] \in Workers /\ WorkerBounds(worker[t])  BY DEF Types, TabTypes, Bounds, TabBounds
<1>2. worker'[t] = [worker[t] EXCEPT !.pc = "drain"]  BY DEF GoTo, Types, TabTypes
<1>3. /\ worker'[t].pc = "drain" /\ worker'[t].work = worker[t].work /\ worker'[t].got = worker[t].got
      /\ worker'[t].seen = worker[t].seen /\ worker'[t].next = worker[t].next
  BY <1>1, <1>2 DEF Workers
<1> QED BY <1>1, <1>3, WorkerGrows DEF WorkerBounds, Valid, Ids, Holds

LEMMA RemoveLocalBounds ==
    ASSUME Types, Types', Bounds, Holding, NEW t \in Tabs, NEW row \in Rows, RemoveLocal(t, row)
    PROVE  Bounds' /\ Holding'
<1>1. head \in Nat /\ lastId \in Nat /\ UNCHANGED <<head, lastId>>
  BY WebAssumption DEF Types, StoreTypes, RemoveLocal, serverVars
<1>2. Grows  BY <1>1 DEF Grows
<1>3. WorkerBounds(worker[t])' /\ Holds(t)'  BY <1>2, DrainNext DEF RemoveLocal
<1>4. \A r \in Rows : rows'[r] \in {rows[r], 0} /\ pool'[t][r] \in {pool[t][r], 0}
  BY DEF RemoveLocal, Types, StoreTypes, TabTypes
<1>5. \A r \in Rows : Valid(rows[r]) /\ Valid(pool[t][r])  BY DEF Bounds, StoreBounds, TabBounds
<1>6. \A r \in Rows : Valid(rows'[r]) /\ Valid(pool'[t][r])  BY <1>1, <1>4, <1>5 DEF Valid
<1>7. repaired'[t] \subseteq Ids  BY DEF RemoveLocal, Bounds, TabBounds
<1> QED BY <1>3, <1>6, <1>7, RowsStep DEF RemoveLocal, Acts

LEMMA ReloadBounds ==
    ASSUME Types, Types', Bounds, Holding, NEW t \in Tabs, Reload(t) PROVE Bounds' /\ Holding'
<1>1. worker'[t] = Idle /\ page'[t] = <<>> /\ repaired'[t] = {} /\ pool'[t] = rows
  BY DEF Reload, Become, Types, TabTypes
<1>2. UNCHANGED <<serverVars, storeVars, superseded, landed>>  BY DEF Reload
<1>3. WorkerBounds(worker[t])' /\ Holds(t)'  BY <1>1, EndBounds
<1>4. StoreBounds'  BY <1>2 DEF Bounds, StoreBounds, serverVars, storeVars, Valid, Ids
<1>5. TabBounds(t)'
  BY <1>1, <1>2, <1>3 DEF Bounds, StoreBounds, TabBounds, serverVars, storeVars, Valid, Ids
<1> QED BY <1>3, <1>4, <1>5, OwnStep DEF Acts

LEMMA FetchPageBounds ==
    ASSUME Types, Types', Bounds, Holding, NEW t \in Tabs, NEW row \in Rows, FetchPage(t, row)
    PROVE  Bounds' /\ Holding'
<1>1. page'[t] = <<[row |-> row, value |-> server[row], seen |-> cursor]>>
  BY DEF FetchPage, Types, TabTypes
<1>2. UNCHANGED <<serverVars, storeVars, superseded, landed, pool, repaired, worker, lock>>
  BY DEF FetchPage, histVars
<1>3. page'[t][1].value = server[row] /\ page'[t][1].seen = cursor  BY <1>1
<1>4. StoreBounds'  BY <1>2 DEF Bounds, StoreBounds, serverVars, storeVars, Valid, Ids
<1>5. TabBounds(t)'
  BY <1>2, <1>3 DEF Bounds, StoreBounds, TabBounds, WorkerBounds, serverVars, storeVars, Valid, Ids
<1>6. Holds(t)'  BY <1>2 DEF Holding, Holds
<1> QED BY <1>4, <1>5, <1>6, OwnStep DEF Acts

LEMMA MergePageBounds ==
    ASSUME Types, Types', Bounds, Holding, NEW t \in Tabs, MergePage(t) PROVE Bounds' /\ Holding'
<1> DEFINE p == page[t][1]
<1> DEFINE got == Admitted(t, Only(p.row, Kept(t, p)))
<1>1. p \in Fetched /\ Valid(p.value) /\ p.seen <= head  BY PageIs DEF MergePage, Bounds, TabBounds
<1>2. Valid(Kept(t, p))  BY <1>1 DEF Kept, Fetched, Bounds, TabBounds
<1>3. \A r \in DOMAIN got : Valid(got[r])  BY <1>2 DEF Admitted, Only
<1>4. worker'[t] = [Idle EXCEPT !.pc = "merge", !.seen = p.seen, !.got = got]
  BY DEF MergePage, Become, Types, TabTypes
<1> HIDE DEF p, got
<1>5. /\ worker'[t].pc = "merge" /\ worker'[t].work = {} /\ worker'[t].got = got
      /\ worker'[t].seen = p.seen /\ worker'[t].next = 0
  BY <1>4 DEF Idle
<1>6. UNCHANGED <<serverVars, storeVars, superseded, landed, pool, repaired>> /\ page'[t] = <<>>
  BY DEF MergePage, histVars, Types, TabTypes
<1>7. head \in Nat  BY DEF Types, StoreTypes
<1>8. WorkerBounds(worker[t])'
  BY <1>1, <1>3, <1>5, <1>6, <1>7 DEF WorkerBounds, Valid, Ids, serverVars, storeVars
<1>9. Holds(t)'  BY <1>5 DEF Holds
<1> QED BY <1>6, <1>8, <1>9, WorkerStep DEF Acts

LEMMA CommandBounds ==
    ASSUME Types, Types', Bounds, Holding, NEW t \in Tabs, NEW row \in Rows, NEW kind \in Kinds(row),
           Command(t, row, kind)
    PROVE  Bounds' /\ Holding'
<1>1. head \in Nat /\ lastId \in Nat /\ UNCHANGED <<serverVars, cursor, repaired, page, lock, landed>>
      /\ lastId' = lastId + 1
  BY WebAssumption DEF Types, StoreTypes, Command
<1>2. Grows  BY <1>1 DEF Grows, serverVars
<1>3. WorkerBounds(worker[t])' /\ Holds(t)'  BY <1>2, DrainNext DEF Command
<1>4. \A i \in Nat : i \in 1..lastId => i \in 1..lastId'  BY <1>1
<1>5. Superseded(row, kind) \subseteq DOMAIN journal  BY DEF Superseded, Queued, Pending
<1>6. superseded' \subseteq 1..lastId'
  BY <1>1, <1>2, <1>5, StoreBoundsGrow DEF Command, Bounds
<1>7. DOMAIN journal' \subseteq 1..lastId'
  <2>1. DOMAIN journal' \subseteq DOMAIN journal \cup {lastId + 1}  BY DEF Command, With, Without
  <2> QED BY <1>1, <1>2, <2>1, StoreBoundsGrow DEF Bounds
<1>8. Effect(lastId + 1, kind) \in {0, lastId + 1}  BY DEF Effect
<1>9. \A r \in Rows : /\ rows'[r] \in {rows[r], 0, lastId + 1}
                      /\ pool'[t][r] \in {pool[t][r], 0, lastId + 1}
  <2>1. \/ UNCHANGED <<rows, pool>>
        \/ /\ rows' = [rows EXCEPT ![row] = Effect(lastId + 1, kind)]
           /\ pool' = [pool EXCEPT ![t][row] = Effect(lastId + 1, kind)]
    BY DEF Command
  <2>2. CASE UNCHANGED <<rows, pool>>  BY <2>2
  <2>3. CASE /\ rows' = [rows EXCEPT ![row] = Effect(lastId + 1, kind)]
             /\ pool' = [pool EXCEPT ![t][row] = Effect(lastId + 1, kind)]
    BY <1>8, <2>3 DEF Types, StoreTypes, TabTypes
  <2> QED BY <2>1, <2>2, <2>3
<1>10. \A r \in Rows : /\ rows[r] \in Int /\ pool[t][r] \in Int
                       /\ Valid(rows[r]) /\ Valid(pool[t][r])
  BY DEF Types, StoreTypes, TabTypes, Bounds, StoreBounds, TabBounds
<1>11. \A r \in Rows : /\ -rows'[r] <= head' /\ rows'[r] <= lastId'
                       /\ -pool'[t][r] <= head' /\ pool'[t][r] <= lastId'
  BY <1>1, <1>9, <1>10 DEF Valid, serverVars
<1>12. StoreBounds'
  BY <1>1, <1>2, <1>6, <1>7, <1>11, StoreBoundsGrow DEF Bounds, StoreBounds, Valid, Ids, serverVars
<1>13. TabBounds(t)'
  <2>1. page[t] # <<>> => -page[t][1].value <= head /\ page[t][1].value <= lastId
                          /\ page[t][1].seen <= head
    BY DEF Bounds, TabBounds, Valid
  <2>2. page[t] # <<>> => page[t][1].value \in Int  BY PageIs DEF Fetched
  <2>3. repaired[t] \subseteq 1..lastId'  BY <1>4 DEF Bounds, TabBounds, Ids, Types, TabTypes
  <2>4. page[t] # <<>> => page[t][1].value <= lastId'  BY <1>1, <2>1, <2>2
  <2> QED BY <1>1, <1>3, <1>11, <2>1, <2>3, <2>4 DEF TabBounds, Valid, Ids, serverVars
<1> QED BY <1>3, <1>12, <1>13, OwnStep DEF Acts

LEMMA SettleBounds ==
    ASSUME Types, Types', Bounds, Holding, NEW t \in Tabs, Settle(t) PROVE Bounds' /\ Holding'
<1>0. PICK op \in worker[t].work, rest \in SUBSET worker[t].work, need \in BOOLEAN,
           seen \in {cursor, worker[t].seen} :
         \E got \in {worker[t].got, More(t, op)} : Settled(t, op, rest, need, seen, got)
  BY SettleIs
<1>1. PICK got \in {worker[t].got, More(t, op)} : Settled(t, op, rest, need, seen, got)  BY <1>0
<1>2. worker[t] \in Workers /\ TabBounds(t) /\ WorkerBounds(worker[t]) /\ StoreBounds /\ lock = t
  BY <1>1 DEF Types, TabTypes, Bounds, TabBounds, Holding, Holds, Settled
<1>3. UNCHANGED <<serverVars, rows, cursor, lastId, pool, repaired, page, lock, superseded, landed>>
  BY <1>1 DEF Settled, histVars
<1>4. worker'[t] = [worker[t] EXCEPT !.pc = IF rest = {} THEN "created" ELSE "push", !.work = rest,
         !.outcome = "none", !.id = 0, !.need = need, !.got = got, !.seen = seen]
  BY <1>1 DEF Settled, Become, Types, TabTypes
<1>5. /\ worker'[t].pc = IF rest = {} THEN "created" ELSE "push"
      /\ worker'[t].work = rest /\ worker'[t].got = got /\ worker'[t].seen = seen
      /\ worker'[t].next = worker[t].next
  BY <1>2, <1>4 DEF Workers
<1>6. op.id \in 1..lastId /\ head \in Nat /\ lastId \in Nat
  BY <1>2, WebAssumption DEF WorkerBounds, Ids, Types, StoreTypes
<1>7. \A r \in DOMAIN got : Valid(got[r])
  <2>1. Valid(op.id)  BY <1>6 DEF Valid
  <2> QED BY <1>2, <2>1 DEF More, WorkerBounds
<1>8. WorkerBounds(worker[t])'
  BY <1>2, <1>3, <1>5, <1>7 DEF WorkerBounds, StoreBounds, Valid, Ids, serverVars
<1>9. Holds(t)'  BY <1>2, <1>3, <1>5 DEF Holds
<1>10. DOMAIN journal' \subseteq Ids  BY <1>1, <1>2, <1>6 DEF Settled, With, Without, StoreBounds, Ids
<1>11. StoreBounds'  BY <1>2, <1>3, <1>10 DEF StoreBounds, Valid, Ids, serverVars
<1>12. TabBounds(t)'  BY <1>2, <1>3, <1>8 DEF TabBounds, Valid, Ids, serverVars
<1> QED BY <1>9, <1>11, <1>12, OwnStep DEF Acts, Work

LEMMA InitBounds == ASSUME Init, Types PROVE Bounds /\ Holding
<1>1. head \in Nat /\ lastId = 0 /\ cursor = head /\ DOMAIN journal = {} /\ superseded = {} /\ landed = {}
  BY WebAssumption DEF Init
<1>2. \A row \in Rows : changed[row] \in {0, 1} /\ server[row] = -changed[row] /\ rows[row] = server[row]
  BY DEF Init
<1>3. 1 <= head  BY WebAssumption DEF Init
<1>4. \A row \in Rows : changed[row] <= head /\ Valid(server[row]) /\ Valid(rows[row])
  BY <1>1, <1>2, <1>3 DEF Valid
<1>5. \A t \in Tabs : pool[t] = rows /\ page[t] = <<>> /\ repaired[t] = {} /\ worker[t] = Idle
  BY DEF Init
<1>6. StoreBounds  BY <1>1, <1>4 DEF StoreBounds
<1>7. ASSUME NEW t \in Tabs PROVE TabBounds(t) /\ Holds(t)
  <2>1. pool[t] = rows /\ page[t] = <<>> /\ repaired[t] = {} /\ worker[t] = Idle  BY <1>5
  <2> HIDE DEF Types, Init
  <2> QED BY <1>4, <2>1, IdleBounds DEF TabBounds, Holds
<1> QED BY <1>6, <1>7 DEF Bounds, Holding

TypeInv == Types /\ Bounds /\ Holding

LEMMA StepInv == ASSUME TypeInv, [Next]_vars PROVE TypeInv'
<1> USE DEF TypeInv
<1>1. Types'  BY StepTypes
<1>2. CASE UNCHANGED vars
  BY <1>1, <1>2 DEF vars, serverVars, storeVars, tabVars, histVars, Bounds, StoreBounds, TabBounds,
                    WorkerBounds, Holding, Holds, Valid, Ids
<1>3. ASSUME NEW t \in Tabs, Work(t) PROVE Bounds' /\ Holding'
  BY <1>1, <1>3, DrainBounds, PushBounds, SettleBounds, CreatedBounds, RepairBounds, FixBounds,
     EndDrainBounds, PullBounds, CommitBounds, WritePageBounds DEF Work
<1>4. ASSUME NEW row \in Rows, Remote(row) PROVE Bounds' /\ Holding'
  <2>1. Holding'  BY <1>4 DEF Remote, tabVars, Holding, Holds
  <2> QED BY <1>1, <1>4, <2>1, RemoteBounds
<1> QED BY <1>1, <1>2, <1>3, <1>4, CommandBounds, TickBounds, RemoveLocalBounds, ReloadBounds,
           FetchPageBounds, MergePageBounds DEF Next

LEMMA TypeInvAlways == Spec => []TypeInv
<1>1. Init => TypeInv  BY InitTypes, InitBounds DEF TypeInv
<1>2. TypeInv /\ [Next]_vars => TypeInv'  BY StepInv
<1> QED BY <1>1, <1>2, PTL DEF Spec

LEMMA TypeInvTypes == ASSUME TypeInv PROVE TypeOK
<1>1. head \in Nat /\ lastId \in Nat /\ cursor \in Nat  BY WebAssumption DEF TypeInv, Types, StoreTypes
<1>2. \A row \in Rows : server[row] \in (-head)..lastId /\ rows[row] \in (-head)..lastId
                         /\ changed[row] \in 0..head
  BY <1>1 DEF TypeInv, Types, StoreTypes, Bounds, StoreBounds, Valid
<1>3. cursor \in 0..head /\ DOMAIN journal \subseteq Ids
  BY <1>1 DEF TypeInv, Bounds, StoreBounds
<1>4. ASSUME NEW t \in Tabs
      PROVE  /\ worker[t].pc \in Phases /\ unsubscribed[t] \subseteq Podcasts /\ repaired[t] \subseteq Ids
             /\ worker[t].pc \in {"push", "settle"} => worker[t].work # {} /\ lock = t
             /\ worker[t].pc \in {"created", "repair", "fix", "end"} => lock = t
  BY DEF TypeInv, Types, TabTypes, Workers, Bounds, TabBounds, Holding, Holds
<1> QED BY <1>2, <1>3, <1>4 DEF TypeOK, TypeInv, Types, StoreTypes, TabTypes, HistTypes, Bounds, StoreBounds

\* Every variable keeps its type: values and operations are of writes that have happened, and only
\* the holder of the drain lock sends, settles or repairs (network.rs drain_outbox).
THEOREM TabsTyped == Spec => []TypeOK
<1>1. TypeInv => TypeOK  BY TypeInvTypes
<1> QED BY <1>1, TypeInvAlways, PTL

\* Tabs that pull at once do not take the shared cursor back: a commit starts from the cursor it
\* finds (sync_store.rs commit_changes).
THEOREM CursorNeverBack == Spec => CursorAdvances
<1>1. ASSUME TypeInv, [Next]_vars PROVE cursor' >= cursor
  <2>1. cursor \in Nat  BY <1>1 DEF TypeInv, Types, StoreTypes
  <2>2. CASE UNCHANGED cursor  BY <2>1, <2>2
  <2>3. ASSUME NEW t \in Tabs, Commit(t) PROVE cursor' >= cursor
    <3>1. worker[t].seen <= worker[t].next /\ worker[t].next \in Nat
      BY <1>1, <2>3 DEF Commit, TypeInv, Types, TabTypes, Workers, Bounds, TabBounds, WorkerBounds
    <3>2. UNCHANGED cursor \/ (cursor = worker[t].seen /\ cursor' = worker[t].next)
      BY <2>3 DEF Commit, MayCommit
    <3> QED BY <2>1, <3>1, <3>2
  <2>4. ASSUME NEW t \in Tabs, Work(t), ~Commit(t) PROVE UNCHANGED cursor
    BY <2>4, Zenon DEF Work, Drain, Push, Settle, Created, Repair, Fix, EndDrain, Pull, WritePage, storeVars
  <2>5. ASSUME NEW t \in Tabs, Tick(t) \/ Reload(t) \/ MergePage(t) PROVE UNCHANGED cursor
    BY <2>5 DEF Tick, Reload, MergePage, storeVars
  <2>6. ASSUME NEW t \in Tabs, NEW row \in Rows, RemoveLocal(t, row) \/ FetchPage(t, row)
        PROVE  UNCHANGED cursor
    BY <2>6 DEF RemoveLocal, FetchPage, storeVars
  <2>7. ASSUME NEW t \in Tabs, NEW row \in Rows, NEW kind \in Kinds(row), Command(t, row, kind)
        PROVE  UNCHANGED cursor
    BY <2>7 DEF Command
  <2>8. ASSUME NEW row \in Rows, Remote(row) PROVE UNCHANGED cursor  BY <2>8 DEF Remote, storeVars
  <2>9. CASE UNCHANGED vars  BY <2>1, <2>9 DEF vars, storeVars
  <2> QED BY <1>1, <2>2, <2>3, <2>4, <2>5, <2>6, <2>7, <2>8, <2>9 DEF Next
<1> QED BY <1>1, TypeInvAlways, PTL DEF Spec, CursorAdvances

-----------------------------------------------------------------------------
\* The order of operations.

\* A tab's step that touches neither the journal nor the server, and does not send.
LEMMA QuietOrder ==
    ASSUME TypeInv, OrderInv, NEW t \in Tabs, OthersKept(t), worker'[t] = worker[t] \/ ~Sending(t)',
           UNCHANGED <<server, journal, lastId, superseded, landed>>
    PROVE  OrderInv'
<1>1. NoLostOperation'  BY DEF OrderInv, NoLostOperation, Ids
<1>2. ASSUME NEW u \in Tabs, Sending(u)' PROVE worker'[u] = worker[u] /\ Sending(u)
  BY <1>2 DEF OthersKept, Sending
<1>3. Covered'  BY <1>2 DEF OrderInv, Covered, Pending
<1>4. Low'  BY <1>2 DEF OrderInv, Low, Pending
<1> QED BY <1>1, <1>3, <1>4 DEF OrderInv

LEMMA TabFacts ==
    ASSUME TypeInv, NEW t \in Tabs
    PROVE  /\ worker[t] \in Workers
           /\ \A op \in worker[t].work : op.id \in Ids /\ op.id \in Nat /\ op.row \in Rows
           /\ Sending(t) => lock = t
BY DEF TypeInv, Types, TabTypes, Workers, Op, Bounds, TabBounds, WorkerBounds, Holding, Holds, Sending

LEMMA DrainOrder == ASSUME TypeInv, OrderInv, NEW t \in Tabs, Drain(t) PROVE OrderInv'
<1> DEFINE sent == {[id |-> id, row |-> journal[id].row, kind |-> journal[id].kind] : id \in Pending}
<1>1. OthersKept(t)  BY Alone DEF TypeInv, Acts, Work
<1>2. UNCHANGED <<server, journal, lastId, superseded, landed>>
  BY DEF Drain, serverVars, storeVars, histVars
<1>0. ASSUME GoTo(t, "end") PROVE OrderInv'
  <2>1. worker'[t].pc = "end"  BY <1>0, TabFacts DEF GoTo, Workers, TypeInv, Types, TabTypes
  <2> QED BY <1>1, <1>2, <2>1, QuietOrder DEF Sending
<1> SUFFICES ASSUME Become(t, [worker[t] EXCEPT !.pc = IF Pending = {} THEN "repair" ELSE "push",
                                             !.work = sent])
             PROVE  OrderInv'
  BY <1>0 DEF Drain
<1>3. worker'[t] = [worker[t] EXCEPT !.pc = IF Pending = {} THEN "repair" ELSE "push", !.work = sent]
  BY DEF Drain, Become, TypeInv, Types, TabTypes
<1>4. worker'[t].work = sent /\ worker'[t].pc # "settle"  BY <1>3, TabFacts DEF Workers
<1>5. \A op \in sent : op.id \in Pending /\ op.row = journal[op.id].row  OBVIOUS
<1>6. ASSUME NEW id \in Pending PROVE \E op \in sent : op.id = id
  <2> DEFINE x == [id |-> id, row |-> journal[id].row, kind |-> journal[id].kind]
  <2>1. x \in sent /\ x.id = id  OBVIOUS
  <2> HIDE DEF sent, x
  <2> QED BY <2>1
<1> HIDE DEF sent
<1>7. NoLostOperation'  BY <1>2 DEF OrderInv, NoLostOperation, Ids
<1>8. ASSUME NEW u \in Tabs, u # t PROVE worker'[u] = worker[u]  BY <1>1, <1>8 DEF OthersKept
<1>9. Covered'  BY <1>2, <1>4, <1>5, <1>6, <1>8 DEF OrderInv, Covered, Sending, Pending
<1>10. Low'  BY <1>2, <1>4, <1>5, <1>8 DEF OrderInv, Low, Sending, Pending
<1> QED BY <1>7, <1>9, <1>10 DEF OrderInv

\* A request: what the server does with the first operation that is left.
PushOf(t, op, outcome) ==
    /\ op \in worker[t].work /\ \A x \in worker[t].work : op.id <= x.id
    /\ worker[t].pc = "push" /\ Answered(t, op, outcome)
    /\ \/ Write(op.row, Effect(op.id, op.kind)) /\ landed' = landed \cup {op.id}
       \/ UNCHANGED serverVars /\ landed' = landed \cup {op.id}
       \/ UNCHANGED serverVars /\ landed' = landed /\ outcome = "retry"
    /\ UNCHANGED <<storeVars, pool, unsubscribed, repaired, page, lock, superseded, crossed, removed, author>>

LEMMA PushIs ==
    ASSUME NEW t \in Tabs, Push(t)
    PROVE  \E op \in worker[t].work : \E outcome \in {"ok", "retry", "rejected"} : PushOf(t, op, outcome)
<1>1. PICK op \in Foremost(worker[t].work) :
       \/ /\ Write(op.row, Effect(op.id, op.kind)) /\ landed' = landed \cup {op.id}
          /\ Answered(t, op, "ok") \/ Answered(t, op, "retry")
       \/ Answered(t, op, "rejected") /\ UNCHANGED serverVars /\ landed' = landed \cup {op.id}
       \/ Answered(t, op, "retry") /\ UNCHANGED <<serverVars, landed>>
  BY DEF Push
<1>2. op \in worker[t].work /\ \A x \in worker[t].work : op.id <= x.id  BY DEF Foremost
<1>3. worker[t].pc = "push"
      /\ UNCHANGED <<storeVars, pool, unsubscribed, repaired, page, lock, superseded, crossed, removed, author>>
  BY DEF Push
<1>4. CASE Write(op.row, Effect(op.id, op.kind)) /\ landed' = landed \cup {op.id} /\ Answered(t, op, "ok")
  <2>1. PushOf(t, op, "ok")  BY <1>2, <1>3, <1>4 DEF PushOf
  <2> QED BY <1>2, <2>1
<1>5. CASE Write(op.row, Effect(op.id, op.kind)) /\ landed' = landed \cup {op.id} /\ Answered(t, op, "retry")
  <2>1. PushOf(t, op, "retry")  BY <1>2, <1>3, <1>5 DEF PushOf
  <2> QED BY <1>2, <2>1
<1>6. CASE Answered(t, op, "rejected") /\ UNCHANGED serverVars /\ landed' = landed \cup {op.id}
  <2>1. PushOf(t, op, "rejected")  BY <1>2, <1>3, <1>6 DEF PushOf
  <2> QED BY <1>2, <2>1
<1>7. CASE Answered(t, op, "retry") /\ UNCHANGED <<serverVars, landed>>
  <2>1. PushOf(t, op, "retry")  BY <1>2, <1>3, <1>7 DEF PushOf
  <2> QED BY <1>2, <2>1
<1> QED BY <1>1, <1>4, <1>5, <1>6, <1>7

\* The operation sent is the oldest that is pending.
LEMMA OldestFirst ==
    ASSUME TypeInv, OrderInv, NEW t \in Tabs, NEW op \in worker[t].work, NEW outcome, PushOf(t, op, outcome)
    PROVE  \A id \in Pending : op.id <= id
<1>1. Sending(t)  BY DEF PushOf, Sending
<1>2. \A id \in Pending : \/ \E x \in worker[t].work : x.id = id
                          \/ op.id < id
  BY <1>1 DEF OrderInv, Covered
<1>3. \A id \in Pending : id \in Nat  BY DEF Pending, TypeInv, Types, StoreTypes
<1>4. op.id \in Nat  BY TabFacts
<1>5. \A x \in worker[t].work : op.id <= x.id  BY DEF PushOf
<1> QED BY <1>2, <1>3, <1>4, <1>5

LEMMA ServerAfter ==
    ASSUME TypeInv, OrderInv, NEW t \in Tabs, NEW op \in worker[t].work, NEW outcome, PushOf(t, op, outcome)
    PROVE  \A row \in Rows : \/ server'[row] = server[row]
                             \/ row = op.row /\ server'[row] \in {0, op.id}
<1>1. server \in [Rows -> Int]  BY DEF TypeInv, Types, StoreTypes
<1>2. Effect(op.id, op.kind) \in {0, op.id}  BY DEF Effect
<1>3. UNCHANGED serverVars \/ Write(op.row, Effect(op.id, op.kind))  BY DEF PushOf
<1>4. CASE UNCHANGED serverVars  BY <1>4 DEF serverVars
<1>5. CASE server' = [server EXCEPT ![op.row] = Effect(op.id, op.kind)]  BY <1>1, <1>2, <1>5
<1> QED BY <1>3, <1>4, <1>5 DEF Write

LEMMA PushOrder == ASSUME TypeInv, OrderInv, NEW t \in Tabs, Push(t) PROVE OrderInv'
<1>1. PICK op \in worker[t].work, outcome \in {"ok", "retry", "rejected"} : PushOf(t, op, outcome)
  BY PushIs
<1>2. OthersKept(t) /\ UNCHANGED <<journal, lastId, superseded, lock>>
  BY <1>1, Alone DEF PushOf, storeVars, TypeInv, Acts, Work
<1>3. worker'[t] = [worker[t] EXCEPT !.pc = "settle", !.outcome = outcome, !.id = op.id]
  BY <1>1 DEF PushOf, Answered, TypeInv, Types, TabTypes
<1>4. /\ worker'[t].pc = "settle" /\ worker'[t].work = worker[t].work /\ worker'[t].outcome = outcome
      /\ worker'[t].id = op.id
  BY <1>3, TabFacts DEF Workers
<1>5. Sending(t) /\ lock = t  BY <1>1, TabFacts DEF PushOf, Sending
<1>6. ASSUME NEW u \in Tabs, u # t PROVE ~Sending(u)'
  <2>1. ~Sending(u)  BY <1>5, <1>6, TabFacts
  <2> QED BY <1>2, <1>6, <2>1 DEF OthersKept, Sending
<1>7. op.id \in landed' \/ outcome = "retry"  BY <1>1 DEF PushOf
<1>8. landed \subseteq landed'  BY <1>1 DEF PushOf
<1>9. NoLostOperation'  BY <1>2, <1>8 DEF OrderInv, NoLostOperation, Ids
<1>10. Covered'
  BY <1>2, <1>4, <1>5, <1>6, <1>7, <1>8 DEF OrderInv, Covered, Pending, Sending
<1>11. \A row \in Rows : \/ server'[row] = server[row]
                         \/ row = op.row /\ server'[row] \in {0, op.id}
  BY <1>1, ServerAfter
<1>12. \A id \in Pending : id \in Nat /\ op.id <= id /\ journal[id].row \in Rows
                           /\ server[journal[id].row] <= id
  BY <1>1, OldestFirst DEF Pending, TypeInv, Types, StoreTypes, OrderInv, Low
<1>13. \A x \in worker[t].work : x.id \in Nat /\ op.id <= x.id /\ x.row \in Rows /\ server[x.row] <= x.id
  BY <1>1, <1>5, TabFacts DEF PushOf, OrderInv, Low
<1>14. \A id \in Pending : server'[journal[id].row] <= id  BY <1>11, <1>12
<1>15. \A x \in worker[t].work : server'[x.row] <= x.id  BY <1>11, <1>13
<1>16. Low'  BY <1>2, <1>4, <1>6, <1>14, <1>15 DEF Low, Pending
<1> QED BY <1>9, <1>10, <1>16 DEF OrderInv

\* What the journal's answer leaves pending.
LEMMA SettlePending ==
    ASSUME TypeInv, OrderInv, NEW t \in Tabs, NEW op \in worker[t].work, NEW rest, NEW need, NEW seen,
           NEW got, Settled(t, op, rest, need, seen, got)
    PROVE  /\ \A id \in Pending' \ {op.id} : id \in Pending /\ journal'[id] = journal[id]
           /\ \A id \in Pending \ {op.id} : id \in Pending'
           /\ op.id \in Pending' => worker[t].outcome = "retry" /\ journal'[op.id].row = op.row
           /\ DOMAIN journal \ {op.id} \subseteq DOMAIN journal'
           /\ op.id \in DOMAIN journal' \/ worker[t].outcome = "ok"
<1>1. op.id \in Nat  BY TabFacts
<1>2. worker[t].outcome \in {"ok", "retry", "rejected"}
  BY TabFacts DEF Settled, Sending, OrderInv, Covered, Workers
<1>3. CASE worker[t].outcome = "ok"
  <2>1. journal' = Without({op.id})  BY <1>3 DEF Settled, Done
  <2> QED BY <1>3, <2>1 DEF Without, Pending
<1>4. CASE worker[t].outcome # "ok"
  <2> DEFINE entry == [row |-> op.row, kind |-> op.kind, rejected |-> worker[t].outcome = "rejected"]
  <2>1. journal' = With(journal, op.id, entry)  BY <1>4 DEF Settled, Done
  <2>2. entry.row = op.row /\ (~entry.rejected => worker[t].outcome # "rejected")  OBVIOUS
  <2> HIDE DEF entry
  <2> QED BY <1>2, <1>4, <2>1, <2>2 DEF With, Pending
<1> QED BY <1>3, <1>4

LEMMA SettleOrder == ASSUME TypeInv, OrderInv, NEW t \in Tabs, Settle(t) PROVE OrderInv'
<1>0. PICK op \in worker[t].work, rest \in SUBSET worker[t].work, need \in BOOLEAN,
           seen \in {cursor, worker[t].seen} :
         \E got \in {worker[t].got, More(t, op)} : Settled(t, op, rest, need, seen, got)
  BY SettleIs DEF TypeInv
<1>1. PICK got \in {worker[t].got, More(t, op)} : Settled(t, op, rest, need, seen, got)  BY <1>0
<1>2. OthersKept(t) /\ UNCHANGED <<server, lastId, superseded, landed, lock>>
  BY <1>1, Alone DEF Settled, serverVars, histVars, TypeInv, Acts, Work
<1>3. worker'[t] = [worker[t] EXCEPT !.pc = IF rest = {} THEN "created" ELSE "push", !.work = rest,
         !.outcome = "none", !.id = 0, !.need = need, !.got = got, !.seen = seen]
  BY <1>1 DEF Settled, Become, TypeInv, Types, TabTypes
<1>4. worker'[t].pc \in {"created", "push"} /\ worker'[t].work = rest /\ (rest = {} => ~Sending(t)')
  BY <1>3, TabFacts DEF Workers, Sending
<1>5. Sending(t) /\ lock = t  BY <1>1, TabFacts DEF Settled, Sending
<1>6. ASSUME NEW u \in Tabs, u # t PROVE ~Sending(u)'
  <2>1. ~Sending(u)  BY <1>5, <1>6, TabFacts
  <2> QED BY <1>2, <1>6, <2>1 DEF OthersKept, Sending
<1>7. worker[t].outcome # "none" /\ (worker[t].outcome # "retry" => op.id \in landed)
  BY <1>1, <1>5 DEF Settled, OrderInv, Covered
<1>8. rest # {} => worker[t].outcome # "retry" /\ rest = {x \in worker[t].work : x.id # op.id}
  BY <1>1 DEF Settled
<1>9. NoLostOperation'
  BY <1>1, <1>2, <1>7, SettlePending DEF OrderInv, NoLostOperation, Ids
<1>10. ASSUME rest # {}
       PROVE  /\ \A id \in Pending' : (\E x \in rest : x.id = id) \/ (\A x \in rest : x.id < id)
              /\ \A x \in rest : x.id \in Pending' \cup superseded \cup landed
  <2>1. \A id \in Pending' : id \in Pending /\ id # op.id  BY <1>1, <1>8, <1>10, SettlePending
  <2>2. \A id \in Pending : (\E x \in worker[t].work : x.id = id) \/ (\A x \in worker[t].work : x.id < id)
    BY <1>5 DEF OrderInv, Covered
  <2>3. \A x \in worker[t].work : x.id \in Pending \cup superseded \cup landed
    BY <1>5 DEF OrderInv, Covered
  <2>4. \A id \in Pending \ {op.id} : id \in Pending'  BY <1>1, SettlePending
  <2> QED BY <1>8, <1>10, <2>1, <2>2, <2>3, <2>4
<1>11. Covered'  BY <1>2, <1>4, <1>6, <1>10 DEF Covered, Sending
<1>12. \A id \in Pending' : server[journal'[id].row] <= id
  <2>1. server[op.row] <= op.id  BY <1>5 DEF OrderInv, Low
  <2>2. \A id \in Pending : server[journal[id].row] <= id  BY DEF OrderInv, Low
  <2> QED BY <1>1, <2>1, <2>2, SettlePending
<1>13. \A x \in rest : server[x.row] <= x.id  BY <1>5 DEF OrderInv, Low
<1>14. Low'  BY <1>2, <1>4, <1>6, <1>12, <1>13 DEF Low
<1> QED BY <1>9, <1>11, <1>14 DEF OrderInv

\* A command's entry is the newest; what it replaces is on record.
LEMMA CommandPending ==
    ASSUME TypeInv, NEW t \in Tabs, NEW row \in Rows, NEW kind \in Kinds(row), Command(t, row, kind)
    PROVE  /\ Pending' = (Pending \ Superseded(row, kind)) \cup {lastId + 1}
           /\ \A id \in Pending \ Superseded(row, kind) : journal'[id] = journal[id]
           /\ journal'[lastId + 1].row = row
           /\ DOMAIN journal' = (DOMAIN journal \ Superseded(row, kind)) \cup {lastId + 1}
           /\ lastId' = lastId + 1 /\ lastId + 1 \notin DOMAIN journal
           /\ Superseded(row, kind) \subseteq Pending
           /\ superseded' = superseded \cup Superseded(row, kind) /\ UNCHANGED <<server, landed, lock>>
<1> DEFINE entry == [row |-> row, kind |-> kind, rejected |-> FALSE]
<1>1. journal' = With(Without(Superseded(row, kind)), lastId + 1, entry)  BY DEF Command
<1>2. entry.row = row /\ ~entry.rejected  OBVIOUS
<1>3. lastId \in Nat /\ \A id \in DOMAIN journal : id \in Nat /\ id <= lastId
  BY WebAssumption DEF TypeInv, Types, StoreTypes, Bounds, StoreBounds, Ids
<1>4. lastId + 1 \notin DOMAIN journal  BY <1>3
<1>5. Superseded(row, kind) \subseteq Pending  BY DEF Superseded, Queued
<1> HIDE DEF entry
<1>6. DOMAIN journal' = (DOMAIN journal \ Superseded(row, kind)) \cup {lastId + 1}
  BY <1>1 DEF With, Without
<1>7. \A id \in DOMAIN journal \ Superseded(row, kind) : journal'[id] = journal[id]
  BY <1>1, <1>4 DEF With, Without
<1>8. journal'[lastId + 1] = entry  BY <1>1 DEF With, Without
<1>9. Pending' = (Pending \ Superseded(row, kind)) \cup {lastId + 1}
  BY <1>2, <1>4, <1>6, <1>7, <1>8 DEF Pending
<1> QED BY <1>2, <1>4, <1>5, <1>6, <1>7, <1>8, <1>9 DEF Command, serverVars, Pending

LEMMA CommandOrder ==
    ASSUME TypeInv, OrderInv, NEW t \in Tabs, NEW row \in Rows, NEW kind \in Kinds(row),
           Command(t, row, kind)
    PROVE  OrderInv'
<1> DEFINE old == Superseded(row, kind)
<1>1. /\ Pending' = (Pending \ old) \cup {lastId + 1}
      /\ \A id \in Pending \ old : journal'[id] = journal[id]
      /\ journal'[lastId + 1].row = row
      /\ DOMAIN journal' = (DOMAIN journal \ old) \cup {lastId + 1}
      /\ lastId' = lastId + 1 /\ old \subseteq Pending
      /\ superseded' = superseded \cup old /\ UNCHANGED <<server, landed, lock>>
  BY CommandPending
<1> HIDE DEF old
<1>2. lastId \in Nat  BY WebAssumption DEF TypeInv, Types, StoreTypes
<1>3. OthersKept(t)  BY Alone DEF TypeInv, Acts
<1>4. worker'[t].pc = "drain"  BY TabFacts DEF Command, GoTo, Workers, TypeInv, Types, TabTypes
<1>5. ASSUME NEW u \in Tabs, Sending(u)'
      PROVE  u # t /\ worker'[u] = worker[u] /\ Sending(u)
  BY <1>3, <1>4, <1>5 DEF OthersKept, Sending
<1>6. NoLostOperation'
  <2>1. ASSUME NEW id \in 1..(lastId + 1) PROVE id \in DOMAIN journal' \cup landed' \cup superseded'
    <3>1. id = lastId + 1 \/ id \in 1..lastId  BY <1>2
    <3> QED BY <1>1, <3>1 DEF OrderInv, NoLostOperation, Ids
  <2> QED BY <1>1, <2>1 DEF NoLostOperation, Ids
<1>7. ASSUME NEW u \in Tabs, Sending(u)'
      PROVE  /\ \A id \in Pending' : \/ \E op \in worker[u].work : op.id = id
                                     \/ \A op \in worker[u].work : op.id < id
             /\ \A op \in worker[u].work : op.id \in Pending' \cup superseded' \cup landed'
  <2>1. \A op \in worker[u].work : op.id \in Nat /\ op.id <= lastId  BY <1>2, TabFacts DEF Ids
  <2>2. \A op \in worker[u].work : op.id < lastId + 1  BY <1>2, <2>1
  <2>3. \A id \in Pending : \/ \E op \in worker[u].work : op.id = id
                            \/ \A op \in worker[u].work : op.id < id
    BY <1>5, <1>7 DEF OrderInv, Covered
  <2>4. \A op \in worker[u].work : op.id \in Pending \cup superseded \cup landed
    BY <1>5, <1>7 DEF OrderInv, Covered
  <2> QED BY <1>1, <2>2, <2>3, <2>4
<1>8. Covered'  BY <1>1, <1>5, <1>7 DEF OrderInv, Covered
<1>9. server[row] <= lastId + 1
  <2>1. server[row] \in Int /\ server[row] <= lastId
    BY DEF TypeInv, Types, StoreTypes, Bounds, StoreBounds, Valid
  <2> QED BY <1>2, <2>1
<1>10. Low'  BY <1>1, <1>5, <1>9 DEF OrderInv, Low
<1> QED BY <1>6, <1>8, <1>10 DEF OrderInv

LEMMA RemoteOrder == ASSUME TypeInv, OrderInv, NEW row \in Rows, Remote(row) PROVE OrderInv'
<1>1. UNCHANGED <<journal, lastId, superseded, landed, worker>>
  BY DEF Remote, storeVars, tabVars, histVars
<1>2. head \in Nat  BY DEF TypeInv, Types, StoreTypes
<1>3. \A r \in Rows : server'[r] = server[r] \/ server'[r] <= 0
  <2>1. PICK value \in {-(head + 1), 0} : Write(row, value)  BY DEF Remote
  <2>2. value \in Int /\ value <= 0  BY <1>2
  <2>3. CASE UNCHANGED serverVars  BY <2>3 DEF serverVars
  <2>4. CASE server' = [server EXCEPT ![row] = value]  BY <2>2, <2>4 DEF TypeInv, Types, StoreTypes
  <2> QED BY <2>1, <2>3, <2>4 DEF Write
<1>4. \A r \in Rows : server[r] \in Int /\ server'[r] \in Int
  <2>1. Types'  BY RemoteTypes DEF TypeInv
  <2> QED BY <2>1 DEF TypeInv, Types, StoreTypes
<1>5. NoLostOperation' /\ Covered'
  BY <1>1 DEF OrderInv, NoLostOperation, Covered, Sending, Pending, Ids
<1>6. \A id \in Pending : id \in Nat /\ journal[id].row \in Rows /\ server[journal[id].row] <= id
  BY DEF Pending, TypeInv, Types, StoreTypes, OrderInv, Low
<1>7. \A id \in Pending : server'[journal[id].row] <= id  BY <1>3, <1>4, <1>6
<1>8. ASSUME NEW u \in Tabs, Sending(u), NEW op \in worker[u].work PROVE server'[op.row] <= op.id
  <2>1. op.id \in Nat /\ op.row \in Rows /\ server[op.row] <= op.id
    BY <1>8, TabFacts DEF OrderInv, Low
  <2> QED BY <1>3, <1>4, <2>1
<1>9. Low'  BY <1>1, <1>7, <1>8 DEF Low, Pending, Sending
<1> QED BY <1>5, <1>9 DEF OrderInv

LEMMA OtherOrder ==
    ASSUME TypeInv, OrderInv, NEW t \in Tabs,
           \/ Created(t) \/ Repair(t) \/ Fix(t) \/ EndDrain(t) \/ Pull(t) \/ Commit(t) \/ WritePage(t)
           \/ Tick(t) \/ Reload(t) \/ MergePage(t)
           \/ \E row \in Rows : RemoveLocal(t, row) \/ FetchPage(t, row)
    PROVE  OrderInv'
<1> USE DEF serverVars, storeVars, histVars
<1>1. OthersKept(t)  BY Alone DEF TypeInv, Acts, Work
<1>2. worker \in [Tabs -> Workers]  BY DEF TypeInv, Types, TabTypes
<1>3. Idle.pc = "idle" /\ Idle \in Workers  BY IdleType DEF Idle
<1>4. CASE Created(t) \/ Repair(t) \/ Fix(t)
  <2>1. worker'[t].pc \in {"repair", "fix", "end"}
    <3>1. CASE Created(t)  BY <1>2, <3>1 DEF Created, Become, Workers
    <3>2. CASE Repair(t)
      <4>1. CASE GoTo(t, "end")  BY <1>2, <4>1 DEF GoTo, Workers
      <4>2. ASSUME NEW id, NEW got, Become(t, [worker[t] EXCEPT !.pc = "fix", !.id = id, !.seen = cursor,
                                                                 !.got = got])
            PROVE  worker'[t].pc = "fix"
        BY <1>2, <4>2 DEF Become, Workers
      <4> QED BY <3>2, <4>1, <4>2, Zenon DEF Repair
    <3>3. CASE Fix(t)  BY <1>2, <3>3 DEF Fix, Become, Workers
    <3> QED BY <1>4, <3>1, <3>2, <3>3
  <2> QED BY <1>1, <1>4, <2>1, QuietOrder, Zenon DEF Created, Repair, Fix, Sending
<1>5. CASE EndDrain(t) \/ Pull(t) \/ Commit(t) \/ WritePage(t)
  <2>1. worker'[t].pc \in {"pull", "idle", "commit", "drain"}
    <3>1. CASE EndDrain(t)  BY <1>2, <1>3, <3>1 DEF EndDrain, GoTo, Become, Workers
    <3>2. CASE EndPull(t)  BY <1>2, <1>3, <3>2 DEF EndPull, Become, Workers
    <3>3. CASE Pull(t) /\ ~EndPull(t)
      <4>1. PICK fetched : Become(t, [worker[t] EXCEPT !.pc = "commit", !.seen = cursor, !.next = head, !.got = fetched])
        BY <3>3, Zenon DEF Pull
      <4> QED BY <1>2, <4>1 DEF Become, Workers
    <3>4. CASE WritePage(t)  BY <1>2, <1>3, <3>4 DEF WritePage, Become, Workers
    <3> QED BY <1>5, <3>1, <3>2, <3>3, <3>4 DEF Commit
  <2> QED BY <1>1, <1>5, <2>1, QuietOrder DEF EndDrain, Pull, Commit, WritePage, Sending
<1>6. CASE Tick(t) \/ Reload(t) \/ MergePage(t)
  <2>1. worker'[t].pc \in {"idle", "drain", "merge"}
    <3>1. CASE Tick(t)  BY <1>2, <3>1 DEF Tick, Become, Idle
    <3>2. CASE Reload(t)  BY <1>2, <1>3, <3>2 DEF Reload, Become
    <3>3. CASE MergePage(t)
      <4>1. ASSUME NEW seen, NEW got, Become(t, [Idle EXCEPT !.pc = "merge", !.seen = seen, !.got = got])
            PROVE  worker'[t].pc = "merge"
        BY <1>2, <4>1 DEF Become, Idle
      <4> QED BY <3>3, <4>1, Zenon DEF MergePage
    <3> QED BY <1>6, <3>1, <3>2, <3>3
  <2> QED BY <1>1, <1>6, <2>1, QuietOrder DEF Tick, Reload, MergePage, Sending
<1>7. ASSUME NEW row \in Rows, RemoveLocal(t, row) PROVE OrderInv'
  <2>1. worker'[t].pc = "drain"  BY <1>2, <1>7 DEF RemoveLocal, GoTo, Workers
  <2> QED BY <1>1, <1>7, <2>1, QuietOrder DEF RemoveLocal, Sending
<1>8. ASSUME NEW row \in Rows, FetchPage(t, row) PROVE OrderInv'
  BY <1>1, <1>8, QuietOrder DEF FetchPage
<1> QED BY <1>4, <1>5, <1>6, <1>7, <1>8

LEMMA StepOrder == ASSUME TypeInv, OrderInv, [Next]_vars PROVE OrderInv'
<1>1. CASE UNCHANGED vars
  BY <1>1 DEF vars, serverVars, storeVars, tabVars, histVars, OrderInv, NoLostOperation, Covered, Low,
              Sending, Pending, Ids
<1>2. ASSUME NEW t \in Tabs, Work(t) PROVE OrderInv'
  BY <1>2, DrainOrder, PushOrder, SettleOrder, OtherOrder DEF Work
<1> QED BY <1>1, <1>2, RemoteOrder, CommandOrder, OtherOrder DEF Next

LEMMA InitOrder == ASSUME Init PROVE OrderInv
<1>1. lastId = 0 /\ journal = <<>> /\ \A t \in Tabs : worker[t] = Idle  BY DEF Init
<1>2. Pending = {}  BY <1>1 DEF Pending
<1>3. \A t \in Tabs : ~Sending(t)  BY <1>1 DEF Sending, Idle
<1>4. Ids = {}  BY <1>1 DEF Ids
<1> QED BY <1>2, <1>3, <1>4 DEF OrderInv, NoLostOperation, Covered, Low

LEMMA OrderAlways == Spec => [](TypeInv /\ OrderInv)
<1>1. Init => OrderInv  BY InitOrder
<1>2. TypeInv /\ OrderInv /\ [Next]_vars => OrderInv'  BY StepOrder
<1> QED BY <1>1, <1>2, TypeInvAlways, PTL DEF Spec

\* An operation leaves the shared journal only when the server has answered it or a newer save has
\* replaced it, whichever tabs drain, reload and save over each other (network.rs drain_outbox).
THEOREM TabsLoseNothing == Spec => []NoLostOperation
<1>1. OrderInv => NoLostOperation  BY DEF OrderInv
<1> QED BY <1>1, OrderAlways, PTL

\* Only a request gives a row an operation's value, and it is not older than the one before.
LEMMA StepInOrder ==
    ASSUME TypeInv, OrderInv, [Next]_vars
    PROVE  \A row \in Rows : server[row] > 0 /\ server'[row] > 0 => server'[row] >= server[row]
<1>1. \A r \in Rows : server[r] \in Int  BY DEF TypeInv, Types, StoreTypes
<1>2. CASE UNCHANGED server  BY <1>1, <1>2
<1>3. ASSUME NEW t \in Tabs, Push(t)
      PROVE  \A row \in Rows : server[row] > 0 /\ server'[row] > 0 => server'[row] >= server[row]
  <2>1. PICK op \in worker[t].work, outcome \in {"ok", "retry", "rejected"} : PushOf(t, op, outcome)
    BY <1>3, PushIs
  <2>2. \A row \in Rows : \/ server'[row] = server[row]
                          \/ row = op.row /\ server'[row] \in {0, op.id}
    BY <2>1, ServerAfter
  <2>3. server[op.row] <= op.id  BY <2>1 DEF PushOf, OrderInv, Low, Sending
  <2>4. op.id \in Nat  BY TabFacts
  <2> QED BY <1>1, <2>2, <2>3, <2>4
<1>4. ASSUME NEW t \in Tabs, Work(t), ~Push(t) PROVE UNCHANGED server
  BY <1>4, Zenon DEF Work, Drain, Settle, Created, Repair, Fix, EndDrain, Pull, Commit, WritePage, serverVars
<1>5. ASSUME NEW t \in Tabs, Tick(t) \/ Reload(t) \/ MergePage(t) PROVE UNCHANGED server
  BY <1>5 DEF Tick, Reload, MergePage, serverVars
<1>6. ASSUME NEW t \in Tabs, NEW row \in Rows, RemoveLocal(t, row) \/ FetchPage(t, row)
      PROVE  UNCHANGED server
  BY <1>6 DEF RemoveLocal, FetchPage, serverVars
<1>7. ASSUME NEW t \in Tabs, NEW row \in Rows, NEW kind \in Kinds(row), Command(t, row, kind)
      PROVE  UNCHANGED server
  BY <1>7 DEF Command, serverVars
<1>8. ASSUME NEW row \in Rows, Remote(row)
      PROVE  \A r \in Rows : server[r] > 0 /\ server'[r] > 0 => server'[r] >= server[r]
  <2>1. PICK value \in {-(head + 1), 0} : Write(row, value)  BY <1>8 DEF Remote
  <2>2. head \in Nat  BY DEF TypeInv, Types, StoreTypes
  <2>3. value \in Int /\ ~(value > 0)  BY <2>2
  <2>4. CASE server' = [server EXCEPT ![row] = value]
    BY <1>1, <2>3, <2>4 DEF TypeInv, Types, StoreTypes
  <2> QED BY <1>2, <2>1, <2>4 DEF Write, serverVars
<1>9. CASE UNCHANGED vars  BY <1>2, <1>9 DEF vars, serverVars
<1> QED BY <1>2, <1>3, <1>4, <1>5, <1>6, <1>7, <1>8, <1>9 DEF Next

\* The server takes a row's operations in the order they were queued, however many tabs take turns
\* at the journal and whatever they resend (network.rs drain_outbox "so the next tab sees completed
\* acknowledgments").
THEOREM TabsInOrder == Spec => InOrder
BY StepInOrder, OrderAlways, PTL DEF Spec, InOrder

-----------------------------------------------------------------------------
\* The shared store as one outbox.

LEMMA InitPromise == ASSUME Init PROVE Promise!Init
<1>1. lastId = 0 /\ journal = <<>> /\ landed = {}  BY DEF Init
<1>2. Owed = {}  BY <1>1 DEF Owed, Pending
<1> QED BY <1>1, <1>2 DEF Promise!Init

LEMMA CommandPromise ==
    ASSUME TypeInv, NEW t \in Tabs, NEW row \in Rows, NEW kind \in Kinds(row), Command(t, row, kind)
    PROVE  Promise!Queue
<1> DEFINE old == Superseded(row, kind)
<1>1. /\ Pending' = (Pending \ old) \cup {lastId + 1} /\ lastId' = lastId + 1
      /\ old \subseteq Pending /\ superseded' = superseded \cup old /\ landed' = landed
  BY CommandPending
<1> HIDE DEF old
<1>2. lastId + 1 \notin landed \cup superseded
  BY WebAssumption DEF TypeInv, Types, StoreTypes, HistTypes, Bounds, StoreBounds, Ids
<1>3. lastId + 1 \notin old
  BY <1>1, WebAssumption DEF Pending, TypeInv, Types, StoreTypes, Bounds, StoreBounds, Ids
<1> DEFINE replaced == old \cap Owed
<1>4. replaced \in SUBSET Owed /\ Owed' = (Owed \ replaced) \cup {lastId + 1}
  BY <1>1, <1>2, <1>3 DEF Owed
<1> HIDE DEF replaced
<1>5. \E x \in SUBSET Owed : Owed' = (Owed \ x) \cup {lastId + 1}  BY <1>4
<1> QED BY <1>1, <1>5 DEF Promise!Queue

LEMMA PushPromise ==
    ASSUME TypeInv, OrderInv, NEW t \in Tabs, Push(t)
    PROVE  \/ \E id \in 1..lastId : Promise!Answer(id)
           \/ UNCHANGED <<lastId, Owed, landed>>
<1>1. PICK op \in worker[t].work, outcome \in {"ok", "retry", "rejected"} : PushOf(t, op, outcome)
  BY PushIs
<1>2. UNCHANGED <<journal, lastId, superseded>>  BY <1>1 DEF PushOf, storeVars
<1>3. \A id \in Owed : op.id <= id  BY <1>1, OldestFirst DEF Owed
<1>4. op.id \in 1..lastId /\ op.id \in Nat  BY TabFacts DEF Ids
<1>5. \A id \in Owed : id \in Nat  BY DEF Owed, Pending, TypeInv, Types, StoreTypes
<1>6. CASE landed' = landed  BY <1>2, <1>6 DEF Owed, Pending
<1>7. CASE landed' = landed \cup {op.id}
  <2>1. Owed' = Owed \ {op.id}  BY <1>2, <1>7 DEF Owed, Pending
  <2>2. \A id \in Owed : id >= op.id  BY <1>3, <1>4, <1>5
  <2>3. Promise!Answer(op.id)  BY <1>2, <1>4, <1>7, <2>1, <2>2 DEF Promise!Answer
  <2> QED BY <1>4, <2>3
<1> QED BY <1>1, <1>6, <1>7 DEF PushOf

LEMMA SettlePromise ==
    ASSUME TypeInv, OrderInv, NEW t \in Tabs, Settle(t) PROVE UNCHANGED <<lastId, Owed, landed>>
<1>0. PICK op \in worker[t].work, rest \in SUBSET worker[t].work, need \in BOOLEAN,
           seen \in {cursor, worker[t].seen} :
         \E got \in {worker[t].got, More(t, op)} : Settled(t, op, rest, need, seen, got)
  BY SettleIs DEF TypeInv
<1>1. PICK got \in {worker[t].got, More(t, op)} : Settled(t, op, rest, need, seen, got)  BY <1>0
<1>2. UNCHANGED <<lastId, superseded, landed>>  BY <1>1 DEF Settled, histVars
<1>3. op.id \in Pending \cup superseded \cup landed  BY <1>1 DEF Settled, Sending, OrderInv, Covered
<1>4. worker[t].outcome # "retry" => op.id \in landed  BY <1>1 DEF Settled, Sending, OrderInv, Covered
<1>5. \A id \in Pending' \ {op.id} : id \in Pending  BY <1>1, SettlePending
<1>6. \A id \in Pending \ {op.id} : id \in Pending'  BY <1>1, SettlePending
<1>7. op.id \in Pending' => worker[t].outcome = "retry"  BY <1>1, SettlePending
<1>8. worker[t].outcome = "retry" => op.id \in Pending'
  <2>1. ASSUME worker[t].outcome = "retry" PROVE op.id \in Pending'
    <3> DEFINE entry == [row |-> op.row, kind |-> op.kind, rejected |-> worker[t].outcome = "rejected"]
    <3>1. journal' = With(journal, op.id, entry) /\ ~entry.rejected  BY <1>1, <2>1 DEF Settled, Done
    <3> HIDE DEF entry
    <3> QED BY <3>1 DEF With, Pending
  <2> QED BY <2>1
<1>9. Owed' = Owed  BY <1>2, <1>3, <1>4, <1>5, <1>6, <1>7, <1>8 DEF Owed
<1> QED BY <1>2, <1>9

LEMMA StepPromise ==
    ASSUME TypeInv, OrderInv, [Next]_vars PROVE [Promise!Next]_(Promise!vars)
<1> SUFFICES Promise!Next \/ UNCHANGED <<lastId, Owed, landed>>  BY DEF Promise!vars
<1>1. CASE UNCHANGED <<lastId, journal, superseded, landed>>  BY <1>1 DEF Owed, Pending
<1>2. CASE UNCHANGED vars  BY <1>1, <1>2 DEF vars, storeVars, histVars
<1>3. ASSUME NEW t \in Tabs, Push(t) PROVE Promise!Next \/ UNCHANGED <<lastId, Owed, landed>>
  BY <1>3, PushPromise DEF Promise!Next
<1>4. ASSUME NEW t \in Tabs, Settle(t) PROVE Promise!Next \/ UNCHANGED <<lastId, Owed, landed>>
  BY <1>4, SettlePromise
<1>5. ASSUME NEW t \in Tabs, NEW row \in Rows, NEW kind \in Kinds(row), Command(t, row, kind)
      PROVE  Promise!Next
  BY <1>5, CommandPromise DEF Promise!Next
<1>6. ASSUME NEW t \in Tabs, Work(t), ~Push(t), ~Settle(t)
      PROVE  UNCHANGED <<lastId, journal, superseded, landed>>
  BY <1>6, Zenon DEF Work, Drain, Created, Repair, Fix, EndDrain, Pull, Commit, WritePage, storeVars, histVars
<1>7. ASSUME NEW t \in Tabs, Tick(t) \/ Reload(t) \/ MergePage(t)
      PROVE  UNCHANGED <<lastId, journal, superseded, landed>>
  BY <1>7 DEF Tick, Reload, MergePage, storeVars, histVars
<1>8. ASSUME NEW t \in Tabs, NEW row \in Rows, RemoveLocal(t, row) \/ FetchPage(t, row)
      PROVE  UNCHANGED <<lastId, journal, superseded, landed>>
  BY <1>8 DEF RemoveLocal, FetchPage, storeVars, histVars
<1>9. ASSUME NEW row \in Rows, Remote(row) PROVE UNCHANGED <<lastId, journal, superseded, landed>>
  BY <1>9 DEF Remote, storeVars, histVars
<1> QED BY <1>1, <1>2, <1>3, <1>4, <1>5, <1>6, <1>7, <1>8, <1>9 DEF Next

\* To its user, the store that the tabs share is one outbox: WebTabs implements Outbox.
THEOREM TabsAreOneOutbox == Spec => OneOutbox
<1>1. Init => Promise!Init  BY InitPromise
<1>2. TypeInv /\ OrderInv /\ [Next]_vars => [Promise!Next]_(Promise!vars)  BY StepPromise
<1> QED BY <1>1, <1>2, OrderAlways, PTL DEF Spec, OneOutbox, Promise!Spec

-----------------------------------------------------------------------------
\* Tombstones.

GraveInv == TombstonesHold /\ Buried

\* A tab's own rows decide: the others' stand still.
LEMMA OwnGrave ==
    ASSUME TypeInv, GraveInv, NEW t \in Tabs, Acts(t),
           \A row \in unsubscribed'[t] : pool'[t][row] = 0,
           worker'[t].pc = "merge" => DOMAIN worker'[t].got \cap unsubscribed'[t] = {}
    PROVE  GraveInv'
<1>1. OthersKept(t)  BY Alone DEF TypeInv
<1> QED BY <1>1 DEF OthersKept, GraveInv, TombstonesHold, Buried

LEMMA OverAt == ASSUME NEW values, NEW g, NEW row \in Rows
                PROVE  Over(values, g)[row] = IF row \in DOMAIN g THEN g[row] ELSE values[row]
BY DEF Over

LEMMA StepGrave == ASSUME TypeInv, GraveInv, [Next]_vars PROVE GraveInv'
<1>1. pool \in [Tabs -> [Rows -> Int]] /\ worker \in [Tabs -> Workers]
      /\ unsubscribed \in [Tabs -> SUBSET Podcasts]
  BY DEF TypeInv, Types, TabTypes
<1>2. Podcasts \subseteq Rows /\ Podcasts \cap Episodes = {}  BY WebAssumption DEF Rows
<1>3. \A t \in Tabs : \A row \in unsubscribed[t] : pool[t][row] = 0  BY DEF GraveInv, TombstonesHold
<1>4. Idle.pc = "idle"  BY DEF Idle
<1>5. CASE UNCHANGED vars  BY <1>5 DEF vars, tabVars, GraveInv, TombstonesHold, Buried
<1>6. ASSUME NEW row \in Rows, Remote(row) PROVE GraveInv'
  BY <1>6 DEF Remote, tabVars, GraveInv, TombstonesHold, Buried
<1>7. ASSUME NEW t \in Tabs, Created(t) PROVE GraveInv'
  <2> DEFINE g == Admitted(t, worker[t].got)
  <2>1. unsubscribed' = unsubscribed /\ pool'[t] = Over(pool[t], g)  BY <1>1, <1>7 DEF Created, Unchecked
  <2>2. DOMAIN g \cap unsubscribed[t] = {}  BY DEF Admitted
  <2>3. worker'[t].pc = "repair"  BY <1>1, <1>7 DEF Created, Become, Workers
  <2> HIDE DEF g
  <2>4. \A row \in unsubscribed'[t] : pool'[t][row] = 0  BY <1>1, <1>2, <1>3, <2>1, <2>2, OverAt
  <2> QED BY <1>7, <2>3, <2>4, OwnGrave DEF Acts, Work
<1>8. ASSUME NEW t \in Tabs, Fix(t) PROVE GraveInv'
  <2> DEFINE g == worker[t].got
  <2>1. unsubscribed'[t] = unsubscribed[t] \ {r \in DOMAIN g : g[r] # 0} /\ pool'[t] = Over(pool[t], g)
    BY <1>1, <1>8 DEF Fix, Unchecked
  <2>2. worker'[t].pc = "repair"  BY <1>1, <1>8 DEF Fix, Become, Workers
  <2> HIDE DEF g
  <2>3. \A row \in unsubscribed'[t] : pool'[t][row] = 0  BY <1>1, <1>2, <1>3, <2>1, OverAt
  <2> QED BY <1>8, <2>2, <2>3, OwnGrave DEF Acts, Work
<1>9. ASSUME NEW t \in Tabs, Commit(t) PROVE GraveInv'
  <2> DEFINE g == worker[t].got
  <2>1. \/ UNCHANGED <<pool, unsubscribed>>
        \/ unsubscribed'[t] = unsubscribed[t] \ {r \in DOMAIN g : g[r] # 0} /\ pool'[t] = Over(pool[t], g)
    BY <1>1, <1>9 DEF Commit
  <2>2. worker'[t].pc \in {"pull", "idle"}  BY <1>1, <1>4, <1>9 DEF Commit, EndPull, Become, Idle
  <2> HIDE DEF g
  <2>3. \A row \in unsubscribed'[t] : pool'[t][row] = 0  BY <1>1, <1>2, <1>3, <2>1, OverAt
  <2> QED BY <1>9, <2>2, <2>3, OwnGrave DEF Acts, Work
<1>10. ASSUME NEW t \in Tabs, WritePage(t) PROVE GraveInv'
  <2> DEFINE g == worker[t].got
  <2>1. unsubscribed' = unsubscribed /\ pool'[t] = Over(pool[t], g)  BY <1>1, <1>10 DEF WritePage, Unchecked
  <2>2. DOMAIN g \cap unsubscribed[t] = {}  BY <1>10 DEF WritePage, GraveInv, Buried
  <2>3. worker'[t].pc = "drain"  BY <1>1, <1>10 DEF WritePage, Become, Idle
  <2> HIDE DEF g
  <2>4. \A row \in unsubscribed'[t] : pool'[t][row] = 0  BY <1>1, <1>2, <1>3, <2>1, <2>2, OverAt
  <2> QED BY <1>10, <2>3, <2>4, OwnGrave DEF Acts, Work
<1>11. ASSUME NEW t \in Tabs, MergePage(t) PROVE GraveInv'
  <2> DEFINE p == page[t][1]
             got == Only(p.row, Kept(t, p))
  <2>1. worker'[t] = [Idle EXCEPT !.pc = "merge", !.seen = p.seen, !.got = Admitted(t, got)]
    BY <1>1, <1>11 DEF MergePage, Become
  <2> HIDE DEF got
  <2>2. worker'[t].got = Admitted(t, got)  BY <2>1 DEF Idle
  <2>3. DOMAIN Admitted(t, got) \cap unsubscribed[t] = {}  BY DEF Admitted
  <2>4. UNCHANGED <<pool, unsubscribed>>  BY <1>11 DEF MergePage
  <2> QED BY <1>3, <1>11, <2>2, <2>3, <2>4, OwnGrave DEF Acts
<1>12. ASSUME NEW t \in Tabs, NEW row \in Rows, NEW kind \in Kinds(row), Command(t, row, kind)
       PROVE  GraveInv'
  <2>1. worker'[t].pc = "drain"  BY <1>1, <1>12 DEF Command, GoTo, Workers
  <2>2. CASE kind = "subscribe"
    <3>1. unsubscribed'[t] = {}  BY <1>1, <1>12, <2>2 DEF Command
    <3> QED BY <1>12, <2>1, <3>1, OwnGrave DEF Acts
  <2>3. CASE kind = "unsubscribe"
    <3>1. /\ unsubscribed'[t] = unsubscribed[t] \cup {row}
          /\ pool' = [pool EXCEPT ![t][row] = 0]
      BY <1>1, <1>12, <2>3 DEF Command, Effect
    <3>2. \A r \in unsubscribed'[t] : pool'[t][r] = 0  BY <1>1, <1>2, <1>3, <3>1
    <3> QED BY <1>12, <2>1, <3>2, OwnGrave DEF Acts
  <2>4. CASE kind \notin {"subscribe", "unsubscribe"}
    <3>1. row \in Episodes /\ row \notin Podcasts  BY <1>2, <2>4 DEF Kinds
    <3>2. /\ unsubscribed' = unsubscribed
          /\ \E value : pool' = [pool EXCEPT ![t][row] = value]
      BY <1>12, <2>4 DEF Command
    <3>3. \A r \in unsubscribed'[t] : pool'[t][r] = 0  BY <1>1, <1>2, <1>3, <3>1, <3>2
    <3> QED BY <1>12, <2>1, <3>3, OwnGrave DEF Acts
  <2> QED BY <2>2, <2>3, <2>4
<1>13. ASSUME NEW t \in Tabs, NEW row \in Rows, RemoveLocal(t, row) PROVE GraveInv'
  <2>1. worker'[t].pc = "drain" /\ unsubscribed' = unsubscribed /\ pool' = [pool EXCEPT ![t][row] = 0]
    BY <1>1, <1>13 DEF RemoveLocal, GoTo, Workers
  <2>2. \A r \in unsubscribed'[t] : pool'[t][r] = 0  BY <1>1, <1>2, <1>3, <2>1
  <2> QED BY <1>13, <2>1, <2>2, OwnGrave DEF Acts
<1>14. ASSUME NEW t \in Tabs, Reload(t) PROVE GraveInv'
  <2>1. worker'[t].pc = "idle" /\ unsubscribed'[t] = {}  BY <1>1, <1>4, <1>14 DEF Reload, Become
  <2> QED BY <1>14, <2>1, OwnGrave DEF Acts
<1>15. ASSUME NEW t \in Tabs, NEW row \in Rows, FetchPage(t, row) PROVE GraveInv'
  BY <1>15 DEF FetchPage, GraveInv, TombstonesHold, Buried
<1>16. ASSUME NEW t \in Tabs, Tick(t) PROVE GraveInv'
  <2>1. worker'[t].pc = "drain"  BY <1>1, <1>16 DEF Tick, Become, Idle
  <2> QED BY <1>3, <1>16, <2>1, OwnGrave DEF Tick, Acts
<1>17. ASSUME NEW t \in Tabs, Drain(t) \/ Push(t) \/ Settle(t) \/ Repair(t) \/ EndDrain(t) \/ Pull(t)
       PROVE  GraveInv'
  <2>1. UNCHANGED <<pool, unsubscribed>>
    BY <1>17, Zenon DEF Drain, Push, Settle, Repair, EndDrain, Pull
  <2>2. worker'[t].pc # "merge"
    <3>1. CASE Drain(t)
      <4>1. CASE GoTo(t, "end")  BY <1>1, <4>1 DEF GoTo, Workers
      <4>2. ASSUME NEW work, Become(t, [worker[t] EXCEPT !.pc = IF Pending = {} THEN "repair" ELSE "push",
                                                         !.work = work])
            PROVE  worker'[t].pc # "merge"
        BY <1>1, <4>2 DEF Become, Workers
      <4> QED BY <3>1, <4>1, <4>2, Zenon DEF Drain
    <3>2. CASE Push(t)  BY <1>1, <3>2 DEF Push, Answered, Workers
    <3>3. CASE Settle(t)  BY <1>1, <3>3 DEF Settle, Become, Workers
    <3>4. CASE Repair(t)
      <4>1. CASE GoTo(t, "end")  BY <1>1, <4>1 DEF GoTo, Workers
      <4>2. ASSUME NEW id, NEW got, Become(t, [worker[t] EXCEPT !.pc = "fix", !.id = id, !.seen = cursor,
                                                                 !.got = got])
            PROVE  worker'[t].pc = "fix"
        BY <1>1, <4>2 DEF Become, Workers
      <4> QED BY <3>4, <4>1, <4>2, Zenon DEF Repair
    <3>5. CASE EndDrain(t)  BY <1>1, <3>5 DEF EndDrain, GoTo, Become, Workers, Idle
    <3>6. CASE EndPull(t)  BY <1>1, <3>6 DEF EndPull, Become, Idle
    <3>7. CASE Pull(t) /\ ~EndPull(t)  BY <1>1, <3>7 DEF Pull, Become, Workers
    <3> QED BY <1>17, <3>1, <3>2, <3>3, <3>4, <3>5, <3>6, <3>7
  <2> QED BY <1>3, <1>17, <2>1, <2>2, OwnGrave DEF Acts, Work
<1> QED BY <1>5, <1>6, <1>7, <1>8, <1>9, <1>10, <1>11, <1>12, <1>13, <1>14, <1>15, <1>16, <1>17
    DEF Next, Work

\* A podcast unsubscribed in a session is not resurrected by a late page, a subscription's answer or
\* a repair (data_ops.rs cache_podcasts).
THEOREM TombstonesNeverLift == Spec => []TombstonesHold
<1>1. Init => GraveInv
  <2>1. ASSUME Init PROVE GraveInv
    <3>1. \A t \in Tabs : unsubscribed[t] = {} /\ worker[t].pc = "idle"  BY <2>1 DEF Init, Idle
    <3> QED BY <3>1 DEF GraveInv, TombstonesHold, Buried
  <2> QED BY <2>1
<1>2. TypeInv /\ GraveInv /\ [Next]_vars => GraveInv'  BY StepGrave
<1>3. GraveInv => TombstonesHold  BY DEF GraveInv
<1> QED BY <1>1, <1>2, <1>3, TypeInvAlways, PTL DEF Spec

-----------------------------------------------------------------------------
\* What the holder of the lock still has to send is owed by the journal.

Rejected == {id \in DOMAIN journal : journal[id].rejected}

\* An operation to send: the journal owes its row something no older, and knows it by the same name.
Known(t, op) ==
    /\ \E x \in Queued(op.row) : x >= op.id
    /\ op.id \in DOMAIN journal => /\ journal[op.id].row = op.row /\ journal[op.id].kind = op.kind
                                   /\ op.id \in Pending
    /\ op.row \in Podcasts => op.id \in Pending
    /\ \A x \in worker[t].work : x.id = op.id => x = op
    /\ worker[t].pc = "settle" => worker[t].id <= op.id

\* A repair is of an operation that stays rejected.
Repairs(t) ==
    /\ repaired[t] \subseteq Rejected
    /\ worker[t].pc = "fix" =>
         worker[t].id \in Rejected /\ DOMAIN worker[t].got = Suspect(journal[worker[t].id])

KnownInv == \A t \in Tabs : Repairs(t) /\ (Sending(t) => \A op \in worker[t].work : Known(t, op))

\* While a tab sends, something is pending: nobody commits a pull.
LEMMA SendingOwes == ASSUME TypeInv, KnownInv, NEW t \in Tabs, Sending(t) PROVE Pending # {}
<1>1. worker[t].work # {}  BY DEF TypeInv, Holding, Holds, Sending
<1> QED BY <1>1 DEF KnownInv, Known, Queued

\* A step that leaves the journal alone disturbs only its own tab.
LEMMA QuietKnown ==
    ASSUME TypeInv, KnownInv, NEW t \in Tabs, OthersKept(t), UNCHANGED journal, Repairs(t)',
           Sending(t)' => \A op \in worker'[t].work : Known(t, op)'
    PROVE  KnownInv'
<1>1. Pending' = Pending /\ Rejected' = Rejected  BY DEF Pending, Rejected
<1>2. \A row : Queued(row)' = Queued(row)  BY <1>1 DEF Queued
<1>3. ASSUME NEW u \in Tabs, u # t
      PROVE  Repairs(u)' /\ (Sending(u)' => \A op \in worker'[u].work : Known(u, op)')
  <2>1. worker'[u] = worker[u] /\ repaired'[u] = repaired[u]  BY <1>3 DEF OthersKept
  <2>2. Repairs(u)'  BY <1>1, <2>1 DEF KnownInv, Repairs
  <2>3. ASSUME Sending(u)', NEW op \in worker'[u].work PROVE Known(u, op)'
    <3>1. Known(u, op)  BY <2>1, <2>3 DEF KnownInv, Sending
    <3> QED BY <1>1, <1>2, <2>1, <3>1 DEF Known
  <2> QED BY <2>2, <2>3
<1> QED BY <1>3 DEF KnownInv

LEMMA DrainKnown == ASSUME TypeInv, KnownInv, NEW t \in Tabs, Drain(t) PROVE KnownInv'
<1> DEFINE sent == {[id |-> id, row |-> journal[id].row, kind |-> journal[id].kind] : id \in Pending}
<1>1. OthersKept(t)  BY Alone DEF TypeInv, Acts, Work
<1>2. UNCHANGED <<journal, repaired>>  BY DEF Drain, storeVars
<1>0. ASSUME GoTo(t, "end") PROVE KnownInv'
  <2>1. worker'[t].pc = "end"  BY <1>0, TabFacts DEF GoTo, Workers, TypeInv, Types, TabTypes
  <2> QED BY <1>1, <1>2, <2>1, QuietKnown DEF Sending, KnownInv, Repairs, Rejected
<1> SUFFICES ASSUME Become(t, [worker[t] EXCEPT !.pc = IF Pending = {} THEN "repair" ELSE "push",
                                             !.work = sent])
             PROVE  KnownInv'
  BY <1>0 DEF Drain
<1>3. worker'[t] = [worker[t] EXCEPT !.pc = IF Pending = {} THEN "repair" ELSE "push", !.work = sent]
  BY DEF Drain, Become, TypeInv, Types, TabTypes
<1>4. worker'[t].work = sent /\ worker'[t].pc \notin {"settle", "fix"}  BY <1>3, TabFacts DEF Workers
<1>5. \A op \in sent : op.id \in Pending /\ op.row = journal[op.id].row /\ op.kind = journal[op.id].kind
  OBVIOUS
<1>6. \A op, x \in sent : x.id = op.id => x = op  OBVIOUS
<1> HIDE DEF sent
<1>7. \A id \in Pending : id \in Nat  BY DEF Pending, TypeInv, Types, StoreTypes
<1>8. Pending' = Pending  BY <1>2 DEF Pending
<1>9. ASSUME NEW op \in sent PROVE Known(t, op)'
  <2>1. op.id \in Queued(op.row)' /\ op.id >= op.id  BY <1>2, <1>5, <1>7, <1>8 DEF Queued
  <2> QED BY <1>2, <1>4, <1>5, <1>6, <1>8, <2>1 DEF Known
<1>10. Repairs(t)'  BY <1>2, <1>4 DEF KnownInv, Repairs, Rejected
<1> QED BY <1>1, <1>2, <1>4, <1>9, <1>10, QuietKnown

LEMMA PushKnown == ASSUME TypeInv, KnownInv, NEW t \in Tabs, Push(t) PROVE KnownInv'
<1>1. PICK op \in worker[t].work, outcome \in {"ok", "retry", "rejected"} : PushOf(t, op, outcome)
  BY PushIs
<1>2. OthersKept(t) /\ UNCHANGED <<journal, repaired>>
  BY <1>1, Alone DEF PushOf, storeVars, TypeInv, Acts, Work
<1>3. worker'[t] = [worker[t] EXCEPT !.pc = "settle", !.outcome = outcome, !.id = op.id]
  BY <1>1 DEF PushOf, Answered, TypeInv, Types, TabTypes
<1>4. worker'[t].pc = "settle" /\ worker'[t].work = worker[t].work /\ worker'[t].id = op.id
  BY <1>3, TabFacts DEF Workers
<1>5. Sending(t) /\ \A x \in worker[t].work : op.id <= x.id  BY <1>1 DEF PushOf, Sending
<1>6. Pending' = Pending /\ \A row : Queued(row)' = Queued(row)  BY <1>2 DEF Pending, Queued
<1>7. ASSUME NEW x \in worker[t].work PROVE Known(t, x)'
  <2>1. Known(t, x)  BY <1>5 DEF KnownInv
  <2> QED BY <1>2, <1>4, <1>5, <1>6, <2>1 DEF Known
<1>8. Repairs(t)'  BY <1>2, <1>4 DEF KnownInv, Repairs, Rejected
<1> QED BY <1>2, <1>4, <1>7, <1>8, QuietKnown

LEMMA RepairKnown == ASSUME TypeInv, KnownInv, NEW t \in Tabs, Repair(t) PROVE KnownInv'
<1>1. OthersKept(t)  BY Alone DEF TypeInv, Acts, Work
<1>2. UNCHANGED <<journal, repaired>>  BY Zenon DEF Repair, storeVars
<1>3. worker \in [Tabs -> Workers]  BY DEF TypeInv, Types, TabTypes
<1>4. CASE GoTo(t, "end")
  <2>1. worker'[t].pc = "end"  BY <1>3, <1>4 DEF GoTo, Workers
  <2> QED BY <1>1, <1>2, <2>1, QuietKnown DEF Sending, KnownInv, Repairs, Rejected
<1>5. ASSUME NEW id \in Rejected, NEW got, got = [row \in Suspect(journal[id]) |-> server[row]],
             Become(t, [worker[t] EXCEPT !.pc = "fix", !.id = id, !.seen = cursor, !.got = got])
      PROVE  KnownInv'
  <2>1. worker'[t].pc = "fix" /\ worker'[t].id = id /\ worker'[t].got = got
    BY <1>3, <1>5 DEF Become, Workers
  <2>2. DOMAIN got = Suspect(journal[id])  BY <1>5
  <2> QED BY <1>1, <1>2, <1>5, <2>1, <2>2, QuietKnown DEF Sending, KnownInv, Repairs, Rejected
<1> QED BY <1>4, <1>5, Zenon DEF Repair, Rejected

LEMMA FixKnown == ASSUME TypeInv, KnownInv, NEW t \in Tabs, Fix(t) PROVE KnownInv'
<1>1. OthersKept(t) /\ UNCHANGED journal  BY Alone, Zenon DEF TypeInv, Acts, Work, Fix
<1>2. worker'[t].pc = "repair"  BY DEF Fix, Become, TypeInv, Types, TabTypes, Workers
<1>3. repaired'[t] = repaired[t] \cup {worker[t].id}  BY DEF Fix, TypeInv, Types, TabTypes
<1>4. worker[t].id \in Rejected /\ repaired[t] \subseteq Rejected  BY DEF Fix, KnownInv, Repairs
<1>5. Repairs(t)'  BY <1>1, <1>2, <1>3, <1>4 DEF Repairs, Rejected
<1> QED BY <1>1, <1>2, <1>5, QuietKnown DEF Sending

\* The other steps of a tab that leave the journal alone do not send and do not repair.
LEMMA OtherKnown ==
    ASSUME TypeInv, KnownInv, NEW t \in Tabs,
           \/ Created(t) \/ EndDrain(t) \/ Pull(t) \/ Commit(t) \/ WritePage(t)
           \/ Tick(t) \/ Reload(t) \/ MergePage(t)
           \/ \E row \in Rows : RemoveLocal(t, row) \/ FetchPage(t, row)
    PROVE  KnownInv'
<1> USE DEF serverVars, storeVars, histVars
<1>1. OthersKept(t)  BY Alone DEF TypeInv, Acts, Work
<1>2. worker \in [Tabs -> Workers] /\ repaired \in [Tabs -> SUBSET Nat]  BY DEF TypeInv, Types, TabTypes
<1>3. Idle.pc = "idle" /\ Idle \in Workers  BY IdleType DEF Idle
<1>4. \A row \in Rows : FetchPage(t, row) => UNCHANGED <<journal, worker, repaired>>  BY DEF FetchPage
<1>5. ASSUME NEW row \in Rows, FetchPage(t, row) PROVE KnownInv'
  <2>1. Pending' = Pending /\ \A r : Queued(r)' = Queued(r)  BY <1>4, <1>5 DEF Pending, Queued
  <2> QED BY <1>4, <1>5, <2>1 DEF KnownInv, Known, Repairs, Rejected, Sending
<1>6. ASSUME worker'[t].pc \notin {"push", "settle", "fix"}, UNCHANGED journal,
             repaired'[t] \in {repaired[t], {}}
      PROVE  KnownInv'
  <2>1. Repairs(t)'  BY <1>6 DEF KnownInv, Repairs, Rejected
  <2> QED BY <1>1, <1>6, <2>1, QuietKnown DEF Sending
<1>7. CASE Created(t)
  <2>1. worker'[t].pc = "repair"  BY <1>2, <1>7 DEF Created, Become, Workers
  <2> QED BY <1>6, <1>7, <2>1 DEF Created
<1>8. CASE EndDrain(t)
  <2>1. worker'[t].pc \in {"pull", "idle"}  BY <1>2, <1>3, <1>8 DEF EndDrain, GoTo, Become, Workers
  <2> QED BY <1>6, <1>8, <2>1 DEF EndDrain
<1>9. CASE Pull(t) \/ Commit(t)
  <2>1. CASE EndPull(t)
    <3>1. worker'[t].pc \in {"pull", "idle"}  BY <1>2, <1>3, <2>1 DEF EndPull, Become, Workers
    <3> QED BY <1>6, <1>9, <3>1 DEF Pull, Commit
  <2>2. CASE ~EndPull(t)  BY <1>2, <1>6, <1>9, <2>2, ZenonT(30) DEF Become, Workers, Pull, Commit
  <2> QED BY <2>1, <2>2
<1>10. CASE WritePage(t)
  <2>1. worker'[t].pc = "drain"  BY <1>2, <1>3, <1>10 DEF WritePage, Become, Workers
  <2> QED BY <1>6, <1>10, <2>1 DEF WritePage
<1>11. CASE Tick(t)  BY <1>2, <1>6, <1>11 DEF Tick, Become, Idle
<1>12. CASE Reload(t)  BY <1>2, <1>3, <1>6, <1>12 DEF Reload, Become
<1>13. CASE MergePage(t)
  <2>1. ASSUME NEW seen, NEW got, Become(t, [Idle EXCEPT !.pc = "merge", !.seen = seen, !.got = got])
        PROVE  worker'[t].pc = "merge"
    BY <1>2, <2>1 DEF Become, Idle
  <2> QED BY <1>6, <1>13, <2>1, Zenon DEF MergePage
<1>14. ASSUME NEW row \in Rows, RemoveLocal(t, row) PROVE KnownInv'
  <2>1. worker'[t].pc = "drain"  BY <1>2, <1>14 DEF RemoveLocal, GoTo, Workers
  <2> QED BY <1>6, <1>14, <2>1 DEF RemoveLocal
<1> QED BY <1>5, <1>7, <1>8, <1>9, <1>10, <1>11, <1>12, <1>13, <1>14

\* What a command leaves as it was, and what it replaces.
LEMMA CommandKeeps ==
    ASSUME TypeInv, NEW t \in Tabs, NEW row \in Rows, NEW kind \in Kinds(row), Command(t, row, kind)
    PROVE  /\ \A id \in DOMAIN journal \ Superseded(row, kind) : journal'[id] = journal[id]
           /\ \A id \in Superseded(row, kind) : journal[id].row = row /\ row \in Episodes
           /\ ~journal'[lastId + 1].rejected /\ journal'[lastId + 1].kind = kind
           /\ \A id \in DOMAIN journal : id \in Nat /\ id <= lastId
           /\ \A id \in Rejected : id \in Rejected' /\ journal'[id] = journal[id]
<1> DEFINE entry == [row |-> row, kind |-> kind, rejected |-> FALSE]
<1>1. journal' = With(Without(Superseded(row, kind)), lastId + 1, entry)  BY DEF Command
<1>2. lastId + 1 \notin DOMAIN journal /\ Superseded(row, kind) \subseteq Pending  BY CommandPending
<1>3. ~entry.rejected /\ entry.kind = kind  OBVIOUS
<1> HIDE DEF entry
<1>4. \A id \in DOMAIN journal \ Superseded(row, kind) : id \in DOMAIN journal' /\ journal'[id] = journal[id]
  BY <1>1, <1>2 DEF With, Without
<1>5. journal'[lastId + 1] = entry  BY <1>1 DEF With, Without
<1>6. \A id \in DOMAIN journal : id \in Nat /\ id <= lastId
  BY WebAssumption DEF TypeInv, Types, StoreTypes, Bounds, StoreBounds, Ids
<1>7. \A id \in Superseded(row, kind) : journal[id].row = row /\ row \in Episodes
  BY DEF Superseded, Queued, Kinds
<1> QED BY <1>2, <1>3, <1>4, <1>5, <1>6, <1>7 DEF Rejected, Pending

LEMMA CommandKnown ==
    ASSUME TypeInv, KnownInv, NEW t \in Tabs, NEW row \in Rows, NEW kind \in Kinds(row),
           Command(t, row, kind)
    PROVE  KnownInv'
<1> DEFINE old == Superseded(row, kind)
<1>1. /\ Pending' = (Pending \ old) \cup {lastId + 1}
      /\ \A id \in Pending \ old : journal'[id] = journal[id]
      /\ journal'[lastId + 1].row = row
      /\ DOMAIN journal' = (DOMAIN journal \ old) \cup {lastId + 1}
  BY CommandPending
<1>2. /\ \A id \in DOMAIN journal \ old : journal'[id] = journal[id]
      /\ \A id \in old : journal[id].row = row /\ row \in Episodes
      /\ \A id \in DOMAIN journal : id \in Nat /\ id <= lastId
      /\ \A id \in Rejected : id \in Rejected' /\ journal'[id] = journal[id]
  BY CommandKeeps
<1> HIDE DEF old
<1>3. OthersKept(t) /\ repaired' = repaired /\ lastId \in Nat
  <2>1. OthersKept(t)  BY Alone DEF TypeInv, Acts
  <2>2. repaired' = repaired  BY DEF Command
  <2> QED BY <2>1, <2>2, WebAssumption DEF TypeInv, Types, StoreTypes
<1>4. worker'[t].pc = "drain"  BY TabFacts DEF Command, GoTo, Workers, TypeInv, Types, TabTypes
<1>5. ASSUME NEW u \in Tabs PROVE Repairs(u)'
  <2>1. u = t \/ worker'[u] = worker[u]  BY <1>3 DEF OthersKept
  <2> QED BY <1>2, <1>3, <1>4, <2>1 DEF KnownInv, Repairs
<1>6. ASSUME NEW u \in Tabs, Sending(u)', NEW op \in worker'[u].work PROVE Known(u, op)'
  <2>1. worker'[u] = worker[u] /\ Sending(u)  BY <1>3, <1>4, <1>6 DEF OthersKept, Sending
  <2>2. Known(u, op)  BY <1>6, <2>1 DEF KnownInv
  <2>3. op.id \in Nat /\ op.id <= lastId  BY <1>3, <1>6, <2>1, TabFacts DEF Ids
  <2>4. \E x \in Queued(op.row)' : x >= op.id
    <3>1. PICK x \in Queued(op.row) : x >= op.id  BY <2>2 DEF Known
    <3>2. CASE x \in old
      <4>1. lastId + 1 \in Queued(op.row)'  BY <1>1, <1>2, <3>1, <3>2 DEF Queued
      <4> QED BY <1>3, <2>3, <4>1
    <3>3. CASE x \notin old
      <4>1. x \in Queued(op.row)'  BY <1>1, <3>1, <3>3 DEF Queued
      <4> QED BY <3>1, <4>1
    <3> QED BY <3>2, <3>3
  <2>5. op.id \in DOMAIN journal' => /\ journal'[op.id].row = op.row /\ journal'[op.id].kind = op.kind
                                     /\ op.id \in Pending'
    BY <1>1, <1>2, <1>3, <2>2, <2>3 DEF Known
  <2>6. op.row \in Podcasts => op.id \in Pending'
    <3>1. op.row \in Podcasts => op.id \in Pending /\ journal[op.id].row = op.row  BY <2>2 DEF Known, Pending
    <3> QED BY <1>1, <1>2, <3>1, WebAssumption
  <2> QED BY <2>1, <2>2, <2>4, <2>5, <2>6 DEF Known
<1> QED BY <1>5, <1>6 DEF KnownInv

\* What the journal's answer leaves of the other entries, and makes of the one answered.
LEMMA SettleKeeps ==
    ASSUME TypeInv, OrderInv, NEW t \in Tabs, NEW op \in worker[t].work, NEW rest, NEW need, NEW seen,
           NEW got, Settled(t, op, rest, need, seen, got)
    PROVE  /\ \A id \in DOMAIN journal \ {op.id} : id \in DOMAIN journal' /\ journal'[id] = journal[id]
           /\ \A id \in DOMAIN journal' \ {op.id} : id \in DOMAIN journal
           /\ \/ worker[t].outcome = "ok" /\ op.id \notin DOMAIN journal'
              \/ /\ worker[t].outcome \in {"retry", "rejected"} /\ op.id \in DOMAIN journal'
                 /\ journal'[op.id].row = op.row /\ journal'[op.id].kind = op.kind
                 /\ journal'[op.id].rejected <=> worker[t].outcome = "rejected"
<1>1. worker[t].outcome \in {"ok", "retry", "rejected"}
  BY TabFacts DEF Settled, Sending, OrderInv, Covered, Workers
<1>2. CASE worker[t].outcome = "ok"
  <2>1. journal' = Without({op.id})  BY <1>2 DEF Settled, Done
  <2> QED BY <1>2, <2>1 DEF Without
<1>3. CASE worker[t].outcome # "ok"
  <2> DEFINE entry == [row |-> op.row, kind |-> op.kind, rejected |-> worker[t].outcome = "rejected"]
  <2>1. journal' = With(journal, op.id, entry)  BY <1>3 DEF Settled, Done
  <2>2. entry.row = op.row /\ entry.kind = op.kind /\ (entry.rejected <=> worker[t].outcome = "rejected")
    OBVIOUS
  <2> HIDE DEF entry
  <2> QED BY <1>1, <1>3, <2>1, <2>2 DEF With
<1> QED BY <1>2, <1>3

\* The tab that settles is the only one that sends, and goes on with less.
LEMMA SettleNext ==
    ASSUME TypeInv, NEW t \in Tabs, NEW op \in worker[t].work, NEW rest \in SUBSET worker[t].work, NEW need,
           NEW seen, NEW got, Settled(t, op, rest, need, seen, got)
    PROVE  /\ Sending(t) /\ worker[t].pc = "settle" /\ worker[t].id = op.id /\ OthersKept(t)
           /\ worker'[t].work = rest /\ worker'[t].got = got /\ worker'[t].seen = seen
           /\ worker'[t].pc = IF rest = {} THEN "created" ELSE "push"
           /\ \A x \in rest : x \in worker[t].work /\ x.id # op.id /\ worker[t].outcome # "retry"
           /\ \A u \in Tabs \ {t} : ~Sending(u) /\ worker'[u] = worker[u]
           /\ UNCHANGED <<serverVars, rows, cursor, lastId, pool, unsubscribed, repaired, page, lock,
                          trouble, histVars>>
<1> USE DEF Settled
<1>1. worker'[t] = [worker[t] EXCEPT
         !.pc = IF rest = {} THEN "created" ELSE "push", !.work = rest, !.outcome = "none",
         !.id = 0, !.need = need, !.got = got, !.seen = seen]
  BY DEF Become, TypeInv, Types, TabTypes
<1>2. /\ worker'[t].work = rest /\ worker'[t].got = got /\ worker'[t].seen = seen
      /\ worker'[t].pc = IF rest = {} THEN "created" ELSE "push"
  BY <1>1, TabFacts DEF Workers
<1>3. Sending(t) /\ worker[t].id = op.id  BY DEF Sending
<1>4. ASSUME NEW u \in Tabs, u # t PROVE ~Sending(u) /\ worker'[u] = worker[u]
  <2>1. worker'[u] = worker[u]  BY <1>4 DEF Become, TypeInv, Types, TabTypes
  <2> QED BY <1>3, <1>4, <2>1, TabFacts
<1>5. OthersKept(t)  BY <1>4 DEF OthersKept
<1> QED BY <1>2, <1>3, <1>4, <1>5

LEMMA SettleKnown == ASSUME TypeInv, OrderInv, KnownInv, NEW t \in Tabs, Settle(t) PROVE KnownInv'
<1>0. PICK op \in worker[t].work, rest \in SUBSET worker[t].work, need \in BOOLEAN,
           seen \in {cursor, worker[t].seen} :
         \E got \in {worker[t].got, More(t, op)} : Settled(t, op, rest, need, seen, got)
  BY SettleIs DEF TypeInv
<1>1. PICK got \in {worker[t].got, More(t, op)} : Settled(t, op, rest, need, seen, got)  BY <1>0
<1>2. /\ Sending(t) /\ worker[t].pc = "settle" /\ worker[t].id = op.id
      /\ worker'[t].work = rest /\ worker'[t].pc \in {"created", "push"}
      /\ \A x \in rest : x \in worker[t].work /\ x.id # op.id
      /\ \A u \in Tabs \ {t} : ~Sending(u) /\ worker'[u] = worker[u]
      /\ UNCHANGED repaired
  <2>1. PICK need1, seen1, got1 : Settled(t, op, rest, need1, seen1, got1)  BY <1>1
  <2> QED BY <2>1, SettleNext, ZenonT(30)
<1>3. /\ \A id \in DOMAIN journal \ {op.id} : id \in DOMAIN journal' /\ journal'[id] = journal[id]
      /\ \A id \in DOMAIN journal' \ {op.id} : id \in DOMAIN journal
  BY <1>1, SettleKeeps
<1>4. Known(t, op)  BY <1>2 DEF KnownInv
<1>5. op.id \notin Rejected  BY <1>4 DEF Known, Rejected, Pending
<1>6. \A id \in Rejected : id \in Rejected' /\ journal'[id] = journal[id]  BY <1>3, <1>5 DEF Rejected
<1>7. ASSUME NEW u \in Tabs PROVE Repairs(u)'
  BY <1>2, <1>6 DEF KnownInv, Repairs
<1>8. ASSUME NEW x \in rest PROVE Known(t, x)'
  <2>1. Known(t, x) /\ x.id # op.id /\ worker[t].id <= x.id /\ x.id \in Nat /\ op.id \in Nat
    BY <1>2, TabFacts DEF KnownInv, Known
  <2>2. \E y \in Queued(x.row)' : y >= x.id
    <3>1. PICK y \in Queued(x.row) : y >= x.id  BY <2>1 DEF Known
    <3>2. y \in Nat  BY <3>1 DEF Queued, Pending, TypeInv, Types, StoreTypes
    <3>3. y # op.id  BY <1>2, <2>1, <3>1, <3>2
    <3>4. y \in Queued(x.row)'  BY <1>3, <3>1, <3>3 DEF Queued, Pending
    <3> QED BY <3>1, <3>4
  <2>3. x.id \in DOMAIN journal' => /\ journal'[x.id].row = x.row /\ journal'[x.id].kind = x.kind
                                    /\ x.id \in Pending'
    BY <1>3, <2>1 DEF Known, Pending
  <2>4. x.row \in Podcasts => x.id \in Pending'  BY <1>3, <2>1 DEF Known, Pending
  <2> QED BY <1>2, <2>1, <2>2, <2>3, <2>4 DEF Known
<1> QED BY <1>2, <1>7, <1>8 DEF KnownInv, Sending

LEMMA StepKnown == ASSUME TypeInv, OrderInv, KnownInv, [Next]_vars PROVE KnownInv'
<1>1. ASSUME UNCHANGED <<journal, worker, repaired>> PROVE KnownInv'
  <2>1. Pending' = Pending /\ \A r : Queued(r)' = Queued(r)  BY <1>1 DEF Pending, Queued
  <2> QED BY <1>1, <2>1 DEF KnownInv, Known, Repairs, Rejected, Sending
<1>2. CASE UNCHANGED vars  BY <1>1, <1>2 DEF vars, storeVars, tabVars
<1>3. ASSUME NEW row \in Rows, Remote(row) PROVE KnownInv'
  BY <1>1, <1>3 DEF Remote, storeVars, tabVars
<1>4. ASSUME NEW t \in Tabs, Work(t) PROVE KnownInv'
  BY <1>4, DrainKnown, PushKnown, SettleKnown, RepairKnown, FixKnown, OtherKnown DEF Work
<1> QED BY <1>2, <1>3, <1>4, CommandKnown, OtherKnown DEF Next

-----------------------------------------------------------------------------
\* What a tab is about to write is fresh.

\* A value of a row that may stand in the store: the server's, or one that a change to come replaces.
Near(row, value) == value = server[row] \/ changed[row] > cursor

\* An operation on the row is queued, or refused and not yet repaired by this tab; by every tab.
Awaits(t, row) ==
    \E id \in DOMAIN journal : journal[id].row = row /\ (journal[id].rejected => id \notin repaired[t])
Awaited(row) ==
    \E id \in DOMAIN journal : row \in Suspect(journal[id])
                               /\ (journal[id].rejected => \E t \in Tabs : id \notin repaired[t])

RowFresh(row) == Near(row, rows[row]) \/ row \in crossed \cup removed \/ Awaited(row)

\* What the worker carries to the store: near, if no pull has been committed since it was read.
Carries(t) ==
    LET w == worker[t] IN
    /\ w.pc \in {"idle", "drain", "repair", "end", "pull"} => DOMAIN w.got = {}
    /\ w.seen <= cursor
    /\ Sending(t) /\ DOMAIN w.got # {} => w.seen = cursor
    /\ w.pc # "commit" /\ w.seen = cursor =>
         \A row \in DOMAIN w.got : Near(row, w.got[row])
                                   \/ (w.pc = "merge" /\ row \in Episodes /\ Awaits(t, row))
    /\ w.pc = "commit" =>
         \A row \in Rows : IF row \in DOMAIN w.got
                           THEN w.got[row] = server[row] \/ changed[row] > w.next
                           ELSE changed[row] <= w.seen \/ changed[row] > w.next

\* An operation the server has taken while it is owed is a change to come; only an unsubscription
\* of what is gone changes nothing.
Sends(t) ==
    Sending(t) => \A op \in worker[t].work :
        /\ server[op.row] = op.id => changed[op.row] > cursor
        /\ worker[t].pc = "settle" /\ worker[t].outcome = "ok" /\ worker[t].id = op.id
           => changed[op.row] > cursor \/ (op.kind = "unsubscribe" /\ server[op.row] = 0)

Fetches(t) ==
    page[t] # <<>> =>
        /\ page[t][1].seen <= cursor
        /\ page[t][1].seen = cursor => Near(page[t][1].row, page[t][1].value)

Owing ==
    \A id \in Pending :
        LET row == journal[id].row IN
        /\ server[row] = id => changed[row] > cursor
        /\ journal[id].kind = "unsubscribe" =>
             changed[row] > cursor \/ row \in crossed \cup removed \/ rows[row] \in {0, server[row]}

TabFresh(t) == Carries(t) /\ Sends(t) /\ Fetches(t)
FreshInv == (\A row \in Rows : RowFresh(row)) /\ Owing /\ \A t \in Tabs : TabFresh(t)

\* The server's rows are as they were, or a change has been announced.
ServerStep ==
    \A row \in Rows : \/ server'[row] = server[row] /\ changed'[row] = changed[row]
                      \/ changed'[row] > head

LEMMA WriteStep ==
    ASSUME TypeInv, NEW row \in Rows, NEW value, Write(row, value) PROVE ServerStep
<1>1. server \in [Rows -> Int] /\ changed \in [Rows -> Nat] /\ head \in Nat
  BY DEF TypeInv, Types, StoreTypes
<1>2. CASE UNCHANGED serverVars  BY <1>2 DEF serverVars, ServerStep
<1>3. CASE /\ server' = [server EXCEPT ![row] = value]
           /\ changed' = [changed EXCEPT ![row] = head + 1]
  BY <1>1, <1>3 DEF ServerStep
<1> QED BY <1>2, <1>3 DEF Write

LEMMA SameServer == ASSUME UNCHANGED serverVars PROVE ServerStep
BY DEF serverVars, ServerStep

LEMMA StoreFacts ==
    ASSUME TypeInv
    PROVE  /\ head \in Nat /\ cursor \in Nat /\ lastId \in Nat /\ cursor <= head
           /\ \A row \in Rows : changed[row] \in Nat /\ server[row] \in Int /\ changed[row] <= head
           /\ \A t \in Tabs : /\ worker[t] \in Workers /\ worker[t].seen \in Nat /\ worker[t].next \in Nat
                              /\ worker[t].next <= head /\ DOMAIN worker[t].got \subseteq Rows
                              /\ \A op \in worker[t].work : op.row \in Rows
           /\ \A id \in DOMAIN journal : journal[id].row \in Rows
<1>1. ASSUME NEW t \in Tabs
      PROVE  /\ worker[t] \in Workers /\ worker[t].seen \in Nat /\ worker[t].next \in Nat
             /\ worker[t].next <= head /\ DOMAIN worker[t].got \subseteq Rows
             /\ \A op \in worker[t].work : op.row \in Rows
  <2>1. worker[t] \in Workers  BY TabFacts
  <2>2. worker[t].got \in Gots  BY <2>1 DEF Workers
  <2> QED BY <2>1, <2>2, GotOut, TabFacts DEF Workers, TypeInv, Bounds, TabBounds, WorkerBounds
<1> QED BY <1>1, WebAssumption DEF TypeInv, Types, StoreTypes, Bounds, StoreBounds

\* What is near stays near while nobody commits a pull.
LEMMA NearStays ==
    ASSUME TypeInv, TypeInv', ServerStep, UNCHANGED cursor, NEW row \in Rows, NEW value, Near(row, value)
    PROVE  Near(row, value)'
<1>1. head \in Nat /\ cursor \in Nat /\ cursor <= head /\ changed[row] \in Nat  BY StoreFacts
<1>2. changed'[row] \in Nat  BY DEF TypeInv, Types, StoreTypes
<1>3. \/ server'[row] = server[row] /\ changed'[row] = changed[row]
      \/ changed'[row] > head
  BY DEF ServerStep
<1> QED BY <1>1, <1>2, <1>3 DEF Near

\* What a tab has stays fresh while it stands still and nobody commits a pull.
LEMMA TabStays ==
    ASSUME TypeInv, TypeInv', ServerStep, UNCHANGED cursor, NEW u \in Tabs, TabFresh(u),
           worker'[u] = worker[u], page'[u] = page[u],
           \A row \in Episodes : Awaits(u, row) => Awaits(u, row)' \/ changed'[row] > cursor
    PROVE  TabFresh(u)'
<1> DEFINE w == worker[u]
<1>1. /\ head \in Nat /\ cursor \in Nat /\ cursor <= head
      /\ w.seen \in Nat /\ w.next \in Nat /\ w.next <= head /\ DOMAIN w.got \subseteq Rows
      /\ \A op \in w.work : op.row \in Rows
      /\ \A row \in Rows : changed[row] \in Nat /\ changed'[row] \in Nat
  <2>1. \A row \in Rows : changed'[row] \in Nat  BY DEF TypeInv, Types, StoreTypes
  <2> QED BY <2>1, StoreFacts
<1>2. \A row \in Rows : \/ server'[row] = server[row] /\ changed'[row] = changed[row]
                        \/ changed'[row] > head
  BY DEF ServerStep
<1>3. \A row \in Rows : \A value : Near(row, value) => Near(row, value)'  BY NearStays
<1>4. Episodes \subseteq Rows  BY DEF Rows
<1>5. Carries(u)'
  <2>1. w.pc # "commit" /\ w.seen = cursor =>
          \A row \in DOMAIN w.got : Near(row, w.got[row])'
                                    \/ (w.pc = "merge" /\ row \in Episodes /\ Awaits(u, row)')
    <3>1. SUFFICES ASSUME w.pc # "commit", w.seen = cursor, NEW row \in DOMAIN w.got
                   PROVE  \/ Near(row, w.got[row])'
                          \/ w.pc = "merge" /\ row \in Episodes /\ Awaits(u, row)'
      OBVIOUS
    <3>2. CASE Near(row, w.got[row])  BY <1>1, <1>3, <3>1, <3>2
    <3>3. CASE w.pc = "merge" /\ row \in Episodes /\ Awaits(u, row)
      <4>1. Awaits(u, row)' \/ changed'[row] > cursor  BY <3>3
      <4> QED BY <3>3, <4>1 DEF Near
    <3> QED BY <3>1, <3>2, <3>3 DEF TabFresh, Carries
  <2>2. w.pc = "commit" =>
          \A row \in Rows : IF row \in DOMAIN w.got
                            THEN w.got[row] = server'[row] \/ changed'[row] > w.next
                            ELSE changed'[row] <= w.seen \/ changed'[row] > w.next
    BY <1>1, <1>2 DEF TabFresh, Carries
  <2>3. /\ w.pc \in {"idle", "drain", "repair", "end", "pull"} => DOMAIN w.got = {}
        /\ w.seen <= cursor
        /\ Sending(u) /\ DOMAIN w.got # {} => w.seen = cursor
    BY DEF TabFresh, Carries
  <2> QED BY <2>1, <2>2, <2>3 DEF Carries, Sending
<1>6. Sends(u)'  BY <1>1, <1>2 DEF TabFresh, Sends, Sending
<1>7. Fetches(u)'
  <2>1. page[u] # <<>> => page[u][1].row \in Rows  BY PageIs DEF Fetched, TypeInv
  <2> QED BY <1>3, <2>1 DEF TabFresh, Fetches
<1> QED BY <1>5, <1>6, <1>7 DEF TabFresh

\* A worker that carries nothing.
LEMMA CarriesNothing ==
    ASSUME NEW t \in Tabs, worker'[t].pc \in {"idle", "drain", "repair", "end", "pull"},
           DOMAIN worker'[t].got = {}, worker'[t].seen <= cursor'
    PROVE  Carries(t)' /\ Sends(t)'
BY DEF Carries, Sends, Sending

LEMMA IdleCarries ==
    ASSUME TypeInv, TypeInv', NEW t \in Tabs, worker'[t] \in {Idle, [Idle EXCEPT !.pc = "pull"],
             [Idle EXCEPT !.pc = "drain"], [Idle EXCEPT !.pc = "drain", !.due = TRUE]}
    PROVE  Carries(t)' /\ Sends(t)'
<1>0. Idle \in Workers /\ Idle.pc = "idle" /\ Idle.got = <<>> /\ Idle.seen = 0  BY IdleType DEF Idle
<1>1. worker'[t].pc \in {"idle", "drain", "pull"} /\ worker'[t].got = <<>> /\ worker'[t].seen = 0
  <2> HIDE DEF Idle
  <2>1. CASE worker'[t] = Idle  BY <1>0, <2>1
  <2>2. CASE worker'[t] = [Idle EXCEPT !.pc = "pull"]  BY <1>0, <2>2 DEF Workers
  <2>3. CASE worker'[t] = [Idle EXCEPT !.pc = "drain"]  BY <1>0, <2>3 DEF Workers
  <2>4. CASE worker'[t] = [Idle EXCEPT !.pc = "drain", !.due = TRUE]  BY <1>0, <2>4 DEF Workers
  <2> QED BY <2>1, <2>2, <2>3, <2>4
<1>2. DOMAIN worker'[t].got = {}  BY <1>1
<1>3. cursor' \in Nat  BY DEF TypeInv, Types, StoreTypes
<1> QED BY <1>1, <1>2, <1>3, CarriesNothing

\* A page that stays, or is taken, is as fresh as it was.
LEMMA PageStays ==
    ASSUME TypeInv, TypeInv', ServerStep, UNCHANGED cursor, NEW t \in Tabs, Fetches(t),
           page'[t] \in {page[t], <<>>}
    PROVE  Fetches(t)'
<1>1. CASE page'[t] = <<>>  BY <1>1 DEF Fetches
<1>2. CASE page'[t] = page[t] /\ page[t] # <<>>
  <2>1. page[t][1].row \in Rows  BY <1>2, PageIs DEF Fetched, TypeInv
  <2>2. page[t][1].seen = cursor => Near(page[t][1].row, page[t][1].value)'
    BY <1>2, <2>1, NearStays DEF Fetches
  <2> QED BY <1>2, <2>2 DEF Fetches
<1> QED BY <1>1, <1>2

\* A step that leaves server and store alone disturbs only its own tab.
LEMMA QuietFresh ==
    ASSUME TypeInv, TypeInv', FreshInv, NEW t \in Tabs, OthersKept(t), repaired'[t] \subseteq repaired[t],
           UNCHANGED <<serverVars, storeVars, crossed, removed>>,
           Carries(t)', Sends(t)', Fetches(t)'
    PROVE  FreshInv'
<1> USE DEF serverVars, storeVars
<1>1. ServerStep  BY SameServer
<1>2. \A u \in Tabs : repaired'[u] \subseteq repaired[u]  BY DEF OthersKept
<1>3. ASSUME NEW row \in Rows PROVE RowFresh(row)'
  <2>1. RowFresh(row)  BY DEF FreshInv
  <2>2. Awaited(row) => Awaited(row)'  BY <1>2 DEF Awaited
  <2> QED BY <2>1, <2>2 DEF RowFresh, Near
<1>4. Owing'  BY DEF FreshInv, Owing, Pending
<1>5. ASSUME NEW u \in Tabs PROVE TabFresh(u)'
  <2>1. CASE u = t  BY <2>1 DEF TabFresh
  <2>2. CASE u # t
    <3>1. worker'[u] = worker[u] /\ page'[u] = page[u] /\ repaired'[u] = repaired[u]
      BY <2>2 DEF OthersKept
    <3>2. \A row \in Episodes : Awaits(u, row) => Awaits(u, row)'  BY <3>1 DEF Awaits
    <3> QED BY <1>1, <3>1, <3>2, TabStays DEF FreshInv
  <2> QED BY <2>1, <2>2
<1> QED BY <1>3, <1>4, <1>5 DEF FreshInv

LEMMA DrainFresh ==
    ASSUME TypeInv, TypeInv', FreshInv, NEW t \in Tabs, Drain(t) PROVE FreshInv'
<1> DEFINE sent == {[id |-> id, row |-> journal[id].row, kind |-> journal[id].kind] : id \in Pending}
<1>1. OthersKept(t)  BY Alone DEF TypeInv, Acts, Work
<1>2. UNCHANGED <<serverVars, storeVars, repaired, page, crossed, removed>>
  BY DEF Drain, histVars
<1>6. DOMAIN worker[t].got = {} /\ worker[t].seen <= cursor
  BY DEF Drain, FreshInv, TabFresh, Carries
<1>9. Fetches(t)'  BY <1>2, SameServer, PageStays DEF FreshInv, TabFresh, storeVars
<1>0. ASSUME GoTo(t, "end") PROVE FreshInv'
  <2>1. worker'[t].pc = "end" /\ worker'[t].got = worker[t].got /\ worker'[t].seen = worker[t].seen
    BY <1>0, TabFacts DEF GoTo, Workers, TypeInv, Types, TabTypes
  <2>2. Carries(t)' /\ Sends(t)'  BY <1>2, <1>6, <2>1, CarriesNothing DEF storeVars
  <2> QED BY <1>1, <1>2, <1>9, <2>2, QuietFresh
<1> SUFFICES ASSUME Become(t, [worker[t] EXCEPT !.pc = IF Pending = {} THEN "repair" ELSE "push",
                                             !.work = sent])
             PROVE  FreshInv'
  BY <1>0 DEF Drain
<1>3. worker'[t] = [worker[t] EXCEPT !.pc = IF Pending = {} THEN "repair" ELSE "push", !.work = sent]
  BY DEF Drain, Become, TypeInv, Types, TabTypes
<1>4. /\ worker'[t].work = sent /\ worker'[t].pc \in {"repair", "push"}
      /\ worker'[t].got = worker[t].got /\ worker'[t].seen = worker[t].seen
  BY <1>3, TabFacts DEF Workers
<1>5. \A op \in sent : op.id \in Pending /\ op.row = journal[op.id].row  OBVIOUS
<1> HIDE DEF sent
<1>7. Carries(t)'  BY <1>2, <1>4, <1>6 DEF Carries, Sending, storeVars
<1>8. Sends(t)'  BY <1>2, <1>4, <1>5 DEF Sends, FreshInv, Owing, serverVars, storeVars
<1> QED BY <1>1, <1>2, <1>7, <1>8, <1>9, QuietFresh

LEMMA RepairFresh ==
    ASSUME TypeInv, TypeInv', FreshInv, NEW t \in Tabs, Repair(t) PROVE FreshInv'
<1>1. OthersKept(t)  BY Alone DEF TypeInv, Acts, Work
<1>2. UNCHANGED <<serverVars, storeVars, repaired, page, crossed, removed>>
  BY Zenon DEF Repair, histVars
<1>3. worker \in [Tabs -> Workers]  BY DEF TypeInv, Types, TabTypes
<1>4. Fetches(t)'  BY <1>2, SameServer, PageStays DEF FreshInv, TabFresh, storeVars
<1>5. CASE GoTo(t, "end")
  <2>1. worker'[t].pc = "end" /\ worker'[t].got = worker[t].got /\ worker'[t].seen = worker[t].seen
    BY <1>3, <1>5 DEF GoTo, Workers
  <2>2. DOMAIN worker[t].got = {} /\ worker[t].seen <= cursor
    BY Zenon DEF Repair, FreshInv, TabFresh, Carries
  <2>3. Carries(t)' /\ Sends(t)'  BY <1>2, <2>1, <2>2, CarriesNothing DEF storeVars
  <2> QED BY <1>1, <1>2, <1>4, <2>3, QuietFresh
<1>6. ASSUME NEW id \in DOMAIN journal, NEW got, got = [row \in Suspect(journal[id]) |-> server[row]],
             Become(t, [worker[t] EXCEPT !.pc = "fix", !.id = id, !.seen = cursor, !.got = got])
      PROVE  FreshInv'
  <2>1. worker'[t].pc = "fix" /\ worker'[t].got = got /\ worker'[t].seen = cursor
    BY <1>3, <1>6 DEF Become, Workers
  <2>2. \A row \in DOMAIN got : got[row] = server[row]  BY <1>6
  <2>3. cursor <= cursor  BY StoreFacts
  <2>4. Carries(t)'  BY <1>2, <2>1, <2>2, <2>3 DEF Carries, Sending, Near, serverVars, storeVars
  <2>5. Sends(t)'  BY <2>1 DEF Sends, Sending
  <2> QED BY <1>1, <1>2, <1>4, <2>4, <2>5, QuietFresh
<1> QED BY <1>5, <1>6, Zenon DEF Repair

LEMMA EndDrainFresh ==
    ASSUME TypeInv, TypeInv', FreshInv, NEW t \in Tabs, EndDrain(t) PROVE FreshInv'
<1>1. OthersKept(t)  BY Alone DEF TypeInv, Acts, Work
<1>2. UNCHANGED <<serverVars, storeVars, repaired, page, crossed, removed>>
  BY DEF EndDrain, histVars
<1>3. worker \in [Tabs -> Workers]  BY DEF TypeInv, Types, TabTypes
<1>4. Fetches(t)'  BY <1>2, SameServer, PageStays DEF FreshInv, TabFresh, storeVars
<1>5. CASE GoTo(t, "pull")
  <2>1. worker'[t].pc = "pull" /\ worker'[t].got = worker[t].got /\ worker'[t].seen = worker[t].seen
    BY <1>3, <1>5 DEF GoTo, Workers
  <2>2. DOMAIN worker[t].got = {} /\ worker[t].seen <= cursor
    BY DEF EndDrain, FreshInv, TabFresh, Carries
  <2>3. Carries(t)' /\ Sends(t)'  BY <1>2, <2>1, <2>2, CarriesNothing DEF storeVars
  <2> QED BY <1>1, <1>2, <1>4, <2>3, QuietFresh
<1>6. CASE worker'[t] \in {Idle, [Idle EXCEPT !.pc = "pull"]}
  BY <1>1, <1>2, <1>4, <1>6, IdleCarries, QuietFresh
<1> QED BY <1>3, <1>5, <1>6 DEF EndDrain, Become

LEMMA PullFresh ==
    ASSUME TypeInv, TypeInv', FreshInv, NEW t \in Tabs, Pull(t) PROVE FreshInv'
<1> DEFINE got == [r \in {x \in Rows : changed[x] > cursor} |-> server[r]]
<1>1. OthersKept(t)  BY Alone DEF TypeInv, Acts, Work
<1>2. UNCHANGED <<serverVars, storeVars, repaired, page, crossed, removed>>
  BY DEF Pull, histVars
<1>3. worker \in [Tabs -> Workers]  BY DEF TypeInv, Types, TabTypes
<1>4. Fetches(t)'  BY <1>2, SameServer, PageStays DEF FreshInv, TabFresh, storeVars
<1>5. CASE EndPull(t)
  <2>1. worker'[t] \in {Idle, [Idle EXCEPT !.pc = "pull"]}  BY <1>3, <1>5 DEF EndPull, Become
  <2> QED BY <1>1, <1>2, <1>4, <2>1, IdleCarries, QuietFresh
<1>6. CASE Become(t, [worker[t] EXCEPT !.pc = "commit", !.seen = cursor, !.next = head, !.got = got])
  <2>1. DOMAIN got = {x \in Rows : changed[x] > cursor} /\ \A r \in DOMAIN got : got[r] = server[r]
    OBVIOUS
  <2> HIDE DEF got
  <2>2. worker'[t].pc = "commit" /\ worker'[t].got = got /\ worker'[t].seen = cursor
    BY <1>3, <1>6 DEF Become, Workers
  <2>3. cursor <= cursor /\ \A r \in Rows : r \notin DOMAIN got => changed[r] <= cursor
    BY <2>1, StoreFacts
  <2>4. Carries(t)'  BY <1>2, <2>1, <2>2, <2>3 DEF Carries, Sending, serverVars, storeVars
  <2>5. Sends(t)'  BY <2>2 DEF Sends, Sending
  <2> QED BY <1>1, <1>2, <1>4, <2>4, <2>5, QuietFresh
<1> QED BY <1>5, <1>6 DEF Pull

LEMMA TickFresh ==
    ASSUME TypeInv, TypeInv', FreshInv, NEW t \in Tabs, Tick(t) \/ Reload(t) PROVE FreshInv'
<1>1. OthersKept(t)  BY Alone DEF TypeInv, Acts
<1>2. UNCHANGED <<serverVars, storeVars, crossed, removed>> /\ repaired'[t] \in {repaired[t], {}}
      /\ page'[t] \in {page[t], <<>>}
  BY DEF Tick, Reload, histVars, TypeInv, Types, TabTypes
<1>3. worker'[t] \in {Idle, [Idle EXCEPT !.pc = "drain", !.due = TRUE]}
  BY DEF Tick, Reload, Become, TypeInv, Types, TabTypes
<1>4. Fetches(t)'  BY <1>2, SameServer, PageStays DEF FreshInv, TabFresh, storeVars
<1> QED BY <1>1, <1>2, <1>3, <1>4, IdleCarries, QuietFresh

LEMMA FetchPageFresh ==
    ASSUME TypeInv, TypeInv', FreshInv, NEW t \in Tabs, NEW row \in Rows, FetchPage(t, row)
    PROVE  FreshInv'
<1>1. OthersKept(t)  BY Alone DEF TypeInv, Acts
<1>2. UNCHANGED <<serverVars, storeVars, worker, repaired, crossed, removed>>  BY DEF FetchPage, histVars
<1>3. page'[t] = <<[row |-> row, value |-> server[row], seen |-> cursor]>>
  BY DEF FetchPage, TypeInv, Types, TabTypes
<1>4. page'[t][1].row = row /\ page'[t][1].value = server[row] /\ page'[t][1].seen = cursor  BY <1>3
<1>5. Fetches(t)'  BY <1>2, <1>4, StoreFacts DEF Fetches, Near, serverVars, storeVars
<1>6. Carries(t)' /\ Sends(t)'
  BY <1>2 DEF FreshInv, TabFresh, Carries, Sends, Sending, Near, Awaits, serverVars, storeVars
<1> QED BY <1>1, <1>2, <1>5, <1>6, QuietFresh

LEMMA MergePageFresh ==
    ASSUME TypeInv, TypeInv', FreshInv, KnownInv, NEW t \in Tabs, MergePage(t) PROVE FreshInv'
<1> DEFINE p == page[t][1]
           got == Only(p.row, Kept(t, p))
<1>1. OthersKept(t)  BY Alone DEF TypeInv, Acts
<1>2. UNCHANGED <<serverVars, storeVars, repaired, crossed, removed>> /\ page'[t] = <<>>
  BY DEF MergePage, histVars, TypeInv, Types, TabTypes
<1>3. worker'[t] = [Idle EXCEPT !.pc = "merge", !.seen = p.seen, !.got = Admitted(t, got)]
  BY DEF MergePage, Become, TypeInv, Types, TabTypes
<1>4. p.seen <= cursor /\ p.row \in Rows /\ (p.seen = cursor => Near(p.row, p.value))
  BY PageIs DEF MergePage, FreshInv, TabFresh, Fetches, TypeInv, Fetched
<1>5. Kept(t, p) = p.value \/ (p.row \in Episodes /\ Queued(p.row) # {})  BY DEF Kept
<1>6. DOMAIN Admitted(t, got) \subseteq {p.row} /\ \A r \in DOMAIN Admitted(t, got) : Admitted(t, got)[r] = Kept(t, p)
  BY DEF Admitted, Only
<1> HIDE DEF p, got
<1>7. worker'[t].pc = "merge" /\ worker'[t].got = Admitted(t, got) /\ worker'[t].seen = p.seen
  BY <1>3 DEF Idle
<1>8. Queued(p.row) # {} => Awaits(t, p.row)  BY DEF Queued, Pending, Awaits
<1>9. ASSUME p.seen = cursor, NEW r \in DOMAIN Admitted(t, got)
      PROVE  Near(r, Admitted(t, got)[r]) \/ (r \in Episodes /\ Awaits(t, r))
  BY <1>4, <1>5, <1>6, <1>8, <1>9
<1>10. \A r, v : Near(r, v)' <=> Near(r, v)  BY <1>2 DEF Near, serverVars, storeVars
<1>11. \A r : Awaits(t, r)' <=> Awaits(t, r)  BY <1>2 DEF Awaits, storeVars
<1>12. Carries(t)'
  BY <1>2, <1>4, <1>7, <1>9, <1>10, <1>11 DEF Carries, Sending, storeVars
<1>13. Sends(t)' /\ Fetches(t)'  BY <1>2, <1>7 DEF Sends, Sending, Fetches
<1> QED BY <1>1, <1>2, <1>12, <1>13, QuietFresh

\* A step of the server leaves every tab's part as fresh as it was.
LEMMA ServerFresh ==
    ASSUME TypeInv, TypeInv', FreshInv, ServerStep, UNCHANGED <<storeVars, repaired, crossed, removed>>
    PROVE  (\A row \in Rows : RowFresh(row)') /\ Owing'
<1>1. ASSUME NEW row \in Rows PROVE RowFresh(row)'
  <2>1. RowFresh(row)  BY DEF FreshInv
  <2>2. Near(row, rows[row]) => Near(row, rows[row])'  BY NearStays DEF storeVars
  <2> QED BY <2>1, <2>2 DEF RowFresh, Near, Awaited, storeVars
<1>2. ASSUME NEW id \in Pending, NEW row, row = journal[id].row
      PROVE  /\ server'[row] = id => changed'[row] > cursor
             /\ journal[id].kind = "unsubscribe" =>
                  changed'[row] > cursor \/ row \in crossed \cup removed \/ rows[row] \in {0, server'[row]}
  <2>1. row \in Rows  BY <1>2, StoreFacts DEF Pending
  <2>2. \/ server'[row] = server[row] /\ changed'[row] = changed[row]
        \/ changed'[row] > head
    BY <2>1 DEF ServerStep
  <2>3. head \in Nat /\ cursor \in Nat /\ cursor <= head  BY StoreFacts
  <2>4. changed'[row] \in Nat  BY <2>1 DEF TypeInv, Types, StoreTypes
  <2> QED BY <1>2, <2>2, <2>3, <2>4 DEF FreshInv, Owing
<1>3. Owing'
  <2>1. UNCHANGED <<journal, rows, cursor, crossed, removed>> /\ Pending' = Pending
    BY DEF storeVars, Pending
  <2> QED BY <1>2, <2>1 DEF Owing
<1> QED BY <1>1, <1>3

LEMMA RemoteFresh ==
    ASSUME TypeInv, TypeInv', FreshInv, NEW row \in Rows, Remote(row) PROVE FreshInv'
<1>1. ServerStep  BY WriteStep DEF Remote
<1>2. UNCHANGED <<storeVars, worker, page, repaired, crossed, removed>>  BY DEF Remote, tabVars, histVars
<1>3. ASSUME NEW u \in Tabs PROVE TabFresh(u)'
  <2>1. \A r \in Episodes : Awaits(u, r) => Awaits(u, r)'  BY <1>2 DEF Awaits, storeVars
  <2> QED BY <1>1, <1>2, <2>1, TabStays DEF FreshInv, storeVars
<1> QED BY <1>1, <1>2, <1>3, ServerFresh DEF FreshInv

LEMMA PushFresh ==
    ASSUME TypeInv, TypeInv', OrderInv, FreshInv, KnownInv, NEW t \in Tabs, Push(t) PROVE FreshInv'
<1>0. PICK op \in Foremost(worker[t].work) :
       \/ /\ op.row \in Podcasts \/ server[op.row] # 0
          /\ Write(op.row, Effect(op.id, op.kind)) /\ landed' = landed \cup {op.id}
          /\ \/ Answered(t, op, "ok") /\ UNCHANGED trouble
             \/ Trouble /\ Answered(t, op, "retry")
       \/ /\ op.row \in Episodes /\ server[op.row] = 0
          /\ Answered(t, op, "rejected") /\ UNCHANGED <<serverVars, trouble>> /\ landed' = landed \cup {op.id}
       \/ /\ Trouble /\ Answered(t, op, "retry") /\ UNCHANGED <<serverVars, landed>>
       \/ /\ Trouble /\ Answered(t, op, "rejected") /\ UNCHANGED serverVars /\ landed' = landed \cup {op.id}
  BY DEF Push
<1>1. op \in worker[t].work /\ op.row \in Rows /\ op \in Op
  BY <1>0, TabFacts DEF Foremost, Workers
<1>2. PICK outcome \in {"ok", "retry", "rejected"} :
        /\ Answered(t, op, outcome)
        /\ outcome = "ok" => Write(op.row, Effect(op.id, op.kind))
        /\ UNCHANGED serverVars \/ Write(op.row, Effect(op.id, op.kind))
  BY <1>0
<1>3. worker'[t] = [worker[t] EXCEPT !.pc = "settle", !.outcome = outcome, !.id = op.id]
  BY <1>2 DEF Answered, TypeInv, Types, TabTypes
<1>4. /\ worker'[t].pc = "settle" /\ worker'[t].work = worker[t].work /\ worker'[t].outcome = outcome
      /\ worker'[t].id = op.id /\ worker'[t].got = worker[t].got /\ worker'[t].seen = worker[t].seen
  BY <1>3, TabFacts DEF Workers
<1>5. UNCHANGED <<storeVars, repaired, page, crossed, removed>> /\ worker[t].pc = "push"  BY DEF Push
<1>6. OthersKept(t)  BY Alone DEF TypeInv, Acts, Work
<1>7. ServerStep  BY <1>1, <1>2, WriteStep, SameServer
<1>8. Sending(t)  BY <1>5 DEF Sending
<1>9. ASSUME NEW u \in Tabs, u # t PROVE TabFresh(u)'
  <2>1. worker'[u] = worker[u] /\ page'[u] = page[u]  BY <1>6, <1>9 DEF OthersKept
  <2>2. \A r \in Episodes : Awaits(u, r) => Awaits(u, r)'  BY <1>5 DEF Awaits, storeVars
  <2> QED BY <1>5, <1>7, <2>1, <2>2, TabStays DEF FreshInv, storeVars
<1>10. Carries(t)'
  <2>1. worker[t].seen <= cursor /\ (DOMAIN worker[t].got # {} => worker[t].seen = cursor)
    BY <1>8 DEF FreshInv, TabFresh, Carries
  <2>2. worker[t].seen = cursor => \A row \in DOMAIN worker[t].got : Near(row, worker[t].got[row])
    BY <1>5 DEF FreshInv, TabFresh, Carries
  <2>3. DOMAIN worker[t].got \subseteq Rows  BY StoreFacts
  <2>4. worker[t].seen = cursor => \A row \in DOMAIN worker[t].got : Near(row, worker[t].got[row])'
    <3>1. \A row \in Rows : \A value : Near(row, value) => Near(row, value)'
      BY <1>5, <1>7, NearStays DEF storeVars
    <3> QED BY <1>4, <2>2, <2>3, <3>1
  <2>5. UNCHANGED cursor  BY <1>5 DEF storeVars
  <2> QED BY <1>4, <2>1, <2>4, <2>5 DEF Carries
<1>11. Sends(t)'
  <2>1. ASSUME NEW x \in worker[t].work PROVE server'[x.row] = x.id => changed'[x.row] > cursor
    <3>1. x.row \in Rows /\ (server[x.row] = x.id => changed[x.row] > cursor)
      BY <1>8, TabFacts DEF FreshInv, TabFresh, Sends
    <3>2. \/ server'[x.row] = server[x.row] /\ changed'[x.row] = changed[x.row]
          \/ changed'[x.row] > head
      BY <1>7, <3>1 DEF ServerStep
    <3>3. head \in Nat /\ cursor \in Nat /\ cursor <= head /\ changed'[x.row] \in Nat
      BY <3>1, StoreFacts DEF TypeInv, Types, StoreTypes
    <3> QED BY <3>1, <3>2, <3>3
  <2>2. \A x \in worker[t].work : x.id = op.id => x = op
    BY <1>1, <1>8 DEF KnownInv, Known
  <2>3. outcome = "ok" => changed'[op.row] > cursor \/ (op.kind = "unsubscribe" /\ server'[op.row] = 0)
    <3>1. SUFFICES ASSUME outcome = "ok"
                   PROVE  changed'[op.row] > cursor \/ (op.kind = "unsubscribe" /\ server'[op.row] = 0)
      OBVIOUS
    <3>2. Write(op.row, Effect(op.id, op.kind))  BY <1>2, <3>1
    <3>3. server'[op.row] = Effect(op.id, op.kind)
      BY <1>1, <3>2 DEF Write, serverVars, TypeInv, Types, StoreTypes
    <3>4. CASE op.kind = "unsubscribe"  BY <3>3, <3>4 DEF Effect
    <3>5. CASE op.kind # "unsubscribe"  BY <1>1, <2>1, <3>3, <3>5 DEF Effect
    <3> QED BY <3>4, <3>5
  <2>4. UNCHANGED cursor  BY <1>5 DEF storeVars
  <2> QED BY <1>4, <2>1, <2>2, <2>3, <2>4 DEF Sends
<1>12. Fetches(t)'  BY <1>5, <1>7, PageStays DEF FreshInv, TabFresh, storeVars
<1> QED BY <1>5, <1>7, <1>9, <1>10, <1>11, <1>12, ServerFresh DEF FreshInv, TabFresh

LEMMA RemoveLocalFresh ==
    ASSUME TypeInv, TypeInv', FreshInv, NEW t \in Tabs, NEW row \in Rows, RemoveLocal(t, row)
    PROVE  FreshInv'
<1>1. OthersKept(t)  BY Alone DEF TypeInv, Acts
<1>2. UNCHANGED <<serverVars, cursor, journal, repaired, page, crossed>>  BY DEF RemoveLocal
<1>3. rows' = [rows EXCEPT ![row] = 0] /\ removed' = removed \cup {row}  BY DEF RemoveLocal
<1>4. worker'[t] = [worker[t] EXCEPT !.pc = "drain"] /\ worker[t].pc = "idle"
  BY DEF RemoveLocal, GoTo, TypeInv, Types, TabTypes
<1>5. worker'[t].pc = "drain" /\ worker'[t].got = worker[t].got /\ worker'[t].seen = worker[t].seen
  BY <1>4, TabFacts DEF Workers
<1>6. DOMAIN worker[t].got = {} /\ worker[t].seen <= cursor  BY <1>4 DEF FreshInv, TabFresh, Carries
<1>7. Carries(t)' /\ Sends(t)'  BY <1>2, <1>5, <1>6, CarriesNothing
<1>8. ServerStep  BY <1>2, SameServer
<1>9. Fetches(t)'  BY <1>2, <1>8, PageStays DEF FreshInv, TabFresh
<1>10. ASSUME NEW u \in Tabs, u # t PROVE TabFresh(u)'
  <2>1. worker'[u] = worker[u] /\ page'[u] = page[u]  BY <1>1, <1>10 DEF OthersKept
  <2>2. \A r \in Episodes : Awaits(u, r) => Awaits(u, r)'  BY <1>2 DEF Awaits
  <2> QED BY <1>2, <1>8, <2>1, <2>2, TabStays DEF FreshInv
<1>11. \A r \in Rows : r = row \/ rows'[r] = rows[r]  BY <1>3 DEF TypeInv, Types, StoreTypes
<1>12. ASSUME NEW r \in Rows PROVE RowFresh(r)'
  <2>1. CASE r = row  BY <1>3, <2>1 DEF RowFresh
  <2>2. CASE rows'[r] = rows[r]
    BY <1>2, <1>3, <2>2 DEF FreshInv, RowFresh, Near, Awaited, serverVars
  <2> QED BY <1>11, <2>1, <2>2
<1>13. Owing'
  <2>1. ASSUME NEW id \in Pending, NEW r, r = journal[id].row
        PROVE  /\ server[r] = id => changed[r] > cursor
               /\ journal[id].kind = "unsubscribe" =>
                    changed[r] > cursor \/ r \in crossed \cup removed' \/ rows'[r] \in {0, server[r]}
    <3>1. r \in Rows  BY <2>1, StoreFacts DEF Pending
    <3> QED BY <1>3, <1>11, <2>1, <3>1 DEF FreshInv, Owing
  <2>2. Pending' = Pending  BY <1>2 DEF Pending
  <2> QED BY <1>2, <2>1, <2>2 DEF Owing, serverVars
<1> QED BY <1>7, <1>9, <1>10, <1>12, <1>13 DEF FreshInv, TabFresh

\* Rows written without a look at the cursor: what was read before a pull is known to have crossed it.
LEMMA UncheckedFresh ==
    ASSUME TypeInv, TypeInv', FreshInv, NEW t \in Tabs, NEW g \in Gots, NEW seen, Unchecked(t, g, seen),
           UNCHANGED <<serverVars, cursor, journal>>,
           seen = cursor => \A row \in DOMAIN g : Near(row, g[row]) \/ (row \in Episodes /\ Awaited(row)'),
           \A row \in Rows \ DOMAIN g : Awaited(row) => Awaited(row)'
    PROVE  (\A row \in Rows : RowFresh(row)') /\ Owing'
<1>1. /\ \A row \in Rows : rows'[row] = IF row \in DOMAIN g THEN g[row] ELSE rows[row]
      /\ removed' = removed \ DOMAIN g
      /\ crossed' = IF seen = cursor THEN crossed ELSE crossed \cup DOMAIN g
  BY OverAt DEF Unchecked
<1>2. ASSUME NEW row \in Rows PROVE RowFresh(row)'
  <2>1. CASE row \in DOMAIN g /\ seen = cursor
    BY <1>1, <2>1 DEF RowFresh, Near, serverVars
  <2>2. CASE row \in DOMAIN g /\ seen # cursor  BY <1>1, <2>2 DEF RowFresh
  <2>3. CASE row \notin DOMAIN g
    <3>1. RowFresh(row) /\ rows'[row] = rows[row]  BY <1>1, <2>3 DEF FreshInv
    <3>2. row \in crossed \cup removed => row \in crossed' \cup removed'  BY <1>1, <2>3
    <3> QED BY <2>3, <3>1, <3>2 DEF RowFresh, Near, serverVars
  <2> QED BY <2>1, <2>2, <2>3
<1>3. Owing'
  <2>1. ASSUME NEW id \in Pending, NEW row, row = journal[id].row
        PROVE  /\ server[row] = id => changed[row] > cursor
               /\ journal[id].kind = "unsubscribe" =>
                    changed[row] > cursor \/ row \in crossed' \cup removed' \/ rows'[row] \in {0, server[row]}
    <3>1. row \in Rows /\ journal[id].kind \in Kinds(row)
      BY <2>1 DEF Pending, TypeInv, Types, StoreTypes
    <3>2. journal[id].kind = "unsubscribe" => row \notin Episodes  BY <3>1 DEF Kinds
    <3>3. CASE row \in DOMAIN g /\ seen = cursor
      BY <1>1, <2>1, <3>1, <3>2, <3>3 DEF FreshInv, Owing, Near
    <3>4. CASE row \in DOMAIN g /\ seen # cursor  BY <1>1, <2>1, <3>4 DEF FreshInv, Owing
    <3>5. CASE row \notin DOMAIN g
      <4>1. row \in crossed \cup removed => row \in crossed' \cup removed'  BY <1>1, <3>5
      <4> QED BY <1>1, <2>1, <3>1, <3>5, <4>1 DEF FreshInv, Owing
    <3> QED BY <3>3, <3>4, <3>5
  <2>2. Pending' = Pending  BY DEF Pending
  <2> QED BY <2>1, <2>2 DEF Owing, serverVars
<1> QED BY <1>2, <1>3

\* A step that writes rows and leaves server, cursor and journal alone.
LEMMA RowsFresh ==
    ASSUME TypeInv, TypeInv', FreshInv, NEW t \in Tabs, OthersKept(t),
           UNCHANGED <<serverVars, cursor, journal, page>>,
           (\A row \in Rows : RowFresh(row)') /\ Owing', Carries(t)', Sends(t)'
    PROVE  FreshInv'
<1>1. ServerStep  BY SameServer
<1>2. Fetches(t)'  BY <1>1, PageStays DEF FreshInv, TabFresh
<1>3. ASSUME NEW u \in Tabs, u # t PROVE TabFresh(u)'
  <2>1. worker'[u] = worker[u] /\ page'[u] = page[u] /\ repaired'[u] = repaired[u]
    BY <1>3 DEF OthersKept
  <2>2. \A r \in Episodes : Awaits(u, r) => Awaits(u, r)'  BY <2>1 DEF Awaits
  <2> QED BY <1>1, <2>1, <2>2, TabStays DEF FreshInv
<1> QED BY <1>2, <1>3 DEF FreshInv, TabFresh

\* A worker that has written what it carried.
LEMMA CarriedOff ==
    ASSUME TypeInv, TypeInv', NEW t \in Tabs, UNCHANGED cursor,
           \/ worker'[t] = [worker[t] EXCEPT !.pc = "repair", !.got = <<>>, !.seen = 0]
           \/ worker'[t] = [worker[t] EXCEPT !.pc = "repair", !.got = <<>>, !.seen = 0, !.id = 0]
    PROVE  Carries(t)' /\ Sends(t)'
<1>1. worker'[t].pc = "repair" /\ worker'[t].got = <<>> /\ worker'[t].seen = 0
  BY TabFacts DEF Workers
<1>2. DOMAIN worker'[t].got = {} /\ worker'[t].seen <= cursor'
  BY <1>1 DEF TypeInv, Types, StoreTypes
<1> QED BY <1>1, <1>2, CarriesNothing

LEMMA CreatedFresh ==
    ASSUME TypeInv, TypeInv', FreshInv, NEW t \in Tabs, Created(t) PROVE FreshInv'
<1> DEFINE g == Admitted(t, worker[t].got)
<1>1. OthersKept(t)  BY Alone DEF TypeInv, Acts, Work
<1>2. UNCHANGED <<serverVars, cursor, journal, page, repaired>> /\ worker[t].pc = "created"  BY DEF Created
<1>3. worker'[t] = [worker[t] EXCEPT !.pc = "repair", !.got = <<>>, !.seen = 0]
  BY DEF Created, Become, TypeInv, Types, TabTypes
<1>4. g \in Gots /\ \A row \in DOMAIN g : row \in DOMAIN worker[t].got /\ g[row] = worker[t].got[row]
  BY AdmittedType, TabFacts DEF Workers, Admitted
<1> HIDE DEF g
<1>5. worker[t].seen = cursor => \A row \in DOMAIN g : Near(row, g[row])
  BY <1>2, <1>4 DEF FreshInv, TabFresh, Carries
<1>6. Unchecked(t, g, worker[t].seen)  BY DEF Created, g
<1>7. \A row \in Rows : Awaited(row) => Awaited(row)'  BY <1>2 DEF Awaited
<1>8. (\A row \in Rows : RowFresh(row)') /\ Owing'  BY <1>2, <1>4, <1>5, <1>6, <1>7, UncheckedFresh
<1>9. Carries(t)' /\ Sends(t)'  BY <1>2, <1>3, CarriedOff, Zenon
<1> QED BY <1>1, <1>2, <1>8, <1>9, RowsFresh

LEMMA FixFresh ==
    ASSUME TypeInv, TypeInv', KnownInv, FreshInv, NEW t \in Tabs, Fix(t) PROVE FreshInv'
<1> DEFINE g == worker[t].got
<1>1. OthersKept(t)  BY Alone DEF TypeInv, Acts, Work
<1>2. UNCHANGED <<serverVars, cursor, journal, page>> /\ worker[t].pc = "fix"  BY DEF Fix
<1>3. worker'[t] = [worker[t] EXCEPT !.pc = "repair", !.got = <<>>, !.seen = 0, !.id = 0]
  BY DEF Fix, Become, TypeInv, Types, TabTypes
<1>4. g \in Gots  BY TabFacts DEF Workers
<1>5. worker[t].seen = cursor => \A row \in DOMAIN g : Near(row, g[row])
  BY <1>2 DEF FreshInv, TabFresh, Carries
<1>6. Unchecked(t, g, worker[t].seen)  BY DEF Fix
<1>7. ASSUME NEW row \in Rows \ DOMAIN g, Awaited(row) PROVE Awaited(row)'
  <2>1. DOMAIN g = Suspect(journal[worker[t].id])  BY <1>2 DEF KnownInv, Repairs
  <2>2. PICK id \in DOMAIN journal : row \in Suspect(journal[id])
                                     /\ (journal[id].rejected => \E u \in Tabs : id \notin repaired[u])
    BY <1>7 DEF Awaited
  <2>3. id # worker[t].id  BY <1>7, <2>1, <2>2
  <2>4. \A u \in Tabs : id \notin repaired[u] => id \notin repaired'[u]
    BY <2>3 DEF Fix, TypeInv, Types, TabTypes
  <2> QED BY <1>2, <2>2, <2>4 DEF Awaited
<1> HIDE DEF g
<1>8. (\A row \in Rows : RowFresh(row)') /\ Owing'  BY <1>2, <1>4, <1>5, <1>6, <1>7, UncheckedFresh
<1>9. Carries(t)' /\ Sends(t)'  BY <1>2, <1>3, CarriedOff, Zenon
<1> QED BY <1>1, <1>2, <1>8, <1>9, RowsFresh

LEMMA WritePageFresh ==
    ASSUME TypeInv, TypeInv', FreshInv, NEW t \in Tabs, WritePage(t) PROVE FreshInv'
<1> DEFINE g == worker[t].got
<1>1. OthersKept(t)  BY Alone DEF TypeInv, Acts, Work
<1>2. UNCHANGED <<serverVars, cursor, journal, page, repaired>> /\ worker[t].pc = "merge"  BY DEF WritePage
<1>3. worker'[t] = [Idle EXCEPT !.pc = "drain"]  BY DEF WritePage, Become, TypeInv, Types, TabTypes
<1>4. g \in Gots  BY TabFacts DEF Workers
<1>5. \A row \in Episodes : Awaits(t, row) => Awaited(row)'
  BY <1>2, SuspectIs, WebAssumption DEF Awaits, Awaited
<1>6. worker[t].seen = cursor => \A row \in DOMAIN g : Near(row, g[row]) \/ (row \in Episodes /\ Awaited(row)')
  BY <1>2, <1>5 DEF FreshInv, TabFresh, Carries
<1>7. Unchecked(t, g, worker[t].seen)  BY DEF WritePage
<1>8. \A row \in Rows : Awaited(row) => Awaited(row)'  BY <1>2 DEF Awaited
<1> HIDE DEF g
<1>9. (\A row \in Rows : RowFresh(row)') /\ Owing'  BY <1>2, <1>4, <1>6, <1>7, <1>8, UncheckedFresh
<1>10. Carries(t)' /\ Sends(t)'  BY <1>3, IdleCarries
<1> QED BY <1>1, <1>2, <1>9, <1>10, RowsFresh

LEMMA CommitFresh ==
    ASSUME TypeInv, TypeInv', KnownInv, FreshInv, NEW t \in Tabs, Commit(t) PROVE FreshInv'
<1> DEFINE w == worker[t]
<1>1. OthersKept(t)  BY Alone DEF TypeInv, Acts, Work
<1>2. UNCHANGED <<serverVars, journal, repaired, page>> /\ w.pc = "commit"  BY DEF Commit
<1>3. worker'[t] \in {Idle, [Idle EXCEPT !.pc = "pull"]}
  BY DEF Commit, EndPull, Become, TypeInv, Types, TabTypes
<1>4. Carries(t)' /\ Sends(t)'  BY <1>3, IdleCarries
<1>5. \A r \in Rows : Awaited(r) => Awaited(r)'  BY <1>2 DEF Awaited
<1>6. Pending' = Pending  BY <1>2 DEF Pending
<1>7. CASE UNCHANGED <<rows, cursor, crossed, removed>>
  <2>1. \A r \in Rows : RowFresh(r)'
    BY <1>2, <1>5, <1>7 DEF FreshInv, RowFresh, Near, serverVars
  <2>2. Owing'  BY <1>2, <1>6, <1>7 DEF FreshInv, Owing, serverVars
  <2> QED BY <1>1, <1>2, <1>4, <1>7, <2>1, <2>2, RowsFresh
<1>8. CASE /\ MayCommit(w.seen) /\ rows' = Over(rows, w.got) /\ cursor' = w.next
           /\ crossed' = crossed \ DOMAIN w.got /\ removed' = removed \ DOMAIN w.got
  <2>1. Pending = {} /\ cursor = w.seen  BY <1>8 DEF MayCommit
  <2>2. /\ cursor \in Nat /\ w.next \in Nat /\ cursor <= w.next /\ DOMAIN w.got \subseteq Rows
        /\ \A r \in Rows : changed[r] \in Nat
    BY <1>2, <2>1, StoreFacts DEF TypeInv, Bounds, TabBounds, WorkerBounds
  <2>3. \A r \in Rows : IF r \in DOMAIN w.got
                        THEN w.got[r] = server[r] \/ changed[r] > w.next
                        ELSE changed[r] <= cursor \/ changed[r] > w.next
    BY <1>2, <2>1 DEF FreshInv, TabFresh, Carries
  <2>4. ASSUME NEW r \in Rows PROVE RowFresh(r)'
    <3>1. rows'[r] = IF r \in DOMAIN w.got THEN w.got[r] ELSE rows[r]  BY <1>8, OverAt
    <3>2. CASE r \in DOMAIN w.got
      BY <1>2, <1>8, <2>3, <3>1, <3>2 DEF RowFresh, Near, serverVars
    <3>3. CASE r \notin DOMAIN w.got
      <4>1. RowFresh(r)  BY DEF FreshInv
      <4>2. r \in crossed \cup removed => r \in crossed' \cup removed'  BY <1>8, <3>3
      <4>3. changed[r] > cursor => changed[r] > w.next  BY <2>2, <2>3, <3>3
      <4> QED BY <1>2, <1>5, <1>8, <3>1, <3>3, <4>1, <4>2, <4>3 DEF RowFresh, Near, serverVars
    <3> QED BY <3>2, <3>3
  <2>5. Owing'  BY <1>6, <2>1 DEF Owing
  <2>6. ASSUME NEW u \in Tabs, u # t PROVE TabFresh(u)'
    <3>1. worker'[u] = worker[u] /\ page'[u] = page[u] /\ repaired'[u] = repaired[u]
      BY <1>1, <2>6 DEF OthersKept
    <3>2. ~Sending(u)  BY <2>1, SendingOwes
    <3>3. Carries(u) /\ Fetches(u) /\ worker[u].seen \in Nat  BY StoreFacts DEF FreshInv, TabFresh
    <3>4. worker[u].seen <= cursor' /\ (worker[u].seen = cursor' => cursor' = cursor)
      BY <1>8, <2>2, <3>3 DEF Carries
    <3>5. \A r : Awaits(u, r)' <=> Awaits(u, r)  BY <1>2, <3>1 DEF Awaits
    <3>6. cursor' = cursor => \A r, v : Near(r, v)' <=> Near(r, v)  BY <1>2 DEF Near, serverVars
    <3>7. worker[u].pc # "commit" /\ worker[u].seen = cursor' =>
            \A r \in DOMAIN worker[u].got : \/ Near(r, worker[u].got[r])'
                                            \/ worker[u].pc = "merge" /\ r \in Episodes /\ Awaits(u, r)'
      BY <3>1, <3>3, <3>4, <3>5, <3>6 DEF Carries
    <3>8. Carries(u)'
      BY <1>2, <3>1, <3>2, <3>3, <3>4, <3>7 DEF Carries, Sending, serverVars
    <3>9. Sends(u)'  BY <3>1, <3>2 DEF Sends, Sending
    <3>10. Fetches(u)'
      <4>1. SUFFICES ASSUME page[u] # <<>> PROVE Fetches(u)'  BY <3>1 DEF Fetches
      <4>2. page[u][1].seen \in Nat  BY <4>1, PageIs DEF Fetched, TypeInv
      <4>3. page[u][1].seen <= cursor' /\ (page[u][1].seen = cursor' => cursor' = cursor)
        BY <1>8, <2>2, <3>3, <4>1, <4>2 DEF Fetches
      <4> QED BY <1>2, <3>1, <3>3, <3>6, <4>1, <4>3 DEF Fetches, Near, serverVars
    <3> QED BY <3>8, <3>9, <3>10 DEF TabFresh
  <2>7. Fetches(t)'
    <3>1. SUFFICES ASSUME page[t] # <<>> PROVE Fetches(t)'  BY <1>2 DEF Fetches
    <3>2. page[t][1].seen \in Nat /\ Fetches(t)  BY <3>1, PageIs DEF Fetched, TypeInv, FreshInv, TabFresh
    <3>3. page[t][1].seen <= cursor' /\ (page[t][1].seen = cursor' => cursor' = cursor)
      BY <1>8, <2>2, <3>1, <3>2 DEF Fetches
    <3> QED BY <1>2, <3>1, <3>2, <3>3 DEF Fetches, Near, serverVars
  <2> QED BY <1>4, <2>4, <2>5, <2>6, <2>7 DEF FreshInv, TabFresh
<1> QED BY <1>7, <1>8 DEF Commit

LEMMA CommandFresh ==
    ASSUME TypeInv, TypeInv', FreshInv, NEW t \in Tabs, NEW row \in Rows, NEW kind \in Kinds(row),
           Command(t, row, kind)
    PROVE  FreshInv'
<1> DEFINE old == Superseded(row, kind)
<1>1. /\ Pending' = (Pending \ old) \cup {lastId + 1}
      /\ \A id \in Pending \ old : journal'[id] = journal[id]
      /\ journal'[lastId + 1].row = row
      /\ DOMAIN journal' = (DOMAIN journal \ old) \cup {lastId + 1}
  BY CommandPending
<1>2. /\ \A id \in DOMAIN journal \ old : journal'[id] = journal[id]
      /\ \A id \in old : journal[id].row = row
      /\ ~journal'[lastId + 1].rejected /\ journal'[lastId + 1].kind = kind
  BY CommandKeeps
<1> HIDE DEF old
<1>3. OthersKept(t)  BY Alone DEF TypeInv, Acts
<1>4. UNCHANGED <<serverVars, cursor, repaired, page, crossed, removed>> /\ worker[t].pc = "idle"
  BY DEF Command
<1>5. worker'[t] = [worker[t] EXCEPT !.pc = "drain"]
  BY DEF Command, GoTo, TypeInv, Types, TabTypes
<1>6. worker'[t].pc = "drain" /\ worker'[t].got = worker[t].got /\ worker'[t].seen = worker[t].seen
  BY <1>5, TabFacts DEF Workers
<1>7. DOMAIN worker[t].got = {} /\ worker[t].seen <= cursor  BY <1>4 DEF FreshInv, TabFresh, Carries
<1>8. Carries(t)' /\ Sends(t)'  BY <1>4, <1>6, <1>7, CarriesNothing
<1>9. ServerStep  BY <1>4, SameServer
<1>10. Fetches(t)'  BY <1>4, <1>9, PageStays DEF FreshInv, TabFresh
<1>11. ASSUME NEW u \in Tabs, NEW r, Awaits(u, r) PROVE Awaits(u, r)'
  <2>1. PICK id \in DOMAIN journal : journal[id].row = r /\ (journal[id].rejected => id \notin repaired[u])
    BY <1>11 DEF Awaits
  <2>2. CASE id \in old  BY <1>1, <1>2, <2>1, <2>2 DEF Awaits
  <2>3. CASE id \notin old  BY <1>1, <1>2, <1>4, <2>1, <2>3 DEF Awaits
  <2> QED BY <2>2, <2>3
<1>12. ASSUME NEW u \in Tabs, u # t PROVE TabFresh(u)'
  <2>1. worker'[u] = worker[u] /\ page'[u] = page[u]  BY <1>3, <1>12 DEF OthersKept
  <2> QED BY <1>4, <1>9, <1>11, <2>1, TabStays DEF FreshInv
<1>13. \/ kind = "subscribe" /\ UNCHANGED rows
       \/ kind # "subscribe" /\ rows' = [rows EXCEPT ![row] = Effect(lastId + 1, kind)]
  BY DEF Command
<1>14. rows \in [Rows -> Int]  BY DEF TypeInv, Types, StoreTypes
<1>15. ASSUME NEW r \in Rows PROVE RowFresh(r)'
  <2>1. CASE r = row
    <3>1. CASE kind # "subscribe"
      <4>1. Awaited(row)'  BY <1>1, <1>2, <3>1, SuspectIs DEF Awaited
      <4> QED BY <2>1, <4>1 DEF RowFresh
    <3>2. CASE kind = "subscribe"
      <4>1. old = {} /\ rows' = rows  BY <1>13, <3>2 DEF old, Superseded
      <4>2. Awaited(row) => Awaited(row)'  BY <1>1, <1>2, <1>4, <4>1 DEF Awaited
      <4> QED BY <1>4, <2>1, <4>1, <4>2 DEF FreshInv, RowFresh, Near, serverVars
    <3> QED BY <3>1, <3>2
  <2>2. CASE r # row
    <3>1. rows'[r] = rows[r]  BY <1>13, <1>14, <2>2
    <3>2. Awaited(r) => Awaited(r)'  BY <1>1, <1>2, <1>4, <2>2, SuspectIs DEF Awaited
    <3> QED BY <1>4, <3>1, <3>2 DEF FreshInv, RowFresh, Near, serverVars
  <2> QED BY <2>1, <2>2
<1>16. Owing'
  <2>1. ASSUME NEW id \in Pending \ old, NEW r, r = journal[id].row
        PROVE  /\ server[r] = id => changed[r] > cursor
               /\ journal[id].kind = "unsubscribe" =>
                    changed[r] > cursor \/ r \in crossed \cup removed \/ rows'[r] \in {0, server[r]}
    <3>1. r \in Rows /\ journal[id].kind \in Kinds(r)
      BY <2>1 DEF Pending, TypeInv, Types, StoreTypes
    <3>2. journal[id].kind = "unsubscribe" => r \notin Episodes  BY <3>1 DEF Kinds
    <3>3. r \notin Episodes => rows'[r] \in {rows[r], 0}
      BY <1>13, <1>14, <3>1 DEF Kinds, Effect
    <3> QED BY <2>1, <3>2, <3>3 DEF FreshInv, Owing
  <2>2. server[row] # lastId + 1
    BY StoreFacts DEF TypeInv, Bounds, StoreBounds, Valid
  <2>3. kind = "unsubscribe" => rows'[row] = 0  BY <1>13, <1>14 DEF Effect
  <2> QED BY <1>1, <1>2, <1>4, <2>1, <2>2, <2>3 DEF Owing, serverVars
<1> QED BY <1>8, <1>10, <1>12, <1>15, <1>16 DEF FreshInv, TabFresh

LEMMA SettleFresh ==
    ASSUME TypeInv, TypeInv', OrderInv, KnownInv, FreshInv, NEW t \in Tabs, Settle(t) PROVE FreshInv'
<1>0. PICK op \in worker[t].work, rest \in SUBSET worker[t].work, need \in BOOLEAN,
           seen \in {cursor, worker[t].seen} :
         \E got \in {worker[t].got, More(t, op)} : Settled(t, op, rest, need, seen, got)
  BY SettleIs DEF TypeInv
<1>1. PICK got \in {worker[t].got, More(t, op)} : Settled(t, op, rest, need, seen, got)  BY <1>0
<1>2. /\ Sending(t) /\ worker[t].pc = "settle" /\ worker[t].id = op.id /\ OthersKept(t)
      /\ worker'[t].work = rest /\ worker'[t].got = got /\ worker'[t].seen = seen
      /\ worker'[t].pc = IF rest = {} THEN "created" ELSE "push"
      /\ UNCHANGED <<serverVars, rows, cursor, lastId, repaired, page, crossed, removed>>
  <2>1. UNCHANGED <<serverVars, rows, cursor, lastId, repaired, page, histVars>>  BY <1>1, SettleNext
  <2>2. UNCHANGED <<crossed, removed>>  BY <2>1 DEF histVars
  <2> QED BY <1>1, <2>1, <2>2, SettleNext
<1>3. \A u \in Tabs \ {t} : ~Sending(u) /\ worker'[u] = worker[u]  BY <1>1, SettleNext
<1>4. /\ \A id \in DOMAIN journal \ {op.id} : id \in DOMAIN journal' /\ journal'[id] = journal[id]
      /\ \A id \in DOMAIN journal' \ {op.id} : id \in DOMAIN journal
      /\ \/ worker[t].outcome = "ok" /\ op.id \notin DOMAIN journal'
         \/ /\ worker[t].outcome \in {"retry", "rejected"} /\ op.id \in DOMAIN journal'
            /\ journal'[op.id].row = op.row /\ journal'[op.id].kind = op.kind
            /\ journal'[op.id].rejected <=> worker[t].outcome = "rejected"
  BY <1>1, SettleKeeps
<1>5. /\ Known(t, op) /\ op.row \in Rows /\ op.kind \in Kinds(op.row)
      /\ op.kind = "unsubscribe" => op.id \in Pending /\ journal[op.id].row = op.row
                                    /\ journal[op.id].kind = op.kind
  <2>1. Known(t, op) /\ op.row \in Rows /\ op.kind \in Kinds(op.row)
    BY <1>2, TabFacts DEF KnownInv, Workers, Op
  <2>2. op.kind = "unsubscribe" => op.row \in Podcasts  BY <2>1 DEF Kinds, Rows
  <2>3. op.row \in Podcasts => op.id \in Pending /\ op.id \in DOMAIN journal  BY <2>1 DEF Known, Pending
  <2> QED BY <2>1, <2>2, <2>3 DEF Known
<1>6. \A u \in Tabs : op.id \notin repaired[u]  BY <1>5 DEF KnownInv, Repairs, Known, Rejected, Pending
<1>7. worker[t].outcome = "ok" => changed[op.row] > cursor \/ (op.kind = "unsubscribe" /\ server[op.row] = 0)
  BY <1>2 DEF FreshInv, TabFresh, Sends
<1>8. ServerStep  BY <1>2, SameServer
<1>9. ASSUME NEW u \in Tabs, NEW r \in Episodes, Awaits(u, r) PROVE Awaits(u, r)' \/ changed'[r] > cursor
  <2>1. PICK id \in DOMAIN journal : journal[id].row = r /\ (journal[id].rejected => id \notin repaired[u])
    BY <1>9 DEF Awaits
  <2>2. CASE id # op.id  BY <1>2, <1>4, <2>1, <2>2 DEF Awaits
  <2>3. CASE id = op.id
    <3>1. r = op.row /\ op.kind # "unsubscribe"  BY <1>5, <1>9, <2>1, <2>3 DEF Known, Kinds
    <3>2. worker[t].outcome = "ok" => changed'[r] > cursor  BY <1>2, <1>7, <3>1 DEF serverVars
    <3>3. worker[t].outcome # "ok" => Awaits(u, r)'  BY <1>2, <1>4, <1>6, <3>1 DEF Awaits
    <3> QED BY <3>2, <3>3
  <2> QED BY <2>2, <2>3
<1>10. ASSUME NEW u \in Tabs, u # t PROVE TabFresh(u)'
  BY <1>2, <1>3, <1>8, <1>9, <1>10, TabStays DEF FreshInv, OthersKept
<1>11. Carries(t)'
  <2>1. /\ worker[t].seen <= cursor /\ (DOMAIN worker[t].got # {} => worker[t].seen = cursor)
        /\ worker[t].seen = cursor => \A r \in DOMAIN worker[t].got : Near(r, worker[t].got[r])
    BY <1>2 DEF FreshInv, TabFresh, Carries
  <2>2. \A r, v : Near(r, v)' <=> Near(r, v)  BY <1>2 DEF Near, serverVars
  <2>3. CASE got = worker[t].got /\ seen = worker[t].seen
    BY <1>2, <2>1, <2>2, <2>3 DEF Carries
  <2>4. CASE worker[t].outcome = "ok" /\ op.kind = "subscribe" /\ got = More(t, op) /\ seen = cursor
    <3>1. changed[op.row] > cursor  BY <1>7, <2>4
    <3>2. \A r \in DOMAIN got : r = op.row \/ (r \in DOMAIN worker[t].got /\ got[r] = worker[t].got[r])
      BY <2>4 DEF More
    <3>3. ASSUME NEW r \in DOMAIN got PROVE Near(r, got[r])
      <4>1. CASE r = op.row  BY <3>1, <4>1 DEF Near
      <4>2. CASE r \in DOMAIN worker[t].got /\ got[r] = worker[t].got[r]  BY <2>1, <4>2
      <4> QED BY <3>2, <4>1, <4>2
    <3>4. seen <= cursor  BY <2>4, StoreFacts
    <3> QED BY <1>2, <2>2, <2>4, <3>3, <3>4 DEF Carries
  <2> QED BY <1>1, <2>3, <2>4 DEF Settled
<1>12. Sends(t)'
  BY <1>2 DEF FreshInv, TabFresh, Sends, serverVars
<1>13. Fetches(t)'  BY <1>2, <1>8, PageStays DEF FreshInv, TabFresh
<1>14. worker[t].outcome = "ok" => Near(op.row, rows[op.row]) \/ op.row \in crossed \cup removed
  <2>1. SUFFICES ASSUME op.kind = "unsubscribe", server[op.row] = 0
                 PROVE  Near(op.row, rows[op.row]) \/ op.row \in crossed \cup removed
    BY <1>7 DEF Near
  <2>2. op.id \in Pending /\ journal[op.id].row = op.row /\ journal[op.id].kind = "unsubscribe"
    BY <1>5, <2>1
  <2>3. \/ changed[op.row] > cursor \/ op.row \in crossed \cup removed
        \/ rows[op.row] \in {0, server[op.row]}
    BY <2>2 DEF FreshInv, Owing
  <2> QED BY <2>1, <2>3 DEF Near
<1>15. ASSUME NEW r \in Rows PROVE RowFresh(r)'
  <2>1. RowFresh(r)  BY DEF FreshInv
  <2>2. Near(r, rows[r])' <=> Near(r, rows[r])  BY <1>2 DEF Near, serverVars
  <2>3. CASE Awaited(r)
    <3>1. PICK id \in DOMAIN journal : r \in Suspect(journal[id])
                                       /\ (journal[id].rejected => \E u \in Tabs : id \notin repaired[u])
      BY <2>3 DEF Awaited
    <3>2. CASE id # op.id
      <4>1. Awaited(r)'  BY <1>2, <1>4, <3>1, <3>2 DEF Awaited
      <4> QED BY <4>1 DEF RowFresh
    <3>3. CASE id = op.id
      <4>1. /\ r = op.row /\ r = journal[op.id].row /\ op.kind = journal[op.id].kind
            /\ ~(r \in Podcasts /\ op.kind = "subscribe")
        BY <1>5, <3>1, <3>3, SuspectIs DEF Known
      <4>2. CASE worker[t].outcome = "ok"  BY <1>2, <1>14, <2>2, <4>1, <4>2 DEF RowFresh
      <4>3. CASE worker[t].outcome # "ok"
        <5>1. r \in Suspect(journal'[op.id])  BY <1>4, <4>1, <4>3, SuspectIs
        <5>2. Awaited(r)'  BY <1>2, <1>4, <1>6, <4>3, <5>1 DEF Awaited
        <5> QED BY <5>2 DEF RowFresh
      <4> QED BY <4>2, <4>3
    <3> QED BY <3>2, <3>3
  <2> QED BY <1>2, <2>1, <2>2, <2>3 DEF RowFresh
<1>16. Owing'
  <2>1. ASSUME NEW id \in Pending'
        PROVE  /\ journal'[id].row \in Rows
               /\ server[journal'[id].row] = id => changed[journal'[id].row] > cursor
               /\ journal'[id].kind = "unsubscribe" =>
                    \/ changed[journal'[id].row] > cursor \/ journal'[id].row \in crossed \cup removed
                    \/ rows[journal'[id].row] \in {0, server[journal'[id].row]}
    <3>1. CASE id # op.id
      <4>1. id \in Pending /\ journal'[id] = journal[id]  BY <1>4, <3>1 DEF Pending
      <4> QED BY <4>1, StoreFacts DEF FreshInv, Owing, Pending
    <3>2. CASE id = op.id
      <4>1. journal'[id].row = op.row /\ journal'[id].kind = op.kind  BY <1>4, <3>2 DEF Pending
      <4>2. server[op.row] = op.id => changed[op.row] > cursor  BY <1>2 DEF FreshInv, TabFresh, Sends
      <4>3. op.kind = "unsubscribe" => /\ op.id \in Pending /\ journal[op.id].row = op.row
                                       /\ journal[op.id].kind = op.kind
        BY <1>5
      <4>4. op.kind = "unsubscribe" => \/ changed[op.row] > cursor \/ op.row \in crossed \cup removed
                                       \/ rows[op.row] \in {0, server[op.row]}
        BY <4>3 DEF FreshInv, Owing
      <4> QED BY <1>5, <3>2, <4>1, <4>2, <4>4
    <3> QED BY <3>1, <3>2
  <2> QED BY <1>2, <2>1 DEF Owing, serverVars
<1> QED BY <1>10, <1>11, <1>12, <1>13, <1>15, <1>16 DEF FreshInv, TabFresh

LEMMA StepFresh == ASSUME TypeInv, TypeInv', OrderInv, KnownInv, FreshInv, [Next]_vars PROVE FreshInv'
<1>1. CASE UNCHANGED vars
  <2>1. UNCHANGED <<server, changed, head, rows, cursor, journal, lastId, repaired, worker, page, crossed, removed>>
    BY <1>1 DEF vars, serverVars, storeVars, tabVars, histVars
  <2>2. ASSUME NEW t \in Tabs PROVE TabFresh(t)'
    <3>1. TabFresh(t)  BY DEF FreshInv
    <3>2. \A r : Awaits(t, r)' <=> Awaits(t, r)  BY <2>1 DEF Awaits
    <3>3. \A r, v : Near(r, v)' <=> Near(r, v)  BY <2>1 DEF Near
    <3>4. Carries(t)'  BY <2>1, <3>1, <3>2, <3>3 DEF TabFresh, Carries, Sending
    <3>5. Sends(t)'  BY <2>1, <3>1 DEF TabFresh, Sends, Sending
    <3>6. Fetches(t)'  BY <2>1, <3>1, <3>3 DEF TabFresh, Fetches
    <3> QED BY <3>4, <3>5, <3>6 DEF TabFresh
  <2>3. ASSUME NEW r \in Rows PROVE RowFresh(r)'
    BY <2>1 DEF FreshInv, RowFresh, Near, Awaited
  <2>4. Owing'  BY <2>1 DEF FreshInv, Owing, Pending
  <2> QED BY <2>2, <2>3, <2>4 DEF FreshInv
<1>2. ASSUME NEW t \in Tabs, Work(t) PROVE FreshInv'
  BY <1>2, DrainFresh, PushFresh, SettleFresh, CreatedFresh, RepairFresh, FixFresh, EndDrainFresh, PullFresh,
     CommitFresh, WritePageFresh DEF Work
<1> QED BY <1>1, <1>2, RemoteFresh, TickFresh, MergePageFresh, RemoveLocalFresh, FetchPageFresh,
           CommandFresh DEF Next

LEMMA InitFresh == ASSUME Init PROVE KnownInv /\ FreshInv
<1>1. /\ rows = server /\ cursor = head /\ head \in Nat /\ journal = <<>>
      /\ \A t \in Tabs : worker[t] = Idle /\ page[t] = <<>> /\ repaired[t] = {}
  BY WebAssumption DEF Init
<1>2. Pending = {}  BY <1>1 DEF Pending
<1>3. ASSUME NEW t \in Tabs
      PROVE  /\ ~Sending(t) /\ worker[t].pc = "idle" /\ DOMAIN worker[t].got = {} /\ worker[t].seen = 0
             /\ page[t] = <<>> /\ repaired[t] = {}
  BY <1>1 DEF Idle, Sending
<1>4. KnownInv  BY <1>3 DEF KnownInv, Repairs
<1>5. \A t \in Tabs : TabFresh(t)  BY <1>1, <1>3 DEF TabFresh, Carries, Sends, Fetches
<1>6. \A r \in Rows : RowFresh(r)  BY <1>1 DEF RowFresh, Near
<1>7. Owing  BY <1>2 DEF Owing
<1> QED BY <1>4, <1>5, <1>6, <1>7 DEF FreshInv

LEMMA KnownAlways == Spec => [](TypeInv /\ OrderInv /\ KnownInv)
<1>1. Init => KnownInv  BY InitFresh
<1>2. TypeInv /\ OrderInv /\ KnownInv /\ [Next]_vars => KnownInv'  BY StepKnown
<1> QED BY <1>1, <1>2, OrderAlways, PTL DEF Spec

LEMMA FreshAlways == Spec => [](TypeInv /\ OrderInv /\ KnownInv /\ FreshInv)
<1>1. Init => FreshInv  BY InitFresh
<1>2. TypeInv /\ OrderInv /\ KnownInv /\ FreshInv /\ TypeInv' /\ [Next]_vars => FreshInv'  BY StepFresh
<1> QED BY <1>1, <1>2, KnownAlways, PTL DEF Spec

\* The shared store is never silently stale: whatever tabs drain, pull, repair, reload and write late
\* pages, a row that differs from the server's has a change to come, an operation that writes it queued or
\* not yet repaired, was removed locally, or was written by a page or a repair that crossed a pull
\* (sync_store.rs commit_changes, network.rs drain_outbox, repair_rejections).
THEOREM StoreStaysFresh == Spec => []StoreFresh
<1>1. FreshInv => StoreFresh
  <2>1. ASSUME FreshInv, NEW row \in Rows
        PROVE  \/ rows[row] = server[row] \/ changed[row] > cursor \/ row \in crossed \cup removed
               \/ \E id \in DOMAIN journal : row \in Suspect(journal[id])
                                             /\ (journal[id].rejected => \E t \in Tabs : id \notin repaired[t])
    BY <2>1 DEF FreshInv, RowFresh, Near, Awaited
  <2> QED BY <2>1 DEF StoreFresh
<1> QED BY <1>1, FreshAlways, PTL

-----------------------------------------------------------------------------
\* What a tab queued, it shows.

\* The newest operation queued for a row.
Last(row, id) == id \in Queued(row) /\ \A x \in Queued(row) : x <= id

\* A tab shows the newest operation of a row when it is its own, and so does what it is about to write.
ShownBy(t) ==
    LET w == worker[t] IN
    /\ \A row \in Episodes : \A id : Last(row, id) /\ author[id] = t => pool[t][row] = id
    /\ w.pc = "fix" => \A id \in Pending : author[id] # t
    /\ w.pc = "merge" =>
         \A row \in DOMAIN w.got \cap Episodes : \A id : Last(row, id) /\ author[id] = t => w.got[row] = id
    /\ w.pc \in {"push", "settle", "created"} => DOMAIN w.got \cap Episodes = {}

ShownInv == \A t \in Tabs : ShownBy(t)

\* The others go on showing theirs, when nothing of theirs becomes the newest.
LEMMA OthersShown ==
    ASSUME ShownInv, NEW t \in Tabs, OthersKept(t), ShownBy(t)',
           \A u \in Tabs \ {t} : \A row \in Episodes : \A id :
             Last(row, id)' /\ author'[id] = u => Last(row, id) /\ author[id] = u,
           \A u \in Tabs \ {t} : \A id \in Pending' :
             worker[u].pc = "fix" /\ author'[id] = u => id \in Pending /\ author[id] = u
    PROVE  ShownInv'
<1>1. ASSUME NEW u \in Tabs, u # t PROVE ShownBy(u)'
  <2>1. worker'[u] = worker[u] /\ pool'[u] = pool[u]  BY <1>1 DEF OthersKept
  <2>2. ShownBy(u)  BY DEF ShownInv
  <2> QED BY <1>1, <2>1, <2>2 DEF ShownBy
<1> QED BY <1>1 DEF ShownInv

\* A step that leaves the journal and its authors alone.
LEMMA QuietShown ==
    ASSUME ShownInv, NEW t \in Tabs, OthersKept(t), UNCHANGED <<journal, author>>, ShownBy(t)'
    PROVE  ShownInv'
<1>1. Pending' = Pending /\ \A row, id : Last(row, id)' <=> Last(row, id)  BY DEF Pending, Queued, Last
<1> QED BY <1>1, OthersShown

\* ... and its own pool, on its way to a phase that carries nothing of an episode.
LEMMA CalmShown ==
    ASSUME ShownInv, NEW t \in Tabs, OthersKept(t), UNCHANGED <<journal, author>>,
           \A row \in Episodes : pool'[t][row] = pool[t][row],
           \/ worker'[t].pc \notin {"push", "settle", "created", "fix", "merge"}
           \/ worker'[t].pc \in {"push", "settle", "created"} /\ DOMAIN worker'[t].got \cap Episodes = {}
    PROVE  ShownInv'
<1>1. \A row, id : Last(row, id)' <=> Last(row, id)  BY DEF Pending, Queued, Last
<1>2. ShownBy(t)'  BY <1>1 DEF ShownInv, ShownBy
<1> QED BY <1>2, QuietShown

LEMMA DrainShown == ASSUME TypeInv, FreshInv, ShownInv, NEW t \in Tabs, Drain(t) PROVE ShownInv'
<1> DEFINE sent == {[id |-> id, row |-> journal[id].row, kind |-> journal[id].kind] : id \in Pending}
<1>1. OthersKept(t)  BY Alone DEF TypeInv, Acts, Work
<1>2. UNCHANGED <<journal, author, pool>>  BY DEF Drain, storeVars, histVars
<1>0. ASSUME GoTo(t, "end") PROVE ShownInv'
  <2>1. worker'[t].pc = "end"  BY <1>0, TabFacts DEF GoTo, Workers, TypeInv, Types, TabTypes
  <2> QED BY <1>1, <1>2, <2>1, CalmShown
<1> SUFFICES ASSUME Become(t, [worker[t] EXCEPT !.pc = IF Pending = {} THEN "repair" ELSE "push",
                                             !.work = sent])
             PROVE  ShownInv'
  BY <1>0 DEF Drain
<1>3. worker'[t] = [worker[t] EXCEPT !.pc = IF Pending = {} THEN "repair" ELSE "push", !.work = sent]
  BY DEF Drain, Become, TypeInv, Types, TabTypes
<1> HIDE DEF sent
<1>4. worker'[t].pc \in {"repair", "push"} /\ worker'[t].got = worker[t].got  BY <1>3, TabFacts DEF Workers
<1>5. DOMAIN worker[t].got = {}  BY DEF Drain, FreshInv, TabFresh, Carries
<1> QED BY <1>1, <1>2, <1>4, <1>5, CalmShown

LEMMA PushShown == ASSUME TypeInv, ShownInv, NEW t \in Tabs, Push(t) PROVE ShownInv'
<1>1. OthersKept(t)  BY Alone DEF TypeInv, Acts, Work
<1>2. PICK op \in worker[t].work, outcome \in {"ok", "retry", "rejected"} : PushOf(t, op, outcome)
  BY PushIs
<1>3. UNCHANGED <<journal, author, pool>>  BY <1>2 DEF PushOf, storeVars
<1>4. worker'[t] = [worker[t] EXCEPT !.pc = "settle", !.outcome = outcome, !.id = op.id]
  BY <1>2 DEF PushOf, Answered, TypeInv, Types, TabTypes
<1>5. worker'[t].pc = "settle" /\ worker'[t].got = worker[t].got  BY <1>4, TabFacts DEF Workers
<1>6. DOMAIN worker[t].got \cap Episodes = {}  BY <1>2 DEF PushOf, ShownInv, ShownBy
<1> QED BY <1>1, <1>3, <1>5, <1>6, CalmShown

LEMMA SettleShown == ASSUME TypeInv, OrderInv, KnownInv, ShownInv, NEW t \in Tabs, Settle(t) PROVE ShownInv'
<1>0. PICK op \in worker[t].work, rest \in SUBSET worker[t].work, need \in BOOLEAN,
           seen \in {cursor, worker[t].seen} :
         \E got \in {worker[t].got, More(t, op)} : Settled(t, op, rest, need, seen, got)
  BY SettleIs DEF TypeInv
<1>1. PICK got \in {worker[t].got, More(t, op)} : Settled(t, op, rest, need, seen, got)  BY <1>0
<1>2. /\ Sending(t) /\ worker[t].pc = "settle" /\ worker[t].id = op.id /\ OthersKept(t)
      /\ worker'[t].got = got /\ worker'[t].pc \in {"created", "push"} /\ UNCHANGED <<pool, histVars>>
  <2>1. Sending(t) /\ worker[t].pc = "settle" /\ worker[t].id = op.id /\ OthersKept(t)
        /\ worker'[t].got = got /\ worker'[t].pc = IF rest = {} THEN "created" ELSE "push"
    BY <1>1, SettleNext
  <2>2. UNCHANGED <<pool, histVars>>  BY <1>1, SettleNext
  <2> QED BY <2>1, <2>2
<1>3. /\ \A id \in DOMAIN journal \ {op.id} : id \in DOMAIN journal' /\ journal'[id] = journal[id]
      /\ \A id \in DOMAIN journal' \ {op.id} : id \in DOMAIN journal
      /\ \/ worker[t].outcome = "ok" /\ op.id \notin DOMAIN journal'
         \/ /\ worker[t].outcome \in {"retry", "rejected"} /\ op.id \in DOMAIN journal'
            /\ journal'[op.id].row = op.row /\ journal'[op.id].kind = op.kind
            /\ journal'[op.id].rejected <=> worker[t].outcome = "rejected"
  BY <1>1, SettleKeeps
<1>4. Known(t, op) /\ op.id \in Nat  BY <1>2, TabFacts DEF KnownInv
<1>5. UNCHANGED author  BY <1>2 DEF histVars
<1>6. \A id \in Pending : id \in Nat  BY DEF Pending, TypeInv, Types, StoreTypes
<1>7. ASSUME NEW id \in Pending PROVE op.id <= id
  <2>1. \/ \E x \in worker[t].work : x.id = id
        \/ \A x \in worker[t].work : x.id < id
    BY <1>2 DEF OrderInv, Covered
  <2>2. \A x \in worker[t].work : op.id <= x.id  BY <1>2 DEF KnownInv, Known
  <2> QED BY <1>4, <1>6, <2>1, <2>2
\* The operation settled was the oldest: what is the newest of its row was so before.
<1>8. ASSUME NEW row \in Episodes, NEW id, Last(row, id)' PROVE Last(row, id)
  <2>1. id \in Queued(row)
    <3>1. CASE id # op.id  BY <1>3, <1>8, <3>1 DEF Last, Queued, Pending
    <3>2. CASE id = op.id
      <4>1. row = op.row  BY <1>3, <1>8, <3>2 DEF Last, Queued, Pending
      <4>2. PICK x \in Queued(row) : x >= id  BY <1>4, <3>2, <4>1 DEF Known
      <4>3. CASE x = id  BY <4>2, <4>3
      <4>4. CASE x # id
        <5>1. x \in Queued(row)'  BY <1>3, <3>2, <4>2, <4>4 DEF Queued, Pending
        <5>2. x <= id /\ x \in Nat  BY <1>6, <1>8, <4>2, <5>1 DEF Last, Queued
        <5> QED BY <1>4, <3>2, <4>2, <4>4, <5>2
      <4> QED BY <4>3, <4>4
    <3> QED BY <3>1, <3>2
  <2>2. ASSUME NEW x \in Queued(row) PROVE x <= id
    <3>1. CASE x = op.id  BY <1>7, <2>1, <3>1 DEF Queued
    <3>2. CASE x # op.id
      <4>1. x \in Queued(row)'  BY <1>3, <2>2, <3>2 DEF Queued, Pending
      <4> QED BY <1>8, <4>1 DEF Last
    <3> QED BY <3>1, <3>2
  <2> QED BY <2>1, <2>2 DEF Last
<1>9. DOMAIN got \cap Episodes = {}
  <2>1. DOMAIN worker[t].got \cap Episodes = {}  BY <1>2 DEF ShownInv, ShownBy
  <2>2. CASE got = worker[t].got  BY <2>1, <2>2
  <2>3. CASE op.kind = "subscribe" /\ got = More(t, op)
    <3>1. op.kind \in Kinds(op.row)  BY <1>1, TabFacts DEF Workers, Op
    <3>2. op.row \notin Episodes  BY <2>3, <3>1 DEF Kinds
    <3> QED BY <2>1, <2>3, <3>2 DEF More
  <2> QED BY <1>1, <2>2, <2>3 DEF Settled
<1>10. ShownBy(t)'
  BY <1>2, <1>5, <1>8, <1>9 DEF ShownInv, ShownBy
<1>11. \A u \in Tabs \ {t} : worker[u].pc # "fix"
  BY <1>2, TabFacts, WebAssumption DEF TypeInv, Holding, Holds
<1> QED BY <1>2, <1>5, <1>8, <1>10, <1>11, OthersShown

LEMMA CommandShown ==
    ASSUME TypeInv, ShownInv, NEW t \in Tabs, NEW row \in Rows, NEW kind \in Kinds(row), Command(t, row, kind)
    PROVE  ShownInv'
<1> DEFINE old == Superseded(row, kind)
<1>1. /\ Pending' = (Pending \ old) \cup {lastId + 1}
      /\ \A id \in Pending \ old : journal'[id] = journal[id]
      /\ journal'[lastId + 1].row = row
      /\ lastId + 1 \notin DOMAIN journal
  BY CommandPending
<1>2. /\ \A id \in old : journal[id].row = row
      /\ \A id \in DOMAIN journal : id \in Nat /\ id <= lastId
  BY CommandKeeps
<1> HIDE DEF old
<1>3. OthersKept(t)  BY Alone DEF TypeInv, Acts
<1>4. lastId \in Nat /\ lastId + 1 \in 1..MaxOps
  BY WebAssumption DEF Command, TypeInv, Types, StoreTypes
<1>5. author' = [author EXCEPT ![lastId + 1] = t] /\ author'[lastId + 1] = t
      /\ \A id : id # lastId + 1 => author'[id] = author[id]
  BY <1>4 DEF Command, TypeInv, Types, HistTypes
<1>6. \A r \in Rows : r # row => Queued(r)' = Queued(r)  BY <1>1, <1>2 DEF Queued, Pending
<1>7. \A id : Last(row, id)' => id = lastId + 1
  <2>1. lastId + 1 \in Queued(row)'  BY <1>1 DEF Queued
  <2>2. \A id \in Pending' : id = lastId + 1 \/ (id \in Nat /\ id <= lastId)  BY <1>1, <1>2 DEF Pending
  <2> QED BY <1>4, <2>1, <2>2 DEF Last, Queued
<1>8. \A r \in Episodes : \A id : r # row /\ Last(r, id)' => Last(r, id) /\ id # lastId + 1
  BY <1>1, <1>6 DEF Last, Rows, Queued, Pending
<1>9. worker'[t].pc = "drain"  BY TabFacts DEF Command, GoTo, Workers, TypeInv, Types, TabTypes
<1>10. row \in Episodes => pool'[t][row] = lastId + 1
  BY DEF Command, Kinds, Effect, TypeInv, Types, TabTypes
<1>11. \A r \in Rows : r # row => pool'[t][r] = pool[t][r]
  BY DEF Command, TypeInv, Types, TabTypes
<1>12. ShownBy(t)'
  <2>1. ASSUME NEW r \in Episodes, NEW id, Last(r, id)', author'[id] = t PROVE pool'[t][r] = id
    <3>1. CASE r = row  BY <1>7, <1>10, <2>1, <3>1
    <3>2. CASE r # row
      BY <1>5, <1>8, <1>11, <2>1, <3>2 DEF ShownInv, ShownBy, Rows
    <3> QED BY <3>1, <3>2
  <2> QED BY <1>9, <2>1 DEF ShownBy
<1>13. ASSUME NEW u \in Tabs \ {t}, NEW r \in Episodes, NEW id, Last(r, id)', author'[id] = u
       PROVE  Last(r, id) /\ author[id] = u
  <2>1. id # lastId + 1  BY <1>5, <1>13
  <2>2. r # row  BY <1>7, <1>13, <2>1
  <2> QED BY <1>5, <1>8, <1>13, <2>1, <2>2
<1>14. ASSUME NEW u \in Tabs \ {t}, NEW id \in Pending', author'[id] = u
       PROVE  id \in Pending /\ author[id] = u
  BY <1>1, <1>5, <1>14
<1> QED BY <1>3, <1>12, <1>13, <1>14, OthersShown

\* Rows written unchecked: the tab shows them, and the rest as before.
LEMMA UncheckedShows ==
    ASSUME TypeInv, NEW t \in Tabs, NEW got, NEW seen, Unchecked(t, got, seen)
    PROVE  \A row \in Rows : pool'[t][row] = IF row \in DOMAIN got THEN got[row] ELSE pool[t][row]
<1>1. pool'[t] = Over(pool[t], got)  BY DEF Unchecked, TypeInv, Types, TabTypes
<1> QED BY <1>1 DEF Over

LEMMA CreatedShown == ASSUME TypeInv, ShownInv, NEW t \in Tabs, Created(t) PROVE ShownInv'
<1>1. OthersKept(t)  BY Alone DEF TypeInv, Acts, Work
<1>2. UNCHANGED <<journal, author>>  BY DEF Created
<1>3. worker'[t].pc = "repair"
  BY TabFacts DEF Created, Become, TypeInv, Types, TabTypes, Workers
<1>4. DOMAIN worker[t].got \cap Episodes = {}  BY DEF Created, ShownInv, ShownBy
<1>5. DOMAIN Admitted(t, worker[t].got) \cap Episodes = {}  BY <1>4 DEF Admitted
<1>6. \A row \in Episodes : pool'[t][row] = pool[t][row]
  <2>1. Unchecked(t, Admitted(t, worker[t].got), worker[t].seen)  BY DEF Created
  <2>2. \A row \in Rows : row \notin DOMAIN Admitted(t, worker[t].got) => pool'[t][row] = pool[t][row]
    BY <2>1, UncheckedShows
  <2> QED BY <1>5, <2>2 DEF Rows
<1> QED BY <1>1, <1>2, <1>3, <1>6, CalmShown

LEMMA RepairShown == ASSUME TypeInv, ShownInv, NEW t \in Tabs, Repair(t) PROVE ShownInv'
<1>1. OthersKept(t)  BY Alone DEF TypeInv, Acts, Work
<1>2. UNCHANGED <<journal, author, pool>>  BY Zenon DEF Repair, storeVars, histVars
<1>3. CASE GoTo(t, "end")
  <2>1. worker'[t].pc = "end"  BY <1>3, TabFacts DEF GoTo, TypeInv, Types, TabTypes, Workers
  <2> QED BY <1>1, <1>2, <2>1, CalmShown
<1>4. CASE Pending = {} /\ \E id, seen, got :
             Become(t, [worker[t] EXCEPT !.pc = "fix", !.id = id, !.seen = seen, !.got = got])
  <2>1. worker'[t].pc = "fix"  BY <1>4, TabFacts DEF Become, TypeInv, Types, TabTypes, Workers
  <2>2. Pending' = {}  BY <1>2, <1>4 DEF Pending
  <2>3. ShownBy(t)'  BY <2>1, <2>2 DEF ShownBy, Last, Queued
  <2> QED BY <1>1, <1>2, <2>3, QuietShown
<1> QED BY <1>3, <1>4, Zenon DEF Repair

LEMMA FixShown == ASSUME TypeInv, ShownInv, NEW t \in Tabs, Fix(t) PROVE ShownInv'
<1>1. OthersKept(t)  BY Alone DEF TypeInv, Acts, Work
<1>2. UNCHANGED <<journal, author>>  BY DEF Fix
<1>3. worker'[t].pc = "repair"
  BY TabFacts DEF Fix, Become, TypeInv, Types, TabTypes, Workers
<1>4. \A id \in Pending : author[id] # t  BY DEF Fix, ShownInv, ShownBy
<1>5. Pending' = Pending  BY <1>2 DEF Pending
<1>6. ShownBy(t)'  BY <1>2, <1>3, <1>4, <1>5 DEF ShownBy, Last, Queued
<1> QED BY <1>1, <1>2, <1>6, QuietShown

LEMMA PullShown == ASSUME TypeInv, ShownInv, NEW t \in Tabs, Pull(t) \/ EndDrain(t) \/ Tick(t) PROVE ShownInv'
<1>1. OthersKept(t)  BY Alone DEF TypeInv, Acts, Work
<1>2. UNCHANGED <<journal, author, pool>>  BY DEF Pull, EndDrain, Tick, storeVars, histVars
<1>3. worker'[t].pc \in {"idle", "drain", "pull", "commit"}
  <2>1. worker \in [Tabs -> Workers] /\ worker[t] \in Workers  BY DEF TypeInv, Types, TabTypes
  <2>2. CASE EndPull(t)  BY <2>1, <2>2 DEF EndPull, Become, Idle
  <2>3. CASE EndDrain(t)  BY <2>1, <2>3 DEF EndDrain, Become, GoTo, Idle, Workers
  <2>4. CASE Tick(t)  BY <2>1, <2>4 DEF Tick, Become, Idle
  <2>5. ASSUME NEW seen, NEW next, NEW got,
               Become(t, [worker[t] EXCEPT !.pc = "commit", !.seen = seen, !.next = next, !.got = got])
        PROVE  worker'[t].pc = "commit"
    BY <2>1, <2>5 DEF Become, Workers
  <2> QED BY <2>2, <2>3, <2>4, <2>5, Zenon DEF Pull
<1> QED BY <1>1, <1>2, <1>3, CalmShown

\* A pull is committed only when nothing is queued.
LEMMA CommitShown == ASSUME TypeInv, ShownInv, NEW t \in Tabs, Commit(t) PROVE ShownInv'
<1>1. OthersKept(t)  BY Alone DEF TypeInv, Acts, Work
<1>2. UNCHANGED <<journal, author>>  BY DEF Commit
<1>3. worker'[t].pc \in {"idle", "pull"}
  BY DEF Commit, EndPull, Become, Idle, TypeInv, Types, TabTypes
<1>4. CASE UNCHANGED pool  BY <1>1, <1>2, <1>3, <1>4, CalmShown
<1>5. CASE Pending = {}
  <2>1. Pending' = {}  BY <1>2, <1>5 DEF Pending
  <2>2. ShownBy(t)'  BY <1>3, <2>1 DEF ShownBy, Last, Queued
  <2> QED BY <1>1, <1>2, <2>2, QuietShown
<1> QED BY <1>4, <1>5 DEF Commit, MayCommit

LEMMA WritePageShown == ASSUME TypeInv, ShownInv, NEW t \in Tabs, WritePage(t) PROVE ShownInv'
<1>1. OthersKept(t)  BY Alone DEF TypeInv, Acts, Work
<1>2. UNCHANGED <<journal, author>> /\ worker[t].pc = "merge" /\ Unchecked(t, worker[t].got, worker[t].seen)
  BY DEF WritePage
<1>3. worker'[t].pc = "drain"  BY DEF WritePage, Become, Idle, TypeInv, Types, TabTypes
<1>4. \A row, id : Last(row, id)' <=> Last(row, id)  BY <1>2 DEF Pending, Queued, Last
<1>5. \A row \in Rows : pool'[t][row] = IF row \in DOMAIN worker[t].got THEN worker[t].got[row] ELSE pool[t][row]
  BY <1>2, UncheckedShows
<1>6. ShownBy(t)'
  BY <1>2, <1>3, <1>4, <1>5 DEF ShownInv, ShownBy, Rows
<1> QED BY <1>1, <1>2, <1>6, QuietShown

\* A page takes what the pool has of a row that something is queued for.
LEMMA MergePageShown == ASSUME TypeInv, ShownInv, NEW t \in Tabs, MergePage(t) PROVE ShownInv'
<1> DEFINE p == page[t][1]
           got == Only(p.row, Kept(t, p))
<1>1. OthersKept(t)  BY Alone DEF TypeInv, Acts
<1>2. UNCHANGED <<journal, author, pool>>  BY DEF MergePage, storeVars, histVars
<1>3. worker'[t] = [Idle EXCEPT !.pc = "merge", !.seen = p.seen, !.got = Admitted(t, got)]
  BY DEF MergePage, Become, TypeInv, Types, TabTypes
<1>4. DOMAIN Admitted(t, got) \subseteq {p.row} /\ \A r \in DOMAIN Admitted(t, got) : Admitted(t, got)[r] = Kept(t, p)
  BY DEF Admitted, Only
<1>5. p.row \in Episodes /\ Queued(p.row) # {} /\ pool[t][p.row] # 0 => Kept(t, p) = pool[t][p.row]
  BY DEF Kept
<1> HIDE DEF p, got
<1>6. worker'[t].pc = "merge" /\ worker'[t].got = Admitted(t, got)  BY <1>3 DEF Idle
<1>7. \A row, id : Last(row, id)' <=> Last(row, id)  BY <1>2 DEF Pending, Queued, Last
<1>8. ASSUME NEW row \in Episodes, NEW id, Last(row, id), author[id] = t, row = p.row PROVE Kept(t, p) = id
  <2>1. pool[t][row] = id  BY <1>8 DEF ShownInv, ShownBy
  <2>2. id \in Queued(row) /\ id # 0
    BY <1>8 DEF Last, Queued, Pending, TypeInv, Bounds, StoreBounds, Ids
  <2> QED BY <1>5, <1>8, <2>1, <2>2
<1>9. ShownBy(t)'
  BY <1>2, <1>4, <1>6, <1>7, <1>8 DEF ShownInv, ShownBy
<1> QED BY <1>1, <1>2, <1>9, QuietShown

\* What a reload or a removal takes away is nobody's any more.
LEMMA ReloadShown == ASSUME TypeInv, ShownInv, NEW t \in Tabs, Reload(t) PROVE ShownInv'
<1>1. OthersKept(t)  BY Alone DEF TypeInv, Acts
<1>2. UNCHANGED journal  BY DEF Reload, storeVars
<1>3. \A id \in 1..MaxOps : author'[id] # t /\ author'[id] \in {author[id], NoTab}
  BY WebAssumption DEF Reload, TypeInv, Types, HistTypes
<1>4. Pending' = Pending /\ \A row, id : Last(row, id)' <=> Last(row, id)  BY <1>2 DEF Pending, Queued, Last
<1>5. \A id \in Pending : id \in 1..MaxOps
  BY WebAssumption DEF Pending, TypeInv, Types, StoreTypes, Bounds, StoreBounds, Ids
<1>6. worker'[t].pc = "idle"  BY DEF Reload, Become, Idle, TypeInv, Types, TabTypes
<1>7. ShownBy(t)'  BY <1>3, <1>4, <1>5, <1>6 DEF ShownBy, Last, Queued
<1>8. \A row, id : Last(row, id) => id \in Pending  BY DEF Last, Queued
<1> QED BY <1>1, <1>3, <1>4, <1>5, <1>7, <1>8, OthersShown, WebAssumption

LEMMA RemoveLocalShown ==
    ASSUME TypeInv, ShownInv, NEW t \in Tabs, NEW row \in Rows, RemoveLocal(t, row) PROVE ShownInv'
<1>1. OthersKept(t)  BY Alone DEF TypeInv, Acts
<1>2. UNCHANGED journal  BY DEF RemoveLocal
<1>3. \A id \in 1..MaxOps : /\ author'[id] \in {author[id], NoTab}
                            /\ author'[id] = t => id \notin Queued(row)
  BY WebAssumption DEF RemoveLocal, TypeInv, Types, HistTypes
<1>4. Pending' = Pending /\ \A r, id : Last(r, id)' <=> Last(r, id)  BY <1>2 DEF Pending, Queued, Last
<1>5. \A id \in Pending : id \in 1..MaxOps
  BY WebAssumption DEF Pending, TypeInv, Types, StoreTypes, Bounds, StoreBounds, Ids
<1>6. worker'[t].pc = "drain"  BY TabFacts DEF RemoveLocal, GoTo, TypeInv, Types, TabTypes, Workers
<1>7. \A r \in Rows : r # row => pool'[t][r] = pool[t][r]
  BY DEF RemoveLocal, TypeInv, Types, TabTypes
<1>8. \A r, id : Last(r, id) => id \in Pending /\ id \in Queued(r)  BY DEF Last, Queued
<1>9. t # NoTab  BY WebAssumption
<1>10. ASSUME NEW r \in Episodes, NEW id, Last(r, id)', author'[id] = t PROVE pool'[t][r] = id
  <2>1. Last(r, id) /\ id \in 1..MaxOps /\ id \in Queued(r)  BY <1>4, <1>5, <1>8, <1>10
  <2>2. author[id] = t /\ r # row  BY <1>3, <1>9, <1>10, <2>1
  <2> QED BY <1>7, <2>1, <2>2 DEF ShownInv, ShownBy, Rows
<1>11. ShownBy(t)'  BY <1>6, <1>10 DEF ShownBy
<1> QED BY <1>1, <1>3, <1>4, <1>5, <1>8, <1>11, OthersShown, WebAssumption

LEMMA StepShown ==
    ASSUME TypeInv, OrderInv, KnownInv, FreshInv, ShownInv, [Next]_vars PROVE ShownInv'
<1>1. ASSUME UNCHANGED <<journal, author, pool, worker>> PROVE ShownInv'
  <2>1. Pending' = Pending /\ \A row, id : Last(row, id)' <=> Last(row, id)  BY <1>1 DEF Pending, Queued, Last
  <2> QED BY <1>1, <2>1 DEF ShownInv, ShownBy
<1>2. CASE UNCHANGED vars  BY <1>1, <1>2 DEF vars, storeVars, tabVars, histVars
<1>3. ASSUME NEW row \in Rows, Remote(row) PROVE ShownInv'
  BY <1>1, <1>3 DEF Remote, storeVars, tabVars, histVars
<1>4. ASSUME NEW t \in Tabs, Work(t) PROVE ShownInv'
  BY <1>4, DrainShown, PushShown, SettleShown, CreatedShown, RepairShown, FixShown, PullShown, CommitShown,
     WritePageShown DEF Work
<1>5. ASSUME NEW t \in Tabs, NEW row \in Rows, FetchPage(t, row) PROVE ShownInv'
  BY <1>1, <1>5 DEF FetchPage, storeVars, histVars
<1> QED BY <1>2, <1>3, <1>4, <1>5, PullShown, ReloadShown, MergePageShown, RemoveLocalShown, CommandShown
        DEF Next

\* What a tab queued for an episode it shows until it is sent, whatever page, pull, repair or other tab
\* comes in between: a page keeps what the pool has of a row that something is queued for, a pull commits
\* and a repair reads only when nothing is queued (network.rs merge_history_page, sync_store.rs
\* commit_changes).
THEOREM QueuedStaysShown == Spec => []QueuedShown
<1>1. Init => ShownInv
  <2>1. ASSUME Init PROVE ShownInv
    <3>1. Pending = {} /\ \A t \in Tabs : worker[t].pc = "idle"  BY <2>1 DEF Init, Pending, Idle
    <3> QED BY <3>1 DEF ShownInv, ShownBy, Last, Queued
  <2> QED BY <2>1
<1>2. TypeInv /\ OrderInv /\ KnownInv /\ FreshInv /\ ShownInv /\ [Next]_vars => ShownInv'  BY StepShown
<1>3. TypeInv /\ ShownInv => QueuedShown
  <2>1. ASSUME TypeInv, ShownInv, NEW row \in Episodes, NEW id \in Queued(row), author[id] # NoTab,
               \A x \in Queued(row) : x <= id
        PROVE  pool[author[id]][row] = id
    <3>1. id \in 1..MaxOps
      BY <2>1, WebAssumption DEF Queued, Pending, TypeInv, Types, StoreTypes, Bounds, StoreBounds, Ids
    <3>2. author[id] \in Tabs  BY <2>1, <3>1 DEF TypeInv, Types, HistTypes
    <3>3. Last(row, id)  BY <2>1 DEF Last
    <3> QED BY <2>1, <3>2, <3>3 DEF ShownInv, ShownBy
  <2> QED BY <2>1 DEF QueuedShown
<1> QED BY <1>1, <1>2, <1>3, FreshAlways, PTL DEF Spec
==============================================================================
