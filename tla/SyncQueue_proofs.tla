-------------------------- MODULE SyncQueue_proofs --------------------------
(***************************************************************************)
(* The sync engine: every step keeps the types and the library sound, and  *)
(* the journal keeps what it promises its host.                            *)
(***************************************************************************)
EXTENDS SyncQueue, Library_proofs

\* A request is under way for the first pending entry.
Sending == \A d \in Devices : pc[d] = "sent" => Pending(d) # {}

\* Type correctness, made inductive.
TypeInv == TypeOK /\ LibInv /\ Sending

LEMMA FirstPending ==
    ASSUME QueueTypeOK, NEW d \in Devices, Pending(d) # {}
    PROVE  First(d) \in Pending(d) /\ \A x \in Pending(d) : First(d).id <= x.id
<1> DEFINE T == {e.id : e \in Pending(d)}
<1> DEFINE R == {ss \in Nat \X Nat : ss[1] < ss[2]}
<1>1. \A e \in Pending(d) : e.id \in Nat  BY DEF QueueTypeOK, Pending, Entry
<1>2. T \subseteq Nat  BY <1>1
<1>3. T # {}  OBVIOUS
<1>4. PICK n \in T : \A m \in T : <<m, n>> \notin R
  <2>1. IsWellFoundedOn(R, Nat)  BY NatBelow
  <2> HIDE DEF T, R
  <2> QED BY <1>2, <1>3, <2>1, WFMin
<1>5. PICK e \in Pending(d) : e.id = n  OBVIOUS
<1>6. ASSUME NEW x \in Pending(d) PROVE e.id <= x.id
  <2>1. x.id \in T  OBVIOUS
  <2>2. ~(x.id < n)  BY <1>2, <1>4, <2>1
  <2> QED BY <1>1, <1>5, <2>2
<1> QED BY <1>5, <1>6 DEF First

\* What an operation does to the library leaves it sound.
LEMMA EffectStep ==
    ASSUME LibInv, NEW o \in Ops, Live(OpTarget[o]), Effect(o)
    PROVE  LibInv' /\ Moved
<1> DEFINE t == OpTarget[o]
<1> DEFINE members == IF OpKind[o] = "AddToPlaylist"
                      THEN row[t].refs \cup {e \in {OpMember[o]} : Live(e)}
                      ELSE row[t].refs \ {OpMember[o]}
<1>1. t \in TargetsOf(OpKind[o]) /\ OpKind[o] \in OpKinds /\ OpMember[o] \in Episodes
  BY OpAssumption
<1>2. CASE OpKind[o] \in {"SetCursor", "MarkPlayed"} /\ SetPlayback(t, FALSE)
  BY <1>1, <1>2, SetPlaybackStep DEF TargetsOf
<1>3. CASE OpKind[o] = "Unsubscribe" /\ \E PB \in SUBSET EpisodesOf(t) : DeletePodcast(t, PB)
  BY <1>1, <1>3, DeletePodcastStep DEF TargetsOf
<1>4. CASE /\ OpKind[o] \in {"AddToPlaylist", "RemoveFromPlaylist"}
           /\ IF members = row[t].refs THEN UNCHANGED libVars ELSE SetMembers(t, members)
  <2>1. t \in Playlists  BY <1>1, <1>4 DEF TargetsOf
  <2>2. row[t].refs \in SUBSET Episodes  BY <2>1, RefsType DEF LibInv, Res
  <2>3. members \in SUBSET Episodes  BY <1>1, <2>2
  <2> QED BY <1>4, <2>1, <2>3, StutterStep, SetMembersStep
<1> QED BY <1>2, <1>3, <1>4 DEF Effect

\* Every step leaves the library sound: it writes, expires events, replaces the
\* database, or leaves the library alone.
LibraryMoves == Moved \/ Expired \/ epoch' = epoch + 1

LEMMA LibraryStep ==
    ASSUME TypeInv, [Next]_vars PROVE LibInv' /\ LibraryMoves
<1> USE DEF TypeInv, TypeOK, LibraryMoves
<1>1. CASE UNCHANGED libVars  BY <1>1, StutterStep
<1>2. CASE Background  BY <1>2, BackgroundStep
<1>3. CASE \E f \in floor..head : ReadChanges(f)  BY <1>3, ReadStep
<1>4. ASSUME NEW d \in Devices, Serve(d) PROVE LibInv' /\ LibraryMoves
  <2>1. First(d) \in Pending(d)  BY <1>4, FirstPending DEF Serve, Sending
  <2>2. First(d).op \in Ops  BY <2>1 DEF QueueTypeOK, Pending, Entry
  <2>3. CASE UNCHANGED libVars  BY <2>3, <1>1
  <2>4. CASE Live(OpTarget[First(d).op]) /\ Effect(First(d).op)
    BY <2>2, <2>4, EffectStep
  <2> QED BY <1>4, <2>3, <2>4 DEF Serve, NoEffect, TakeEffect
<1>5. ASSUME NEW req \in late, ServeLate(req) PROVE LibInv' /\ LibraryMoves
  <2>1. req.op \in Ops  BY DEF QueueTypeOK
  <2>2. CASE UNCHANGED libVars  BY <2>2, <1>1
  <2>3. CASE Live(OpTarget[req.op]) /\ Effect(req.op)  BY <2>1, <2>3, EffectStep
  <2> QED BY <1>5, <2>2, <2>3 DEF ServeLate, NoEffect, TakeEffect
<1>6. ASSUME NEW d \in Devices, Push(d) PROVE LibInv' /\ LibraryMoves
  BY <1>1, <1>4, <1>6 DEF Push, Send, EndDrain, Settle
<1>7. ASSUME NEW d \in Devices, Pull(d) PROVE LibInv' /\ LibraryMoves
  BY <1>1, <1>3, <1>7 DEF Pull, StartPull, Fetch, CommitDelta, Commit, ListPage, Check,
                          Rehead, CommitSnapshot
<1>8. ASSUME NEW d \in Devices, Host(d) \/ Abort(d) PROVE LibInv' /\ LibraryMoves
  BY <1>1, <1>8 DEF Host, Import, ConfirmCached, ClearAll, ResetStaleCache, Empty, Abort
<1> QED BY <1>1, <1>2, <1>5, <1>6, <1>7, <1>8 DEF Next, vars

-----------------------------------------------------------------------------
\* Types step by step.

QueueInv == QueueTypeOK /\ Sending

\* The journals and phases stand still: so does First.
LEMMA SendingKept ==
    ASSUME Sending, UNCHANGED <<journal, pc>> PROVE Sending'
BY DEF Sending, Pending

LEMMA BackgroundTypes ==
    ASSUME TypeInv, UNCHANGED <<journalVars, cache, cursor, pc, reply, pullVars, late, trouble,
                                ghostVars>>
    PROVE  QueueInv'
BY DEF TypeInv, TypeOK, QueueTypeOK, QueueInv, Sending, Pending,
       journalVars, pullVars, ghostVars

LEMMA ImportTypes ==
    ASSUME TypeInv, NEW d \in Devices, NEW o \in Ops, Import(d, o) PROVE QueueInv'
<1> DEFINE e == [id |-> serial[d] + 1, op |-> o, attempts |-> 0, status |-> "pending"]
<1>1. e \in Entry
  BY LimitAssumption DEF TypeInv, TypeOK, QueueTypeOK, Entry, Statuses
<1>2. OpsOf(Superseded(d, o)) \subseteq Ops
  BY DEF TypeInv, TypeOK, QueueTypeOK, OpsOf, Superseded, Pending, Entry
<1>3. journal' \in [Devices -> SUBSET Entry]
  BY <1>1 DEF Import, TypeInv, TypeOK, QueueTypeOK
<1>4. QueueTypeOK'
  BY <1>2, <1>3 DEF Import, TypeInv, TypeOK, QueueTypeOK, pullVars
<1>5. Sending'
  BY DEF Import, TypeInv, TypeOK, QueueTypeOK, Sending, Pending, GateFree
<1> QED BY <1>4, <1>5 DEF QueueInv

LEMMA ConfirmCachedTypes ==
    ASSUME TypeInv, NEW d \in Devices, NEW wanted \in SUBSET Ops, ConfirmCached(d, wanted)
    PROVE  QueueInv'
<1>1. QueueTypeOK'
  BY DEF ConfirmCached, TypeInv, TypeOK, QueueTypeOK, pullVars, ghostVars
<1>2. Sending'
  BY DEF ConfirmCached, TypeInv, TypeOK, QueueTypeOK, Sending, Pending, GateFree
<1> QED BY <1>1, <1>2 DEF QueueInv

LEMMA NothingType == Nothing \in [Res -> Row \cup {NoRow}]
BY DEF Nothing

LEMMA EmptyTypes ==
    ASSUME TypeInv, NEW d \in Devices, ClearAll(d) \/ ResetStaleCache(d) PROVE QueueInv'
<1>1. QueueTypeOK'
  <2>1. OpsOf(journal[d]) \subseteq Ops
    BY DEF TypeInv, TypeOK, QueueTypeOK, OpsOf, Entry
  <2>2. journal' \in [Devices -> SUBSET Entry] /\ wiped' \subseteq Ops
    BY <2>1 DEF ClearAll, ResetStaleCache, TypeInv, TypeOK, QueueTypeOK
  <2>3. cache' \in [Devices -> [Res -> Row \cup {NoRow}]]
    BY NothingType, ZenonT(30) DEF ClearAll, ResetStaleCache, Empty, TypeInv, TypeOK, QueueTypeOK
  <2>4. Empty(d)  BY DEF ClearAll, ResetStaleCache
  <2>5. trouble' \in Nat /\ cursor' \in [Devices -> Cursor \cup {NoCursor}]
    BY <2>4 DEF Empty, Trouble, TypeInv, TypeOK, QueueTypeOK
  <2> QED
    BY <2>2, <2>3, <2>4, <2>5 DEF Empty, TypeInv, TypeOK, QueueTypeOK, pullVars
<1>2. Sending'
  BY DEF ClearAll, ResetStaleCache, Empty, TypeInv, TypeOK, QueueTypeOK, Sending, Pending,
         GateFree
<1> QED BY <1>1, <1>2 DEF QueueInv

LEMMA SendTypes ==
    ASSUME TypeInv, NEW d \in Devices, Send(d) \/ EndDrain(d) PROVE QueueInv'
<1>1. QueueTypeOK'
  BY DEF Send, EndDrain, TypeInv, TypeOK, QueueTypeOK, Phases, journalVars, pullVars, ghostVars
<1>2. Sending'
  BY DEF Send, EndDrain, TypeInv, TypeOK, QueueTypeOK, Sending, Pending, journalVars
<1> QED BY <1>1, <1>2 DEF QueueInv

LEMMA ServeTypes ==
    ASSUME TypeInv, NEW d \in Devices, Serve(d) PROVE QueueInv'
<1>1. First(d) \in Pending(d)  BY FirstPending DEF Serve, TypeInv, TypeOK, Sending
<1>2. First(d).op \in Ops /\ First(d).id \in Nat
  BY <1>1 DEF TypeInv, TypeOK, QueueTypeOK, Pending, Entry
<1>3. took' \subseteq Ops /\ newest' \in [Devices -> Nat]
  BY <1>2 DEF Serve, TakeEffect, NoEffect, TypeInv, TypeOK, QueueTypeOK
<1>4. trouble' \in Nat /\ reply' \in [Devices -> Replies]
  <2>1. trouble' = trouble \/ trouble' = trouble + 1
    BY DEF Serve, Trouble
  <2>2. \E answer \in Replies : reply' = [reply EXCEPT ![d] = answer]
    BY DEF Serve, Replies
  <2> QED BY <2>1, <2>2 DEF TypeInv, TypeOK, QueueTypeOK
<1>5. QueueTypeOK'
  BY <1>3, <1>4 DEF Serve, TypeInv, TypeOK, QueueTypeOK, journalVars, pullVars
<1>6. Sending'
  BY SendingKept DEF Serve, TypeInv, journalVars
<1> QED BY <1>5, <1>6 DEF QueueInv

LEMMA SettleTypes ==
    ASSUME TypeInv, NEW d \in Devices, Settle(d) PROVE QueueInv'
<1> DEFINE e == First(d)
<1> DEFINE attempts == IF reply[d] = "countable" THEN e.attempts + 1 ELSE e.attempts
<1> DEFINE absent == reply[d] = "missing" /\ OpKind[e.op] \in AbsenceKinds
<1> DEFINE applied == reply[d] = "ok" \/ absent
<1> DEFINE rejected == ~applied /\ (reply[d] \in PermanentReplies \/ Exhausted(attempts))
<1> DEFINE status == IF applied THEN "delivered" ELSE IF rejected THEN "rejected" ELSE "pending"
<1> DEFINE settled == [e EXCEPT !.attempts = attempts, !.status = status]
<1>1. e \in Pending(d)  BY FirstPending DEF Settle, TypeInv, TypeOK, Sending
<1>2. e \in Entry /\ e.attempts \in Nat /\ e.attempts < Budget /\ e.op \in Ops
  BY <1>1, LimitAssumption DEF TypeInv, TypeOK, QueueTypeOK, Pending, Entry
<1>3. attempts \in 0..Budget /\ status \in Statuses
  BY <1>2, LimitAssumption DEF Statuses
<1>4. status = "pending" => attempts < Budget
  BY <1>2, <1>3, LimitAssumption DEF Exhausted
<1>5. settled \in Entry
  <2>1. e \in [id : Nat, op : Ops, attempts : 0..Budget, status : Statuses]
    BY <1>2 DEF Entry
  <2> HIDE DEF e, attempts, status
  <2>2. settled \in [id : Nat, op : Ops, attempts : 0..Budget, status : Statuses]
    BY <1>3, <2>1
  <2>3. settled.attempts = attempts /\ settled.status = status
    BY <2>1
  <2> QED BY <1>4, <2>2, <2>3 DEF Entry
<1>6. /\ journal' = [journal EXCEPT ![d] = (@ \ {e}) \cup {settled}]
      /\ pc' = [pc EXCEPT ![d] = IF status = "pending" THEN "idle" ELSE "drain"]
      /\ reply' = [reply EXCEPT ![d] = "none"]
      /\ moot' = IF absent THEN moot \cup {e.op} ELSE moot
      /\ UNCHANGED <<libVars, serial, receipts, cache, cursor, pullVars, late, trouble,
                     took, replaced, wiped, newest>>
  BY DEF Settle
<1> HIDE DEF e, settled, status, absent
<1>7. QueueTypeOK'
  BY <1>2, <1>5, <1>6 DEF TypeInv, TypeOK, QueueTypeOK, Phases, Replies, pullVars
<1>8. Sending'
  BY <1>6 DEF TypeInv, TypeOK, QueueTypeOK, Sending, Pending
<1> QED BY <1>7, <1>8 DEF QueueInv

LEMMA ReleaseTypes ==
    ASSUME TypeInv, NEW d \in Devices, Release(d)
    PROVE  /\ pc' \in [Devices -> Phases]
           /\ next' \in [Devices -> Cursor \cup {NoCursor}]
           /\ todo' \in [Devices -> SUBSET Event]
           /\ got' \in [Devices -> [Res -> Row \cup {NoRow}]]
           /\ del' \in [Devices -> SUBSET Res]
           /\ listing' \in [Devices -> [list : 1..3, page : Nat]]
           /\ tries' \in [Devices -> Nat]
BY NothingType DEF Release, TypeInv, TypeOK, QueueTypeOK, Phases

\* A step that leaves the journal alone and enters no request keeps Sending.
LEMMA QuietSending ==
    ASSUME TypeInv, NEW d \in Devices, journal' = journal, pc'[d] # "sent",
           \A x \in Devices : x # d => pc'[x] = pc[x]
    PROVE  Sending'
BY DEF TypeInv, Sending, Pending

LEMMA StartPullTypes ==
    ASSUME TypeInv, NEW d \in Devices, StartPull(d) PROVE QueueInv'
<1>1. HeadCursor \in Cursor  BY DEF TypeInv, TypeOK, LibTypeOK, HeadCursor, Cursor
<1>2. \A n : LastEvents(UpTo(Since(cursor[d]), n)) \in SUBSET Event
  BY DEF TypeInv, TypeOK, LibTypeOK, LastEvents, UpTo, Since
<1>3. \A n \in cursor[d].seq..head : cursor[d] \in Cursor => [epoch |-> epoch, seq |-> n] \in Cursor
  BY DEF TypeInv, TypeOK, LibTypeOK, Cursor
<1>4. cursor[d] \in Cursor \cup {NoCursor}  BY DEF TypeInv, TypeOK, QueueTypeOK
<1>5. next' \in [Devices -> Cursor \cup {NoCursor}]
  <2>1. \/ next' = [next EXCEPT ![d] = HeadCursor]
        \/ /\ cursor[d] # NoCursor
           /\ \E n \in cursor[d].seq..head :
                next' = [next EXCEPT ![d] = [epoch |-> epoch, seq |-> n]]
    BY DEF StartPull, MustReset
  <2>2. \E c \in Cursor : next' = [next EXCEPT ![d] = c]
    BY <1>1, <1>3, <1>4, <2>1
  <2> QED BY <2>2 DEF TypeInv, TypeOK, QueueTypeOK
<1>6. todo' \in [Devices -> SUBSET Event]
  <2>1. \E events \in SUBSET Event : todo' = [todo EXCEPT ![d] = events]
    <3>1. PICK n, events : /\ events \in {LastEvents(UpTo(Since(cursor[d]), n)), {}}
                           /\ todo' = [todo EXCEPT ![d] = events]
      BY DEF StartPull
    <3> QED BY <1>2, <3>1
  <2> QED BY <2>1 DEF TypeInv, TypeOK, QueueTypeOK
<1>7. /\ pc' \in [Devices -> Phases] /\ pc'[d] # "sent"
      /\ \A x \in Devices : x # d => pc'[x] = pc[x]
  <2>1. pc' = [pc EXCEPT ![d] = "list"] \/ pc' = [pc EXCEPT ![d] = "fetch"]
    BY DEF StartPull
  <2> QED BY <2>1 DEF TypeInv, TypeOK, QueueTypeOK, Phases
<1>8. /\ got' = [got EXCEPT ![d] = Nothing]
      /\ del' = [del EXCEPT ![d] = {}]
      /\ listing' = [listing EXCEPT ![d] = [list |-> 1, page |-> 0]]
      /\ tries' = [tries EXCEPT ![d] = 1]
      /\ UNCHANGED <<journalVars, cache, cursor, reply, late, trouble, ghostVars>>
  BY DEF StartPull
<1>9. QueueTypeOK'
  BY <1>5, <1>6, <1>7, <1>8, NothingType
     DEF TypeInv, TypeOK, QueueTypeOK, journalVars, ghostVars
<1>10. Sending'
  BY <1>7, <1>8, QuietSending DEF TypeInv, TypeOK, QueueTypeOK, journalVars
<1> QED BY <1>9, <1>10 DEF QueueInv

LEMMA FetchTypes ==
    ASSUME TypeInv, NEW d \in Devices, Fetch(d) PROVE QueueInv'
<1>1. PICK ev \in todo[d] :
         /\ todo' = [todo EXCEPT ![d] = @ \ {ev}]
         /\ \/ got' = [got EXCEPT ![d][ev.id] = row[ev.id]] /\ UNCHANGED del
            \/ del' = [del EXCEPT ![d] = @ \cup Doomed(d, ev.id)] /\ UNCHANGED got
  BY DEF Fetch
<1>2. ev.id \in Res  BY DEF TypeInv, TypeOK, QueueTypeOK, Event
<1>3. Doomed(d, ev.id) \subseteq Res  BY <1>2 DEF Doomed, Res
<1>4. row[ev.id] \in Row \cup {NoRow}  BY <1>2 DEF TypeInv, TypeOK, LibTypeOK
<1>5. got' \in [Devices -> [Res -> Row \cup {NoRow}]]
  <2>1. got' = got \/ got' = [got EXCEPT ![d] = [got[d] EXCEPT ![ev.id] = row[ev.id]]]
    BY <1>1
  <2>2. got \in [Devices -> [Res -> Row \cup {NoRow}]]
    BY DEF TypeInv, TypeOK, QueueTypeOK
  <2>3. [got[d] EXCEPT ![ev.id] = row[ev.id]] \in [Res -> Row \cup {NoRow}]
    BY <1>4, <2>2
  <2> QED BY <2>1, <2>2, <2>3
<1>6. del' \in [Devices -> SUBSET Res] /\ todo' \in [Devices -> SUBSET Event]
  <2>1. del \in [Devices -> SUBSET Res] /\ todo \in [Devices -> SUBSET Event]
    BY DEF TypeInv, TypeOK, QueueTypeOK
  <2>2. todo' \in [Devices -> SUBSET Event]
    <3>1. todo[d] \ {ev} \subseteq Event  BY <2>1
    <3> QED BY <1>1, <2>1, <3>1
  <2>3. CASE UNCHANGED del  BY <2>1, <2>2, <2>3
  <2>4. CASE del' = [del EXCEPT ![d] = @ \cup Doomed(d, ev.id)]
    <3>1. del[d] \cup Doomed(d, ev.id) \subseteq Res  BY <1>3, <2>1
    <3> QED BY <2>1, <2>2, <2>4, <3>1
  <2> QED BY <1>1, <2>3, <2>4
<1>7. UNCHANGED <<libVars, journalVars, cache, cursor, pc, reply, next, listing, tries, late,
                  trouble, ghostVars>>
  BY DEF Fetch
<1>8. QueueTypeOK'
  BY <1>5, <1>6, <1>7 DEF TypeInv, TypeOK, QueueTypeOK, journalVars, ghostVars
<1>9. Sending'
  BY <1>7, SendingKept DEF TypeInv, journalVars
<1> QED BY <1>8, <1>9 DEF QueueInv

LEMMA CommitTypes ==
    ASSUME TypeInv, NEW d \in Devices, NEW rows \in [Res -> Row \cup {NoRow}],
           Commit(d, rows)
    PROVE  QueueInv'
<1>1. Release(d) /\ UNCHANGED <<libVars, journalVars, reply, late, trouble, ghostVars>>
  BY DEF Commit
<1>2. cache' \in [Devices -> [Res -> Row \cup {NoRow}]]
  BY DEF Commit, TypeInv, TypeOK, QueueTypeOK
<1>3. cursor' \in [Devices -> Cursor \cup {NoCursor}]
  BY DEF Commit, TypeInv, TypeOK, QueueTypeOK
<1>4. QueueTypeOK'
  BY <1>1, <1>2, <1>3, ReleaseTypes DEF TypeInv, TypeOK, QueueTypeOK, journalVars, ghostVars
<1>5. Sending'
  BY <1>1, QuietSending DEF Release, TypeInv, TypeOK, QueueTypeOK, journalVars
<1> QED BY <1>4, <1>5 DEF QueueInv

LEMMA MergedType ==
    ASSUME TypeInv, NEW d \in Devices
    PROVE  Merged(d) \in [Res -> Row \cup {NoRow}]
<1>1. ASSUME NEW r \in Res PROVE Pruned(d, r) \in Row \cup {NoRow}
  <2>1. cache[d][r] \in Row \cup {NoRow}  BY DEF TypeInv, TypeOK, QueueTypeOK
  <2>2. CASE cache[d][r] \in Row
    BY <2>1, <2>2 DEF Pruned, Row
  <2> QED BY <2>1, <2>2 DEF Pruned
<1>2. \A r \in Res : got[d][r] \in Row \cup {NoRow}  BY DEF TypeInv, TypeOK, QueueTypeOK
<1> QED BY <1>1, <1>2 DEF Merged

LEMMA ListPageTypes ==
    ASSUME TypeInv, NEW d \in Devices, ListPage(d) PROVE QueueInv'
<1>1. PICK page : got' = [got EXCEPT ![d] = [r \in Res |-> IF r \in page THEN row[r] ELSE @[r]]]
  BY DEF ListPage
<1>2. got' \in [Devices -> [Res -> Row \cup {NoRow}]]
  BY <1>1 DEF TypeInv, TypeOK, LibTypeOK, QueueTypeOK
<1>3. /\ UNCHANGED <<libVars, journalVars, cache, cursor, reply, next, todo, del, tries, late,
                     trouble, ghostVars>>
      /\ pc[d] = "list"
  BY DEF ListPage
<1>4. \/ listing' = [listing EXCEPT ![d].page = @ + 1] /\ UNCHANGED pc
      \/ /\ listing[d].list < 3 /\ UNCHANGED pc
         /\ listing' = [listing EXCEPT ![d] = [list |-> listing[d].list + 1, page |-> 0]]
      \/ pc' = [pc EXCEPT ![d] = "check"] /\ UNCHANGED listing
  BY DEF ListPage
<1>5. listing[d].list \in 1..3 /\ listing[d].page \in Nat
  BY DEF TypeInv, TypeOK, QueueTypeOK
<1>6. listing' \in [Devices -> [list : 1..3, page : Nat]]
  BY <1>4, <1>5 DEF TypeInv, TypeOK, QueueTypeOK
<1>7. pc' \in [Devices -> Phases] /\ pc'[d] # "sent" /\ \A x \in Devices : x # d => pc'[x] = pc[x]
  BY <1>3, <1>4 DEF TypeInv, TypeOK, QueueTypeOK, Phases
<1>8. QueueTypeOK'
  BY <1>2, <1>3, <1>6, <1>7 DEF TypeInv, TypeOK, QueueTypeOK, journalVars, ghostVars
<1>9. Sending'
  BY <1>3, <1>7, QuietSending DEF journalVars
<1> QED BY <1>8, <1>9 DEF QueueInv

LEMMA CheckTypes ==
    ASSUME TypeInv, NEW d \in Devices, Check(d) PROVE QueueInv'
<1>1. HeadCursor \in Cursor  BY DEF TypeInv, TypeOK, LibTypeOK, HeadCursor, Cursor
<1>2. /\ \/ next' = [next EXCEPT ![d] = HeadCursor] /\ pc' = [pc EXCEPT ![d] = "install"]
         \/ UNCHANGED next /\ pc' = [pc EXCEPT ![d] = "rehead"]
      /\ UNCHANGED <<journalVars, cache, cursor, reply, todo, got, del, listing, tries, late,
                     trouble, ghostVars>>
  BY DEF Check
<1>3. /\ pc' \in [Devices -> Phases] /\ pc'[d] # "sent"
      /\ \A x \in Devices : x # d => pc'[x] = pc[x]
  BY <1>2 DEF TypeInv, TypeOK, QueueTypeOK, Phases
<1>4. next' \in [Devices -> Cursor \cup {NoCursor}]
  BY <1>1, <1>2, ZenonT(30) DEF TypeInv, TypeOK, QueueTypeOK
<1>5. QueueTypeOK'
  BY <1>2, <1>3, <1>4 DEF TypeInv, TypeOK, QueueTypeOK, journalVars, ghostVars
<1>6. Sending'
  BY <1>2, <1>3, QuietSending DEF journalVars
<1> QED BY <1>5, <1>6 DEF QueueInv

LEMMA ReheadTypes ==
    ASSUME TypeInv, NEW d \in Devices, Rehead(d) PROVE QueueInv'
<1>1. HeadCursor \in Cursor  BY DEF TypeInv, TypeOK, LibTypeOK, HeadCursor, Cursor
<1>2. UNCHANGED <<journalVars, cache, cursor, reply, late, trouble, ghostVars>>
  BY DEF Rehead
<1>3. CASE Release(d)
  <2>1. QueueTypeOK'
    BY <1>2, <1>3, ReleaseTypes DEF TypeInv, TypeOK, QueueTypeOK, journalVars, ghostVars
  <2>2. Sending'
    BY <1>2, <1>3, QuietSending DEF Release, TypeInv, TypeOK, QueueTypeOK, journalVars
  <2> QED BY <2>1, <2>2 DEF QueueInv
<1>4. CASE /\ tries' = [tries EXCEPT ![d] = @ + 1]
           /\ pc' = [pc EXCEPT ![d] = "list"]
           /\ next' = [next EXCEPT ![d] = HeadCursor]
           /\ got' = [got EXCEPT ![d] = Nothing]
           /\ listing' = [listing EXCEPT ![d] = [list |-> 1, page |-> 0]]
           /\ UNCHANGED <<todo, del>>
  <2>1. QueueTypeOK'
    BY <1>1, <1>2, <1>4, NothingType
       DEF TypeInv, TypeOK, QueueTypeOK, Phases, journalVars, ghostVars
  <2>2. Sending'
    BY <1>2, <1>4, QuietSending DEF TypeInv, TypeOK, QueueTypeOK, journalVars
  <2> QED BY <2>1, <2>2 DEF QueueInv
<1> QED BY <1>3, <1>4 DEF Rehead

LEMMA AbortTypes ==
    ASSUME TypeInv, NEW d \in Devices, Abort(d) PROVE QueueInv'
<1>1. /\ Release(d) /\ trouble' = trouble + 1
      /\ reply' = [reply EXCEPT ![d] = "none"]
      /\ UNCHANGED <<libVars, journalVars, cache, cursor, ghostVars>>
  BY DEF Abort, Trouble
<1>2. late' \subseteq [id : Nat, op : Ops]
  <2>1. CASE pc[d] = "sent"
    <3>1. First(d) \in Entry
      BY <2>1, FirstPending DEF TypeInv, TypeOK, Sending, QueueTypeOK, Pending
    <3> QED BY <3>1 DEF Abort, Entry, TypeInv, TypeOK, QueueTypeOK
  <2> QED BY <2>1 DEF Abort, TypeInv, TypeOK, QueueTypeOK
<1>3. QueueTypeOK'
  BY <1>1, <1>2, ReleaseTypes
     DEF TypeInv, TypeOK, QueueTypeOK, Replies, journalVars, ghostVars
<1>4. Sending'
  BY <1>1, QuietSending DEF Release, TypeInv, TypeOK, QueueTypeOK, journalVars
<1> QED BY <1>3, <1>4 DEF QueueInv

LEMMA ServeLateTypes ==
    ASSUME TypeInv, NEW req \in late, ServeLate(req) PROVE QueueInv'
<1>1. req.op \in Ops /\ req.id \in Nat  BY DEF TypeInv, TypeOK, QueueTypeOK
<1>2. took' \subseteq Ops /\ newest' \in [Devices -> Nat] /\ late' \subseteq late
  BY <1>1 DEF ServeLate, TakeEffect, NoEffect, TypeInv, TypeOK, QueueTypeOK
<1>3. QueueTypeOK'
  BY <1>2 DEF ServeLate, TypeInv, TypeOK, QueueTypeOK, journalVars, pullVars
<1>4. Sending'
  BY SendingKept DEF ServeLate, TypeInv, journalVars
<1> QED BY <1>3, <1>4 DEF QueueInv

LEMMA InitTypes == ASSUME Init PROVE TypeInv
<1>1. LibInv  BY LibInitSound DEF Init
<1>2. QueueTypeOK
  BY NothingType DEF Init, QueueTypeOK, Phases, Replies
<1>3. Sending  BY DEF Init, Sending
<1> QED BY <1>1, <1>2, <1>3 DEF TypeInv, TypeOK, LibInv

LEMMA StepTypes == ASSUME TypeInv, [Next]_vars PROVE TypeInv'
<1>1. LibInv'  BY LibraryStep
<1>2. QueueInv'
  <2>1. CASE UNCHANGED vars
    BY <2>1, BackgroundTypes DEF vars
  <2>2. CASE UNCHANGED <<journalVars, cache, cursor, pc, reply, pullVars, late, trouble,
                         ghostVars>>
    BY <2>2, BackgroundTypes
  <2>3. ASSUME NEW d \in Devices, Push(d) PROVE QueueInv'
    BY <2>3, SendTypes, ServeTypes, SettleTypes DEF Push
  <2>4. ASSUME NEW d \in Devices, Pull(d) PROVE QueueInv'
    <3>1. CASE CommitDelta(d)  BY <3>1, MergedType, CommitTypes DEF CommitDelta
    <3>2. CASE CommitSnapshot(d)
      <4>1. got[d] \in [Res -> Row \cup {NoRow}]  BY DEF TypeInv, TypeOK, QueueTypeOK
      <4> QED BY <3>2, <4>1, CommitTypes DEF CommitSnapshot
    <3> QED BY <2>4, <3>1, <3>2, StartPullTypes, FetchTypes, ListPageTypes, CheckTypes,
               ReheadTypes DEF Pull
  <2>5. ASSUME NEW d \in Devices, Host(d) PROVE QueueInv'
    BY <2>5, ImportTypes, ConfirmCachedTypes, EmptyTypes DEF Host
  <2>6. ASSUME NEW d \in Devices, Abort(d) PROVE QueueInv'
    BY <2>6, AbortTypes
  <2>7. ASSUME NEW req \in late, ServeLate(req) PROVE QueueInv'
    BY <2>7, ServeLateTypes
  <2> QED BY <2>1, <2>2, <2>3, <2>4, <2>5, <2>6, <2>7 DEF Next
<1> QED BY <1>1, <1>2 DEF TypeInv, TypeOK, QueueInv, LibInv

LEMMA TypesAlways == Spec => []TypeInv
BY InitTypes, StepTypes, PTL DEF Spec

\* The types of every variable: among them, that an operation left pending has attempts
\* to spare (push.rs push_entry quarantines it at ATTEMPT_BUDGET).
THEOREM TypesCorrect == Spec => []TypeOK
<1>1. TypeInv => TypeOK  BY DEF TypeInv
<1> QED BY <1>1, TypesAlways, PTL

-----------------------------------------------------------------------------
(* What the journal of a device promises its host: nothing imported is     *)
(* lost, nothing is reported delivered that was not, refused work is kept, *)
(* and operations take effect in the order they were enqueued.             *)

\* Only a request that is under way has an answer, and a good answer was earned.
Answered == \A d \in Devices :
    /\ reply[d] # "none" => pc[d] = "sent"
    /\ reply[d] = "ok" => First(d).op \in took

JournalInv == NoLostOperation /\ HonestReceipts /\ Answered

\* How a journal step may change what became of each operation.
Accounted(d, o) ==
    \/ o \in took \cup moot \cup wiped
    \/ \E e \in journal[d] : e.op = o /\ e.status \in {"pending", "rejected"}
    \/ /\ OpKind[o] = "SetCursor"
       /\ \E by \in receipts[d] : <<o, by>> \in replaced /\ OpTarget[by] = OpTarget[o]

Earned(e) ==
    e.status = "delivered" =>
        \/ e.op \in took
        \/ OpKind[e.op] \in {"Unsubscribe", "RemoveFromPlaylist"} /\ e.op \in moot

LEMMA Restated ==
    /\ NoLostOperation <=> \A d \in Devices : \A o \in receipts[d] : Accounted(d, o)
    /\ HonestReceipts <=> \A d \in Devices : \A e \in journal[d] : Earned(e)
BY DEF NoLostOperation, HonestReceipts, Accounted, Earned

\* Steps that settle nothing.
LEMMA JournalKept ==
    ASSUME TypeInv, JournalInv,
           UNCHANGED <<journal, receipts, moot, replaced, wiped>>, took \subseteq took',
           \A d \in Devices : /\ reply'[d] # "none" => pc'[d] = "sent"
                              /\ reply'[d] = "ok" => First(d).op \in took'
    PROVE  JournalInv'
<1>1. \A d \in Devices : First(d)' = First(d)  BY DEF First, Pending
<1>2. NoLostOperation'
  BY SMTT(30) DEF JournalInv, NoLostOperation
<1>3. HonestReceipts'
  BY DEF JournalInv, HonestReceipts
<1>4. Answered'
  BY <1>1 DEF Answered
<1> QED BY <1>2, <1>3, <1>4 DEF JournalInv

LEMMA ImportJournal ==
    ASSUME TypeInv, JournalInv, NEW d \in Devices, NEW o \in Ops, Import(d, o)
    PROVE  JournalInv'
<1> DEFINE e == [id |-> serial[d] + 1, op |-> o, attempts |-> 0, status |-> "pending"]
<1>1. /\ journal \in [Devices -> SUBSET Entry] /\ receipts \in [Devices -> SUBSET Ops]
      /\ pc[d] = "idle"
  BY DEF TypeInv, TypeOK, QueueTypeOK, Import, GateFree
<1>2. /\ receipts' = [receipts EXCEPT ![d] = @ \cup {o}]
      /\ journal' = [journal EXCEPT ![d] = (@ \ Superseded(d, o)) \cup {e}]
      /\ replaced' = replaced \cup {<<old, o>> : old \in OpsOf(Superseded(d, o))}
      /\ UNCHANGED <<took, moot, wiped, reply, pc>>
  BY DEF Import
<1>3. ASSUME NEW x \in Devices, NEW p \in receipts'[x]
      PROVE  Accounted(x, p)'
  <2>1. CASE x # d
    <3>1. Accounted(x, p) /\ receipts'[x] = receipts[x] /\ journal'[x] = journal[x]
      BY <1>1, <1>2, <2>1, Restated DEF JournalInv
    <3> QED BY <1>2, <3>1 DEF Accounted
  <2>2. CASE x = d /\ p = o
    <3>1. e \in journal'[x] /\ e.op = p /\ e.status = "pending"  BY <1>1, <1>2, <2>2
    <3> QED BY <3>1 DEF Accounted
  <2>3. CASE x = d /\ p # o
    <3>1. Accounted(d, p)  BY <1>1, <1>2, <2>3, Restated DEF JournalInv
    <3>2. receipts[d] \subseteq receipts'[d] /\ o \in receipts'[d]  BY <1>1, <1>2
    <3>3. CASE \E y \in Superseded(d, o) : y.op = p
      <4>1. PICK y \in Superseded(d, o) : y.op = p  BY <3>3
      <4>2. <<p, o>> \in replaced'  BY <1>2, <4>1 DEF OpsOf
      <4>3. OpKind[p] = "SetCursor" /\ OpTarget[o] = OpTarget[p]  BY <4>1 DEF Superseded
      <4> QED BY <2>3, <3>2, <4>2, <4>3 DEF Accounted
    <3>4. CASE \A y \in Superseded(d, o) : y.op # p
      <4>1. \A y \in journal[d] : y.op = p => y \in journal'[d]  BY <1>1, <1>2, <3>4
      <4> QED BY <1>2, <2>3, <3>1, <3>2, <4>1 DEF Accounted
    <3> QED BY <3>3, <3>4
  <2> QED BY <2>1, <2>2, <2>3
<1>4. ASSUME NEW x \in Devices, NEW y \in journal'[x] PROVE Earned(y)'
  <2>1. y \in journal[x] \/ y = e  BY <1>1, <1>2
  <2>2. CASE y \in journal[x]
    <3>1. Earned(y)  BY <2>2, Restated DEF JournalInv
    <3> QED BY <1>2, <3>1 DEF Earned
  <2> QED BY <2>1, <2>2 DEF Earned
<1>5. Answered'
  <2>1. \A x \in Devices : x # d => First(x)' = First(x)
    BY <1>1, <1>2 DEF First, Pending
  <2> QED BY <1>1, <1>2, <2>1 DEF Answered, JournalInv
<1> QED BY <1>3, <1>4, <1>5 DEF JournalInv, NoLostOperation, HonestReceipts, Accounted, Earned

LEMMA ConfirmCachedJournal ==
    ASSUME TypeInv, JournalInv, NEW d \in Devices, NEW wanted \in SUBSET Ops,
           ConfirmCached(d, wanted)
    PROVE  JournalInv'
<1>1. /\ journal \in [Devices -> SUBSET Entry] /\ pc[d] = "idle"
      /\ journal' = [journal EXCEPT ![d] = @ \ DeliveredEntries(d, wanted)]
      /\ UNCHANGED <<receipts, reply, pc, took, moot, replaced, wiped>>
  BY DEF TypeInv, TypeOK, QueueTypeOK, ConfirmCached, GateFree, ghostVars
<1>2. \A x \in Devices : journal'[x] \subseteq journal[x]  BY <1>1
<1>3. ASSUME NEW x \in Devices, NEW p \in receipts'[x] PROVE Accounted(x, p)'
  <2>1. Accounted(x, p)  BY <1>1, Restated DEF JournalInv
  <2>2. \A y \in journal[x] : y.status \in {"pending", "rejected"} => y \in journal'[x]
    BY <1>1 DEF DeliveredEntries
  <2> QED BY <1>1, <2>1, <2>2 DEF Accounted
<1>4. ASSUME NEW x \in Devices, NEW y \in journal'[x] PROVE Earned(y)'
  <2>1. Earned(y)  BY <1>2, Restated DEF JournalInv
  <2> QED BY <1>1, <2>1 DEF Earned
<1>5. Answered'
  <2>1. \A x \in Devices : x # d => First(x)' = First(x)
    BY <1>1 DEF First, Pending
  <2> QED BY <1>1, <2>1 DEF Answered, JournalInv
<1> QED BY <1>3, <1>4, <1>5 DEF JournalInv, NoLostOperation, HonestReceipts, Accounted, Earned

LEMMA EmptyJournal ==
    ASSUME TypeInv, JournalInv, NEW d \in Devices, ClearAll(d) \/ ResetStaleCache(d)
    PROVE  JournalInv'
<1>1. /\ journal \in [Devices -> SUBSET Entry] /\ pc[d] = "idle"
      /\ UNCHANGED <<receipts, reply, pc, took, moot, replaced>>
  BY DEF TypeInv, TypeOK, QueueTypeOK, ClearAll, ResetStaleCache, Empty, GateFree
<1>2. \/ UNCHANGED <<journal, wiped>>
      \/ /\ journal' = [journal EXCEPT ![d] = {}]
         /\ wiped' = wiped \cup OpsOf(journal[d])
  BY DEF ClearAll, ResetStaleCache
<1>3. ASSUME NEW x \in Devices, NEW p \in receipts'[x] PROVE Accounted(x, p)'
  <2>1. Accounted(x, p)  BY <1>1, Restated DEF JournalInv
  <2>2. \A y \in journal[x] : y \in journal'[x] \/ y.op \in wiped'
    BY <1>1, <1>2 DEF OpsOf
  <2> QED BY <1>1, <1>2, <2>1, <2>2 DEF Accounted
<1>4. ASSUME NEW x \in Devices, NEW y \in journal'[x] PROVE Earned(y)'
  <2>1. y \in journal[x]  BY <1>1, <1>2
  <2>2. Earned(y)  BY <2>1, Restated DEF JournalInv
  <2> QED BY <1>1, <2>2 DEF Earned
<1>5. Answered'
  <2>1. \A x \in Devices : x # d => First(x)' = First(x)
    BY <1>1, <1>2 DEF First, Pending
  <2> QED BY <1>1, <2>1 DEF Answered, JournalInv
<1> QED BY <1>3, <1>4, <1>5 DEF JournalInv, NoLostOperation, HonestReceipts, Accounted, Earned

LEMMA ServeJournal ==
    ASSUME TypeInv, JournalInv, NEW d \in Devices, Serve(d) PROVE JournalInv'
<1>1. /\ reply \in [Devices -> Replies] /\ pc[d] = "sent"
      /\ UNCHANGED <<journalVars, pc, moot, replaced, wiped>>
  BY DEF TypeInv, TypeOK, QueueTypeOK, Serve
<1>2. /\ took \subseteq took'
      /\ \E answer \in Replies : /\ reply' = [reply EXCEPT ![d] = answer]
                                 /\ answer = "ok" => First(d).op \in took'
  BY DEF Serve, TakeEffect, NoEffect, Replies
<1>3. \A x \in Devices : /\ reply'[x] # "none" => pc'[x] = "sent"
                         /\ reply'[x] = "ok" => First(x).op \in took'
  BY <1>1, <1>2 DEF JournalInv, Answered
<1> QED BY <1>1, <1>2, <1>3, JournalKept DEF journalVars

LEMMA SettleJournal ==
    ASSUME TypeInv, JournalInv, NEW d \in Devices, Settle(d) PROVE JournalInv'
<1> DEFINE e == First(d)
<1> DEFINE attempts == IF reply[d] = "countable" THEN e.attempts + 1 ELSE e.attempts
<1> DEFINE absent == reply[d] = "missing" /\ OpKind[e.op] \in AbsenceKinds
<1> DEFINE applied == reply[d] = "ok" \/ absent
<1> DEFINE rejected == ~applied /\ (reply[d] \in PermanentReplies \/ Exhausted(attempts))
<1> DEFINE status == IF applied THEN "delivered" ELSE IF rejected THEN "rejected" ELSE "pending"
<1> DEFINE settled == [e EXCEPT !.attempts = attempts, !.status = status]
<1>1. e \in Pending(d) /\ pc[d] = "sent"
  BY FirstPending DEF Settle, TypeInv, TypeOK, Sending
<1>2. e \in Entry /\ e \in journal[d] /\ e.status = "pending"
      /\ journal \in [Devices -> SUBSET Entry] /\ receipts \in [Devices -> SUBSET Ops]
      /\ reply \in [Devices -> Replies] /\ pc \in [Devices -> Phases]
  BY <1>1 DEF TypeInv, TypeOK, QueueTypeOK, Pending
<1>3. settled.op = e.op /\ settled.status = status
  <2>1. e \in [id : Nat, op : Ops, attempts : 0..Budget, status : Statuses]
    BY <1>2 DEF Entry
  <2> HIDE DEF e, attempts, status
  <2> QED BY <2>1
<1>4. /\ journal' = [journal EXCEPT ![d] = (@ \ {e}) \cup {settled}]
      /\ pc' = [pc EXCEPT ![d] = IF status = "pending" THEN "idle" ELSE "drain"]
      /\ reply' = [reply EXCEPT ![d] = "none"]
      /\ moot' = IF absent THEN moot \cup {e.op} ELSE moot
      /\ UNCHANGED <<receipts, took, replaced, wiped>>
  BY DEF Settle
<1>5. status = "delivered" =>
         \/ e.op \in took'
         \/ OpKind[e.op] \in {"Unsubscribe", "RemoveFromPlaylist"} /\ e.op \in moot'
  <2>1. CASE reply[d] = "ok"  BY <1>4, <2>1 DEF JournalInv, Answered
  <2>2. CASE absent  BY <1>4, <2>2 DEF AbsenceKinds
  <2> QED BY <2>1, <2>2
<1>6. status \in {"delivered", "pending", "rejected"}  OBVIOUS
<1> HIDE DEF e, settled, status, absent
<1>7. moot \subseteq moot'  BY <1>4
<1>8. ASSUME NEW x \in Devices, NEW p \in receipts'[x] PROVE Accounted(x, p)'
  <2>1. Accounted(x, p)  BY <1>4, Restated DEF JournalInv
  <2>2. ASSUME NEW y \in journal[x], y.status \in {"pending", "rejected"}, y.op = p
        PROVE  \/ p \in took' \cup moot'
               \/ \E z \in journal'[x] : z.op = p /\ z.status \in {"pending", "rejected"}
    <3>1. CASE x = d /\ y = e
      <4>1. settled \in journal'[x] /\ settled.op = p  BY <1>2, <1>3, <1>4, <2>2, <3>1
      <4>2. CASE status = "delivered"
        BY <1>3, <1>5, <2>2, <3>1, <4>1, <4>2
      <4>3. CASE status # "delivered"
        BY <1>3, <1>6, <4>1, <4>3
      <4> QED BY <4>2, <4>3
    <3>2. CASE ~(x = d /\ y = e)
      <4>1. y \in journal'[x]  BY <1>2, <1>4, <3>2
      <4> QED BY <2>2, <4>1
    <3> QED BY <3>1, <3>2
  <2> QED BY <1>4, <1>7, <2>1, <2>2 DEF Accounted
<1>9. ASSUME NEW x \in Devices, NEW y \in journal'[x] PROVE Earned(y)'
  <2>1. y \in journal[x] \/ y = settled  BY <1>2, <1>4
  <2>2. CASE y \in journal[x]
    <3>1. Earned(y)  BY <2>2, Restated DEF JournalInv
    <3> QED BY <1>4, <1>7, <3>1 DEF Earned
  <2>3. CASE y = settled  BY <1>3, <1>5, <2>3 DEF Earned
  <2> QED BY <2>1, <2>2, <2>3
<1>10. Answered'
  <2>1. \A x \in Devices : x # d => First(x)' = First(x)
    BY <1>2, <1>4 DEF First, Pending
  <2> QED BY <1>2, <1>4, <2>1 DEF Answered, JournalInv
<1> QED BY <1>8, <1>9, <1>10 DEF JournalInv, NoLostOperation, HonestReceipts, Accounted, Earned

\* Phases of one device move outside a request.
LEMMA OtherJournal ==
    ASSUME TypeInv, JournalInv, NEW d \in Devices, pc[d] # "sent",
           UNCHANGED <<journalVars, reply, ghostVars>>,
           \A x \in Devices : x # d => pc'[x] = pc[x]
    PROVE  JournalInv'
<1>1. \A x \in Devices : /\ reply'[x] # "none" => pc'[x] = "sent"
                         /\ reply'[x] = "ok" => First(x).op \in took'
  BY DEF JournalInv, Answered, ghostVars
<1> QED BY <1>1, JournalKept DEF journalVars, ghostVars

LEMMA PullJournal ==
    ASSUME TypeInv, JournalInv, NEW d \in Devices, Pull(d) \/ Send(d) \/ EndDrain(d)
    PROVE  JournalInv'
<1>1. pc \in [Devices -> Phases]  BY DEF TypeInv, TypeOK, QueueTypeOK
<1>2. /\ pc[d] # "sent" /\ UNCHANGED <<journalVars, reply, ghostVars>>
  BY DEF Pull, StartPull, GateFree, Fetch, CommitDelta, Commit, ListPage, Check, Rehead,
         CommitSnapshot, Send, EndDrain
<1>3. \A x \in Devices : x # d => pc'[x] = pc[x]
  BY <1>1 DEF Pull, StartPull, Fetch, CommitDelta, Commit, Release, ListPage, Check, Rehead,
              CommitSnapshot, Send, EndDrain
<1> QED BY <1>2, <1>3, OtherJournal

LEMMA AbortJournal ==
    ASSUME TypeInv, JournalInv, NEW d \in Devices, Abort(d) PROVE JournalInv'
<1>1. /\ reply' = [reply EXCEPT ![d] = "none"] /\ pc' = [pc EXCEPT ![d] = "idle"]
      /\ UNCHANGED <<journalVars, ghostVars>>
      /\ reply \in [Devices -> Replies] /\ pc \in [Devices -> Phases]
  BY DEF Abort, Release, TypeInv, TypeOK, QueueTypeOK
<1>2. \A x \in Devices : /\ reply'[x] # "none" => pc'[x] = "sent"
                         /\ reply'[x] = "ok" => First(x).op \in took'
  BY <1>1 DEF JournalInv, Answered, ghostVars
<1> QED BY <1>1, <1>2, JournalKept DEF journalVars, ghostVars

LEMMA ServeLateJournal ==
    ASSUME TypeInv, JournalInv, NEW req \in late, ServeLate(req) PROVE JournalInv'
<1>1. /\ took \subseteq took'
      /\ UNCHANGED <<journalVars, pc, reply, moot, replaced, wiped>>
  BY DEF ServeLate, TakeEffect, NoEffect
<1>2. \A x \in Devices : /\ reply'[x] # "none" => pc'[x] = "sent"
                         /\ reply'[x] = "ok" => First(x).op \in took'
  BY <1>1 DEF JournalInv, Answered
<1> QED BY <1>1, <1>2, JournalKept DEF journalVars

LEMMA StepJournal == ASSUME TypeInv, JournalInv, [Next]_vars PROVE JournalInv'
<1>1. CASE UNCHANGED <<journalVars, pc, reply, ghostVars>>
  <2>1. \A x \in Devices : /\ reply'[x] # "none" => pc'[x] = "sent"
                           /\ reply'[x] = "ok" => First(x).op \in took'
    BY <1>1 DEF JournalInv, Answered, ghostVars
  <2> QED BY <1>1, <2>1, JournalKept DEF journalVars, ghostVars
<1>2. ASSUME NEW d \in Devices, Push(d) PROVE JournalInv'
  BY <1>2, PullJournal, ServeJournal, SettleJournal DEF Push
<1>3. ASSUME NEW d \in Devices, Pull(d) PROVE JournalInv'
  BY <1>3, PullJournal
<1>4. ASSUME NEW d \in Devices, Host(d) PROVE JournalInv'
  BY <1>4, ImportJournal, ConfirmCachedJournal, EmptyJournal DEF Host
<1> QED BY <1>1, <1>2, <1>3, <1>4, AbortJournal, ServeLateJournal DEF Next, vars

LEMMA JournalAlways == Spec => []JournalInv
<1>1. Init => JournalInv
  BY DEF Init, JournalInv, NoLostOperation, HonestReceipts, Answered
<1> QED BY <1>1, TypesAlways, StepJournal, PTL DEF Spec

\* No imported operation is lost, whatever dies or fails between two steps (push.rs
\* push_entry, coalesce.rs): see NoLostOperation.
THEOREM NothingLost == Spec => []NoLostOperation
<1>1. JournalInv => NoLostOperation  BY DEF JournalInv
<1> QED BY <1>1, JournalAlways, PTL

\* What is reported delivered happened, or asked for an absence that held (push.rs
\* complete): see HonestReceipts.
THEOREM DeliveredMeansDone == Spec => []HonestReceipts
<1>1. JournalInv => HonestReceipts  BY DEF JournalInv
<1> QED BY <1>1, JournalAlways, PTL

-----------------------------------------------------------------------------
\* What a step may do to refused entries and to the cache.

KeepsRejected == \A d \in Devices : \A e \in journal[d] :
    e.status = "rejected" => e \in journal'[d] \/ e.op \in wiped'

LEMMA StepKeepsRejected == ASSUME TypeInv, [Next]_vars PROVE KeepsRejected
<1>1. CASE UNCHANGED journal  BY <1>1 DEF KeepsRejected
<1>2. journal \in [Devices -> SUBSET Entry]  BY DEF TypeInv, TypeOK, QueueTypeOK
<1>3. ASSUME NEW d \in Devices, Settle(d) PROVE KeepsRejected
  <2>1. First(d).status = "pending"
    BY <1>3, FirstPending DEF Settle, TypeInv, TypeOK, Sending, Pending
  <2>2. \E settled : journal' = [journal EXCEPT ![d] = (@ \ {First(d)}) \cup {settled}]
    BY <1>3 DEF Settle
  <2> QED BY <1>2, <2>1, <2>2 DEF KeepsRejected
<1>4. ASSUME NEW d \in Devices, NEW o \in Ops, Import(d, o) PROVE KeepsRejected
  <2>1. \A e \in Superseded(d, o) : e.status = "pending"  BY DEF Superseded, Pending
  <2>2. \E e : journal' = [journal EXCEPT ![d] = (@ \ Superseded(d, o)) \cup {e}]
    BY <1>4 DEF Import
  <2> QED BY <1>2, <2>1, <2>2 DEF KeepsRejected
<1>5. ASSUME NEW d \in Devices, NEW wanted, ConfirmCached(d, wanted) PROVE KeepsRejected
  BY <1>2, <1>5 DEF ConfirmCached, DeliveredEntries, KeepsRejected
<1>6. ASSUME NEW d \in Devices, ClearAll(d) PROVE KeepsRejected
  BY <1>2, <1>6 DEF ClearAll, OpsOf, KeepsRejected
<1>7. ASSUME NEW d \in Devices, Pull(d) \/ Abort(d) \/ Send(d) \/ EndDrain(d) \/ Serve(d)
                                \/ ResetStaleCache(d)
      PROVE  UNCHANGED journal
  BY <1>7 DEF Pull, StartPull, Fetch, CommitDelta, Commit, ListPage, Check, Rehead,
              CommitSnapshot, Abort, Send, EndDrain, Serve, ResetStaleCache, journalVars
<1>8. ASSUME NEW req \in late, ServeLate(req) PROVE UNCHANGED journal
  BY <1>8 DEF ServeLate, journalVars
<1> QED BY <1>1, <1>3, <1>4, <1>5, <1>6, <1>7, <1>8
       DEF Next, Push, Host, vars, journalVars

\* Refused work stays until its account is wiped (sync-enrich/journal.rs): see RejectedKept.
THEOREM RefusedWorkStays == Spec => RejectedKept
<1>1. TypeInv /\ [Next]_vars => [KeepsRejected]_vars  BY StepKeepsRejected
<1> QED BY <1>1, TypesAlways, PTL DEF Spec, RejectedKept, KeepsRejected

PullsWhenNothingOwed == \A d \in Devices :
    cache'[d] # cache[d] /\ cursor'[d] # NoCursor => \A e \in journal[d] : e.status # "pending"

LEMMA StepLocalFirst == ASSUME TypeInv, [Next]_vars PROVE PullsWhenNothingOwed
<1>1. CASE UNCHANGED cache  BY <1>1 DEF PullsWhenNothingOwed
<1>2. /\ cache \in [Devices -> [Res -> Row \cup {NoRow}]]
      /\ cursor \in [Devices -> Cursor \cup {NoCursor}]
  BY DEF TypeInv, TypeOK, QueueTypeOK
<1>3. ASSUME NEW d \in Devices, NEW rows, Commit(d, rows) PROVE PullsWhenNothingOwed
  BY <1>2, <1>3 DEF Commit, Pending, PullsWhenNothingOwed
<1>4. ASSUME NEW d \in Devices, Empty(d) PROVE PullsWhenNothingOwed
  BY <1>2, <1>4 DEF Empty, PullsWhenNothingOwed
<1>5. ASSUME NEW d \in Devices, Push(d) \/ Abort(d) \/ StartPull(d) \/ Fetch(d) \/ ListPage(d)
                                \/ Check(d) \/ Rehead(d)
      PROVE  UNCHANGED cache
  BY <1>5 DEF Push, Send, EndDrain, Serve, Settle, Abort, StartPull, Fetch, ListPage, Check, Rehead
<1>6. ASSUME NEW d \in Devices, \/ \E o \in Ops : Import(d, o)
                                \/ \E wanted \in SUBSET Ops : ConfirmCached(d, wanted)
      PROVE  UNCHANGED cache
  BY <1>6 DEF Import, ConfirmCached
<1>7. ASSUME NEW req \in late, ServeLate(req) PROVE UNCHANGED cache
  BY <1>7 DEF ServeLate
<1> QED BY <1>1, <1>3, <1>4, <1>5, <1>6, <1>7
       DEF Next, Pull, Host, CommitDelta, CommitSnapshot, ClearAll, ResetStaleCache, vars

\* A pull replaces cached rows only when nothing is owed (pull/engine.rs): see LocalFirst.
THEOREM OwedWorkIsShown == Spec => LocalFirst
<1>1. TypeInv /\ [Next]_vars => [PullsWhenNothingOwed]_vars  BY StepLocalFirst
<1> QED BY <1>1, TypesAlways, PTL DEF Spec, LocalFirst, PullsWhenNothingOwed

-----------------------------------------------------------------------------
\* The order in which a device's operations take effect.

OrderInv ==
    /\ late = {}
    /\ \A d \in Devices :
         /\ \A e \in journal[d] : e.id <= serial[d]
         /\ newest[d] <= serial[d]
         /\ \A e \in Pending(d) : newest[d] <= e.id
         /\ \A e, x \in journal[d] : e.id = x.id => e = x

Ascends == \A d \in Devices : newest'[d] # newest[d] => newest'[d] > newest[d]

LEMMA OrderKept ==
    ASSUME TypeInv, OrderInv, late' = late, UNCHANGED <<serial, newest>>,
           \A d \in Devices : journal'[d] \subseteq journal[d]
    PROVE  OrderInv' /\ Ascends
BY DEF OrderInv, Pending, Ascends

LEMMA StepOrder ==
    ASSUME TypeInv, OrderInv, LateRequests = FALSE, [Next]_vars
    PROVE  OrderInv' /\ Ascends
<1>1. CASE UNCHANGED <<journalVars, newest, late>>
  BY <1>1, OrderKept DEF journalVars
<1>2. /\ journal \in [Devices -> SUBSET Entry] /\ serial \in [Devices -> Nat]
      /\ newest \in [Devices -> Nat]
  BY DEF TypeInv, TypeOK, QueueTypeOK
<1>3. \A d \in Devices : \A e \in journal[d] : e.id \in Nat
  BY <1>2 DEF Entry
<1>4. ASSUME NEW d \in Devices, Settle(d) PROVE OrderInv' /\ Ascends
  <2>1. First(d) \in Pending(d)
    BY <1>4, FirstPending DEF Settle, TypeInv, TypeOK, Sending
  <2>2. PICK settled : /\ journal' = [journal EXCEPT ![d] = (@ \ {First(d)}) \cup {settled}]
                       /\ settled.id = First(d).id
                       /\ UNCHANGED <<serial, newest, late>>
    <3>1. First(d) \in [id : Nat, op : Ops, attempts : 0..Budget, status : Statuses]
      BY <1>2, <2>1 DEF Pending, Entry
    <3>2. PICK a, s :
             /\ journal' = [journal EXCEPT ![d] =
                  (@ \ {First(d)}) \cup {[First(d) EXCEPT !.attempts = a, !.status = s]}]
             /\ UNCHANGED <<serial, newest, late>>
      BY <1>4, Zenon DEF Settle
    <3> DEFINE settled == [First(d) EXCEPT !.attempts = a, !.status = s]
    <3>3. settled.id = First(d).id  BY <3>1
    <3>4. journal' = [journal EXCEPT ![d] = (@ \ {First(d)}) \cup {settled}]  BY <3>2
    <3> HIDE DEF settled
    <3> QED BY <3>2, <3>3, <3>4
  <2>3. newest[d] <= First(d).id /\ First(d).id <= serial[d]
    BY <2>1 DEF OrderInv, Pending
  <2>4. \A x \in Devices : \A y \in journal'[x] :
           y \in journal[x] \/ (x = d /\ y = settled)
    BY <1>2, <2>2
  <2>5. \A y \in journal'[d] : y # settled => y # First(d) /\ y \in journal[d]
    BY <1>2, <2>2
  <2>6. \A x \in Devices : \A y, z \in journal'[x] : y.id = z.id => y = z
    BY <2>1, <2>2, <2>4, <2>5 DEF OrderInv, Pending
  <2> QED BY <2>2, <2>3, <2>4, <2>6 DEF OrderInv, Pending, Ascends
<1>5. ASSUME NEW d \in Devices, NEW o \in Ops, Import(d, o) PROVE OrderInv' /\ Ascends
  <2> DEFINE e == [id |-> serial[d] + 1, op |-> o, attempts |-> 0, status |-> "pending"]
  <2>1. /\ journal' = [journal EXCEPT ![d] = (@ \ Superseded(d, o)) \cup {e}]
        /\ serial' = [serial EXCEPT ![d] = @ + 1] /\ UNCHANGED <<newest, late>>
    BY <1>5 DEF Import
  <2>2. e.id = serial[d] + 1  OBVIOUS
  <2> HIDE DEF e
  <2>3. \A x \in Devices : \A y \in journal'[x] : y \in journal[x] \/ (x = d /\ y = e)
    BY <1>2, <2>1
  <2>4. \A x \in Devices : serial[x] \in Nat /\ serial[x] <= serial'[x]
                           /\ serial'[d] = serial[d] + 1 /\ newest[x] \in Nat
    BY <1>2, <2>1
  <2>5. ASSUME NEW x \in Devices, NEW y \in journal'[x]
        PROVE  y.id <= serial'[x] /\ newest'[x] <= serial'[x]
               /\ (y.status = "pending" => newest'[x] <= y.id)
    BY <1>3, <2>1, <2>2, <2>3, <2>4 DEF OrderInv, Pending
  <2>6. ASSUME NEW x \in Devices, NEW y \in journal'[x], NEW z \in journal'[x], y.id = z.id
        PROVE  y = z
    BY <1>3, <2>2, <2>3, <2>4, <2>6 DEF OrderInv
  <2>7. \A x \in Devices : newest'[x] <= serial'[x]
    BY <1>2, <2>1, <2>4 DEF OrderInv
  <2> QED BY <2>1, <2>5, <2>6, <2>7 DEF OrderInv, Pending, Ascends
<1>6. ASSUME NEW d \in Devices, Serve(d) PROVE OrderInv' /\ Ascends
  <2>1. First(d) \in Pending(d) /\ \A x \in Pending(d) : First(d).id <= x.id
    BY <1>6, FirstPending DEF Serve, TypeInv, TypeOK, Sending
  <2>2. /\ UNCHANGED <<journal, serial, late>>
        /\ newest' = newest \/ newest' = [newest EXCEPT ![d] = First(d).id]
    BY <1>6 DEF Serve, TakeEffect, NoEffect, journalVars
  <2>3. First(d).id \in Nat /\ First(d).id <= serial[d] /\ newest[d] <= First(d).id
    BY <1>3, <2>1 DEF OrderInv, Pending
  <2> QED BY <1>2, <2>1, <2>2, <2>3 DEF OrderInv, Pending, Ascends
<1>7. ASSUME NEW d \in Devices,
             ClearAll(d) \/ ResetStaleCache(d)
                \/ \E wanted \in SUBSET Ops : ConfirmCached(d, wanted)
      PROVE  OrderInv' /\ Ascends
  <2>1. UNCHANGED <<serial, newest, late>>
    BY <1>7 DEF ClearAll, ResetStaleCache, Empty, ConfirmCached, ghostVars
  <2>2. \A x \in Devices : journal'[x] \subseteq journal[x]
    BY <1>2, <1>7 DEF ClearAll, ResetStaleCache, ConfirmCached
  <2> QED BY <2>1, <2>2, OrderKept
<1>8. ASSUME NEW d \in Devices, Pull(d) \/ Abort(d) \/ Send(d) \/ EndDrain(d)
      PROVE  UNCHANGED <<journalVars, newest, late>>
  BY <1>8 DEF Pull, StartPull, Fetch, CommitDelta, Commit, ListPage, Check, Rehead,
              CommitSnapshot, Abort, Send, EndDrain, ghostVars
<1>9. \A req \in late : FALSE  BY DEF OrderInv
<1> QED BY <1>1, <1>4, <1>5, <1>6, <1>7, <1>8, <1>9
       DEF Next, Push, Host, vars, ghostVars

\* If no request outlives its connection, operations take effect in the order they were
\* enqueued, replays included (push_entry stops the drain at a retry): see InOrder.
THEOREM TakenInOrder ==
    ASSUME LateRequests = FALSE
    PROVE  Spec => InOrder
<1>1. Init => OrderInv
  BY DEF Init, OrderInv, Pending
<1>2. TypeInv /\ OrderInv /\ [Next]_vars => OrderInv' /\ [Ascends]_vars
  BY StepOrder, Zenon
<1> QED BY <1>1, <1>2, TypesAlways, PTL DEF Spec, InOrder, Ascends

-----------------------------------------------------------------------------
(* A cached row never goes stale in silence, and a snapshot is installed   *)
(* only if it is the library of one moment.  What makes these inductive is *)
(* what a pull under way knows, phase by phase, for as long as the server  *)
(* can still answer from the cursor it is going to commit.                 *)

\* A cursor lies behind the head of its own epoch.
Behind(cur) == cur # NoCursor => /\ cur.epoch <= epoch
                                 /\ cur.epoch = epoch => cur.seq <= head

CursorsBehind == \A d \in Devices : Behind(cursor[d]) /\ Behind(next[d])

\* r was handled by a pull up to the events after n.
Handled(rows, r, n) == rows[r] = row[r] \/ Announced(r, n)

\* A pull of changes: a fetched row is current or announced again, a row found deleted
\* is gone for good, and what differs is announced, handled or still to be resolved.
Fetching(d) ==
    /\ \A r \in Res : got[d][r] # NoRow => Handled(got[d], r, next[d].seq)
    /\ del[d] \subseteq gone
    /\ \A r \in Res : \/ Handled(cache[d], r, next[d].seq)
                      \/ got[d][r] # NoRow \/ r \in del[d]
                      \/ \E ev \in todo[d] : ev.id = r
    /\ \A ev \in todo[d] : Known(ev.id) /\ (ev.gone /\ ev.kind # "playbacks" => ev.id \in gone)
    /\ \A r \in Res : cache[d][r] # NoRow => Known(r)

\* A snapshot under way: r belongs to a list or a page that has been read.
Listed(d, i, r) ==
    \/ pc[d] = "check"
    \/ i < listing[d].list
    \/ i = listing[d].list /\ Position(Lists[i], r) < listing[d].page * ListSize

\* As long as nothing was announced since its cursor, what was read is what is there.
Reading(d) ==
    Since(next[d]) = {} =>
        \A i \in 1..3 : \A r \in Lists[i] :
            got[d][r] = IF Listed(d, i, r) THEN row[r] ELSE NoRow

PullKnows(d) ==
    Follows(next[d]) =>
        /\ pc[d] = "fetch" => Fetching(d)
        /\ pc[d] \in {"list", "check"} => Reading(d)
        /\ pc[d] = "install" => \A r \in Res : Handled(got[d], r, next[d].seq)

PullInv ==
    /\ CursorsBehind
    /\ NoSilentStaleness
    /\ \A d \in Devices : PullKnows(d)

-----------------------------------------------------------------------------
(* What a step of the library does to a cursor and to what it announces.    *)

\* A cursor that can be followed after a step could be followed before it.
LEMMA FollowedBefore ==
    ASSUME TypeInv, LibInv', LibraryMoves, NEW cur \in Cursor \cup {NoCursor}, Behind(cur),
           Follows(cur)'
    PROVE  Follows(cur) /\ epoch' = epoch
<1>1. epoch \in Nat /\ epoch' \in Nat /\ floor \in Nat /\ floor' \in Nat /\ cur # NoCursor
      /\ cur \in Cursor /\ cur.epoch = epoch' /\ cur.seq >= floor'
  BY DEF TypeInv, TypeOK, LibInv, LibTypeOK, Follows
<1>2. epoch' = epoch  BY <1>1 DEF LibraryMoves, Moved, Expired, Behind
<1>3. floor' >= floor  BY <1>1, <1>2 DEF LibraryMoves, Moved, Expired
<1>4. cur.seq >= floor  BY <1>1, <1>3 DEF Cursor
<1> QED BY <1>1, <1>2, <1>4 DEF Follows

LEMMA BehindKept ==
    ASSUME TypeInv, LibInv', LibraryMoves, NEW cur \in Cursor \cup {NoCursor}, Behind(cur)
    PROVE  Behind(cur)'
<1>1. epoch \in Nat /\ head \in Nat /\ epoch' \in Nat /\ head' \in Nat
  BY DEF TypeInv, TypeOK, LibInv, LibTypeOK
<1>2. CASE cur = NoCursor  BY <1>2 DEF Behind
<1>3. CASE cur # NoCursor
  <2>1. cur \in Cursor /\ cur.epoch \in Nat /\ cur.seq \in Nat  BY <1>3 DEF Cursor
  <2> QED BY <1>1, <1>3, <2>1 DEF Behind, LibraryMoves, Moved, Expired
<1> QED BY <1>2, <1>3

\* While a cursor can be followed, a row that changes is announced after it, and what
\* was announced stays announced.
LEMMA AnnouncedKept ==
    ASSUME TypeInv, LibInv', LibraryMoves, NEW cur \in Cursor \cup {NoCursor}, Behind(cur),
           Follows(cur)'
    PROVE  /\ \A r \in Res : row'[r] = row[r] \/ Announced(r, cur.seq)'
           /\ \A r \in Res : Announced(r, cur.seq) => Announced(r, cur.seq)'
           /\ gone \subseteq gone'
           /\ \A r \in Res : Known(r) => Known(r)'
           /\ Since(cur)' = {} => Since(cur) = {} /\ row' = row
<1>1. Follows(cur) /\ epoch' = epoch  BY FollowedBefore
<1>2. /\ cur \in Cursor /\ cur.seq \in Nat /\ cur.seq <= head /\ head \in Nat
      /\ floor' \in Nat /\ cur.seq >= floor' /\ epoch \in Nat
  BY <1>1 DEF Follows, Behind, Cursor, TypeInv, TypeOK, LibInv, LibTypeOK
<1>3. Moved \/ Expired  BY <1>1, <1>2 DEF LibraryMoves
<1>4. \A ev \in feed' : ev.seq \in Nat  BY DEF LibInv, LibTypeOK, Event
<1>5. \A ev \in feed : ev.seq \in Nat  BY DEF TypeInv, TypeOK, LibTypeOK, Event
<1>6. \A ev \in feed : ev.seq > cur.seq => ev \in feed'
  BY <1>2, <1>3, <1>5 DEF Moved, Expired
<1>7. \A r \in Res : Announced(r, cur.seq) => Announced(r, cur.seq)'
  BY <1>6 DEF Announced
<1>8. ASSUME NEW r \in Res, row'[r] # row[r] PROVE Announced(r, cur.seq)'
  <2>1. PICK ev \in feed' : ev.id = r /\ ev.seq > head  BY <1>3, <1>8 DEF Moved, Expired
  <2>2. ev.seq > cur.seq  BY <1>2, <1>4, <2>1
  <2> QED BY <2>1, <2>2 DEF Announced
<1>9. gone \subseteq gone'  BY <1>3 DEF Moved, Expired
<1>10. ASSUME NEW r \in Res, Known(r) PROVE Known(r)'
  <2>1. CASE row'[r] = row[r]  BY <1>9, <1>10, <2>1 DEF Known, Live
  <2>2. CASE row'[r] # row[r]
    <3>1. PICK ev \in feed' : ev.id = r  BY <1>8, <2>2 DEF Announced
    <3> QED BY <3>1 DEF LibInv, EventSound
  <2> QED BY <2>1, <2>2
<1>11. ASSUME Since(cur)' = {} PROVE Since(cur) = {} /\ row' = row
  <2>1. Since(cur) = {}  BY <1>6, <1>11 DEF Since
  <2>2. \A r \in Res : ~Announced(r, cur.seq)'  BY <1>11 DEF Since, Announced
  <2>3. \A r \in Res : row'[r] = row[r]  BY <1>8, <2>2
  <2>4. row \in [Res -> Row \cup {NoRow}] /\ row' \in [Res -> Row \cup {NoRow}]
    BY DEF TypeInv, TypeOK, LibInv, LibTypeOK
  <2> QED BY <2>1, <2>3, <2>4
<1> QED BY <1>7, <1>8, <1>9, <1>10, <1>11

-----------------------------------------------------------------------------
(* Steps of the library, of other devices, and of the journal.              *)

\* What a device knows is not disturbed by the library.
LEMMA KnowledgeKept ==
    ASSUME TypeInv, PullInv, LibInv', LibraryMoves, NEW d \in Devices,
           pc'[d] = pc[d], next'[d] = next[d], todo'[d] = todo[d], got'[d] = got[d],
           del'[d] = del[d], listing'[d] = listing[d], cache'[d] = cache[d]
    PROVE  PullKnows(d)'
<1> SUFFICES ASSUME Follows(next[d])'
             PROVE  /\ pc'[d] = "fetch" => Fetching(d)'
                    /\ pc'[d] \in {"list", "check"} => Reading(d)'
                    /\ pc'[d] = "install" => \A r \in Res : Handled(got[d], r, next[d].seq)'
  BY DEF PullKnows
<1>1. next[d] \in Cursor \cup {NoCursor} /\ Behind(next[d])
  BY DEF TypeInv, TypeOK, QueueTypeOK, PullInv, CursorsBehind
<1>2. Follows(next[d])
  BY <1>1, FollowedBefore DEF Follows
<1>3. /\ \A r \in Res : row'[r] = row[r] \/ Announced(r, next[d].seq)'
      /\ \A r \in Res : Announced(r, next[d].seq) => Announced(r, next[d].seq)'
      /\ gone \subseteq gone'
      /\ \A r \in Res : Known(r) => Known(r)'
      /\ Since(next[d])' = {} => Since(next[d]) = {} /\ row' = row
  BY <1>1, AnnouncedKept
<1>4. \A r \in Res : Handled(got[d], r, next[d].seq) => Handled(got[d], r, next[d].seq)'
  BY <1>3 DEF Handled
<1>5. \A r \in Res : Handled(cache[d], r, next[d].seq) => Handled(cache[d], r, next[d].seq)'
  BY <1>3 DEF Handled
<1>6. ASSUME pc'[d] = "fetch" PROVE Fetching(d)'
  <2>1. Fetching(d)  BY <1>2, <1>6 DEF PullInv, PullKnows
  <2>2. \A ev \in todo[d] : ev.id \in Res
    BY DEF TypeInv, TypeOK, QueueTypeOK, Event
  <2>3. \A r \in Res : got'[d][r] # NoRow => Handled(got[d], r, next[d].seq)'
    BY <1>4, <2>1 DEF Fetching
  <2>4. del'[d] \subseteq gone'  BY <1>3, <2>1 DEF Fetching
  <2>5. \A r \in Res : \/ Handled(cache[d], r, next[d].seq)'
                      \/ got'[d][r] # NoRow \/ r \in del'[d]
                      \/ \E ev \in todo'[d] : ev.id = r
    BY <1>5, <2>1 DEF Fetching
  <2>6. \A ev \in todo'[d] : Known(ev.id)' /\ (ev.gone /\ ev.kind # "playbacks" => ev.id \in gone')
    BY <1>3, <2>1, <2>2 DEF Fetching
  <2>7. \A r \in Res : cache'[d][r] # NoRow => Known(r)'
    BY <1>3, <2>1 DEF Fetching
  <2> QED BY <2>3, <2>4, <2>5, <2>6, <2>7 DEF Fetching
<1>7. ASSUME pc'[d] \in {"list", "check"} PROVE Reading(d)'
  <2>1. Reading(d)  BY <1>2, <1>7 DEF PullInv, PullKnows
  <2> SUFFICES ASSUME Since(next[d])' = {}, NEW i \in 1..3, NEW r \in Lists[i]
               PROVE  got'[d][r] = IF Listed(d, i, r)' THEN row'[r] ELSE NoRow
    BY DEF Reading
  <2>2. Since(next[d]) = {} /\ row' = row  BY <1>3
  <2>3. Listed(d, i, r)' <=> Listed(d, i, r)
    BY <2>2 DEF Listed, Position, Live
  <2> QED BY <2>1, <2>2, <2>3 DEF Reading
<1>8. ASSUME pc'[d] = "install" PROVE \A r \in Res : Handled(got[d], r, next[d].seq)'
  BY <1>2, <1>4, <1>8 DEF PullInv, PullKnows
<1> QED BY <1>6, <1>7, <1>8

\* Nor is what its cache owes to the cursor.
LEMMA FreshnessKept ==
    ASSUME TypeInv, PullInv, LibInv', LibraryMoves, NEW d \in Devices,
           cache'[d] = cache[d], cursor'[d] = cursor[d], Follows(cursor[d])', NEW r \in Res
    PROVE  cache'[d][r] = row'[r] \/ Announced(r, cursor[d].seq)'
<1>1. cursor[d] \in Cursor \cup {NoCursor} /\ Behind(cursor[d])
  BY DEF TypeInv, TypeOK, QueueTypeOK, PullInv, CursorsBehind
<1>2. Follows(cursor[d])  BY <1>1, FollowedBefore DEF Follows
<1>3. cache[d][r] = row[r] \/ Announced(r, cursor[d].seq)
  BY <1>2 DEF PullInv, NoSilentStaleness
<1> QED BY <1>1, <1>3, AnnouncedKept

\* A device whose pull stands still keeps all it knows.
Still(d) == /\ pc'[d] = pc[d] /\ next'[d] = next[d] /\ todo'[d] = todo[d] /\ got'[d] = got[d]
            /\ del'[d] = del[d] /\ listing'[d] = listing[d] /\ cache'[d] = cache[d]
            /\ cursor'[d] = cursor[d]

\* What one device shows after a step.
DeviceSound(d) ==
    /\ Behind(cursor[d]) /\ Behind(next[d])
    /\ Follows(cursor[d]) => \A r \in Res : cache[d][r] = row[r] \/ Announced(r, cursor[d].seq)
    /\ PullKnows(d)

LEMMA PullInvByDevice == PullInv <=> \A d \in Devices : DeviceSound(d)
BY DEF PullInv, CursorsBehind, NoSilentStaleness, DeviceSound

LEMMA StillSound ==
    ASSUME TypeInv, PullInv, LibInv', LibraryMoves, NEW d \in Devices, Still(d)
    PROVE  DeviceSound(d)'
<1>1. /\ cursor[d] \in Cursor \cup {NoCursor} /\ Behind(cursor[d])
      /\ next[d] \in Cursor \cup {NoCursor} /\ Behind(next[d])
  BY DEF TypeInv, TypeOK, QueueTypeOK, PullInv, CursorsBehind
<1>2. Behind(cursor[d])' /\ Behind(next[d])'
  BY <1>1, BehindKept DEF Still, Behind
<1>3. PullKnows(d)'  BY KnowledgeKept DEF Still
<1>4. Follows(cursor[d])' => \A r \in Res : cache'[d][r] = row'[r] \/ Announced(r, cursor[d].seq)'
  BY FreshnessKept DEF Still
<1> QED BY <1>2, <1>3, <1>4 DEF DeviceSound

-----------------------------------------------------------------------------
(* Steps of the device itself.                                              *)

\* Steps that are not part of a pull, or end one without a commit.
LEMMA OutsidePull ==
    ASSUME TypeInv, PullInv, LibInv', LibraryMoves, NEW d \in Devices,
           pc'[d] \notin {"fetch", "list", "check", "install"},
           cache'[d] = cache[d], cursor'[d] = cursor[d],
           next'[d] = next[d] \/ next'[d] = NoCursor
    PROVE  DeviceSound(d)'
<1>1. /\ cursor[d] \in Cursor \cup {NoCursor} /\ Behind(cursor[d])
      /\ next[d] \in Cursor \cup {NoCursor} /\ Behind(next[d])
  BY DEF TypeInv, TypeOK, QueueTypeOK, PullInv, CursorsBehind
<1>2. Behind(cursor[d])' /\ Behind(next[d])'
  BY <1>1, BehindKept DEF Behind
<1>3. PullKnows(d)'  BY DEF PullKnows
<1>4. Follows(cursor[d])' => \A r \in Res : cache'[d][r] = row'[r] \/ Announced(r, cursor[d].seq)'
  BY FreshnessKept
<1> QED BY <1>2, <1>3, <1>4 DEF DeviceSound

LEMMA EmptySound ==
    ASSUME TypeInv, PullInv, LibInv', LibraryMoves, NEW d \in Devices, Empty(d)
    PROVE  DeviceSound(d)'
<1>1. /\ cursor' = [cursor EXCEPT ![d] = NoCursor] /\ UNCHANGED <<pc, next>> /\ pc[d] = "idle"
      /\ cursor \in [Devices -> Cursor \cup {NoCursor}]
  BY DEF Empty, GateFree, pullVars, TypeInv, TypeOK, QueueTypeOK
<1>2. cursor'[d] = NoCursor  BY <1>1
<1>3. next[d] \in Cursor \cup {NoCursor} /\ Behind(next[d])
  BY DEF TypeInv, TypeOK, QueueTypeOK, PullInv, CursorsBehind
<1>4. Behind(next[d])'  BY <1>1, <1>3, BehindKept DEF Behind
<1> QED BY <1>1, <1>2, <1>4 DEF DeviceSound, Behind, Follows, PullKnows

LEMMA PositionType ==
    ASSUME TypeInv, NEW L \in SUBSET Res, NEW r \in Res
    PROVE  /\ Position(L, r) \in Nat
           /\ Live(r) /\ r \in L => Position(L, r) < Cardinality({x \in L : Live(x)})
           /\ Cardinality({x \in L : Live(x)}) \in Nat
<1> DEFINE A == {x \in L : Live(x)}
<1> DEFINE B == {x \in L : Live(x) /\ x < r}
<1>1. IsFiniteSet(L)  BY ResFinite, FS_Subset
<1>2. IsFiniteSet(A)  BY <1>1, FS_Subset
<1>3. B \in SUBSET A  OBVIOUS
<1>4. r \notin B  BY IdAssumption
<1>5. r \in A => A # B  BY <1>4
<1> HIDE DEF A, B
<1>6. IsFiniteSet(B) /\ Cardinality(B) <= Cardinality(A) /\ (Cardinality(A) = Cardinality(B) => A = B)
  BY <1>2, <1>3, FS_Subset
<1>7. Cardinality(A) \in Nat /\ Cardinality(B) \in Nat  BY <1>2, <1>6, FS_CardinalityType
<1>8. r \in A => Cardinality(B) < Cardinality(A)  BY <1>5, <1>6, <1>7
<1> QED BY <1>7, <1>8 DEF A, B, Position

\* The lists make up the library.
LEMMA ListsCover ==
    /\ \A i \in 1..3 : Lists[i] \in SUBSET Res
    /\ \A r \in Res : \E i \in 1..3 : r \in Lists[i]
    /\ \A i, j \in 1..3 : i # j => Lists[i] \cap Lists[j] = {}
<1>1. Lists[1] = Podcasts /\ Lists[2] = Episodes /\ Lists[3] = Playlists  BY DEF Lists
<1>2. \A i \in 1..3 : i = 1 \/ i = 2 \/ i = 3  OBVIOUS
<1>3. \A i \in 1..3 : Lists[i] \in SUBSET Res  BY <1>1, <1>2 DEF Res
<1>4. \A r \in Res : \E i \in 1..3 : r \in Lists[i]
  <2>1. 1 \in 1..3 /\ 2 \in 1..3 /\ 3 \in 1..3  OBVIOUS
  <2> QED BY <1>1, <2>1 DEF Res
<1>5. \A i, j \in 1..3 : i # j => Lists[i] \cap Lists[j] = {}
  BY <1>1, <1>2, IdAssumption
<1> QED BY <1>3, <1>4, <1>5

LEMMA HeadBehind ==
    ASSUME TypeInv PROVE HeadCursor \in Cursor /\ Behind(HeadCursor)
BY DEF HeadCursor, Behind, Cursor, TypeInv, TypeOK, LibTypeOK

\* A snapshot that has read nothing yet.
LEMMA SnapshotStarts ==
    ASSUME TypeInv, PullInv, TypeInv', Expired, NEW d \in Devices,
           pc'[d] = "list", got'[d] = Nothing, listing'[d] = [list |-> 1, page |-> 0],
           next'[d] = HeadCursor, cache'[d] = cache[d], cursor'[d] = cursor[d]
    PROVE  DeviceSound(d)'
<1>1. LibInv' /\ LibraryMoves  BY DEF TypeInv, LibraryMoves
<1>2. cursor[d] \in Cursor \cup {NoCursor} /\ Behind(cursor[d])
  BY DEF TypeInv, TypeOK, QueueTypeOK, PullInv, CursorsBehind
<1>3. Behind(cursor[d])'  BY <1>1, <1>2, BehindKept DEF Behind
<1>4. Behind(next[d])'  BY HeadBehind DEF Behind, Expired
<1>5. ASSUME NEW i \in 1..3, NEW r \in Lists[i] PROVE ~Listed(d, i, r)'
  <2>1. r \in Res /\ Lists[i] \in SUBSET Res  BY ListsCover
  <2>2. Position(Lists[i], r)' = Position(Lists[i], r)  BY DEF Expired, Position, Live
  <2>3. Position(Lists[i], r) \in Nat  BY <2>1, PositionType
  <2>4. 0 * ListSize = 0  BY LimitAssumption
  <2> QED BY <2>2, <2>3, <2>4 DEF Listed
<1>6. \A i \in 1..3 : \A r \in Lists[i] : got'[d][r] = NoRow
  BY ListsCover DEF Nothing
<1>7. PullKnows(d)'  BY <1>5, <1>6 DEF PullKnows, Reading
<1>8. Follows(cursor[d])' => \A r \in Res : cache'[d][r] = row'[r] \/ Announced(r, cursor[d].seq)'
  BY <1>1, FreshnessKept
<1> QED BY <1>3, <1>4, <1>7, <1>8 DEF DeviceSound

\* The last event for a row stands for all of them.
LEMMA LastEventStands ==
    ASSUME TypeInv, NEW cur \in Cursor, NEW n \in Nat,
           NEW ev \in feed, ev.seq > cur.seq, ev.seq <= n
    PROVE  \E x \in LastEvents(UpTo(Since(cur), n)) : x.id = ev.id
<1> DEFINE page == UpTo(Since(cur), n)
<1> DEFINE same == {x \in page : x.kind = ev.kind /\ x.id = ev.id}
<1> DEFINE S == {x.seq : x \in same}
<1>1. \A x \in page : x.seq \in Nat /\ x.seq <= n
  BY DEF UpTo, Since, TypeInv, TypeOK, LibTypeOK, Event
<1>2. ev \in page  BY DEF UpTo, Since
<1>3. ev \in same  BY <1>2
<1>4. S \in SUBSET Nat /\ S # {} /\ \A s \in S : s <= n  BY <1>1, <1>3
<1>5. PICK m \in S : \A s \in S : s <= m
  <2> HIDE DEF S
  <2> QED BY <1>4, NatMax
<1>6. PICK x \in same : x.seq = m  OBVIOUS
<1>7. ASSUME NEW y \in page, y.kind = x.kind, y.id = x.id PROVE ~(y.seq > x.seq)
  <2>1. y \in same  BY <1>6, <1>7
  <2>2. y.seq <= m  BY <1>5, <2>1
  <2> QED BY <1>1, <1>6, <2>2
<1>8. x \in LastEvents(page)  BY <1>6, <1>7 DEF LastEvents
<1> QED BY <1>6, <1>8

LEMMA StartPullSound ==
    ASSUME TypeInv, PullInv, TypeInv', Expired, NEW d \in Devices, StartPull(d)
    PROVE  DeviceSound(d)'
<1>1. LibInv' /\ LibraryMoves  BY DEF TypeInv, LibraryMoves
<1>2. /\ cursor[d] \in Cursor \cup {NoCursor} /\ Behind(cursor[d])
      /\ cache' = cache /\ cursor' = cursor /\ row' = row /\ gone' = gone
      /\ epoch' = epoch /\ head' = head /\ epoch \in Nat /\ head \in Nat
      /\ got' = [got EXCEPT ![d] = Nothing] /\ del' = [del EXCEPT ![d] = {}]
      /\ listing' = [listing EXCEPT ![d] = [list |-> 1, page |-> 0]]
  BY DEF TypeInv, TypeOK, LibTypeOK, QueueTypeOK, PullInv, CursorsBehind, StartPull, Expired
<1>3. got'[d] = Nothing /\ del'[d] = {} /\ listing'[d] = [list |-> 1, page |-> 0]
  BY <1>2 DEF TypeInv, TypeOK, QueueTypeOK
<1>4. PICK f \in floor..head :
        /\ ReadChanges(f)
        /\ \/ /\ next' = [next EXCEPT ![d] = HeadCursor]
              /\ pc' = [pc EXCEPT ![d] = "list"]
           \/ /\ ~MustReset(cursor[d], f)
              /\ \E n \in cursor[d].seq..head :
                   /\ next' = [next EXCEPT ![d] = [epoch |-> epoch, seq |-> n]]
                   /\ todo' = [todo EXCEPT ![d] = LastEvents(UpTo(Since(cursor[d]), n))]
              /\ pc' = [pc EXCEPT ![d] = "fetch"]
  BY DEF StartPull
<1>5. CASE next' = [next EXCEPT ![d] = HeadCursor] /\ pc' = [pc EXCEPT ![d] = "list"]
  <2>1. next'[d] = HeadCursor /\ pc'[d] = "list"
    BY <1>5 DEF TypeInv, TypeOK, QueueTypeOK
  <2> QED BY <1>2, <1>3, <2>1, SnapshotStarts
<1>6. ASSUME ~MustReset(cursor[d], f), pc' = [pc EXCEPT ![d] = "fetch"],
             NEW n \in cursor[d].seq..head,
             next' = [next EXCEPT ![d] = [epoch |-> epoch, seq |-> n]],
             todo' = [todo EXCEPT ![d] = LastEvents(UpTo(Since(cursor[d]), n))]
      PROVE  DeviceSound(d)'
  <2>1. /\ pc'[d] = "fetch" /\ next'[d] = [epoch |-> epoch, seq |-> n]
        /\ todo'[d] = LastEvents(UpTo(Since(cursor[d]), n))
    BY <1>6 DEF TypeInv, TypeOK, QueueTypeOK
  <2>2. floor \in Nat /\ f \in Nat /\ f >= floor /\ feed' = {ev \in feed : ev.seq > f}
    BY <1>4 DEF TypeInv, TypeOK, LibTypeOK, ReadChanges
  <2>3. cursor[d] \in Cursor /\ cursor[d].seq \in Nat /\ cursor[d].seq >= f
        /\ cursor[d].epoch = epoch
    BY <1>2, <1>6, <2>2 DEF MustReset, Cursor
  <2>4. n \in Nat /\ n <= head  BY <1>2, <2>3
  <2>5. Follows(cursor[d])
    BY <2>2, <2>3 DEF Follows, NoCursor
  <2>6. \A r \in Res : cache[d][r] = row[r] \/ Announced(r, cursor[d].seq)
    BY <2>5 DEF PullInv, NoSilentStaleness
  <2>7. \A ev \in feed : ev.seq \in Nat /\ EventSound(ev)
    BY DEF TypeInv, TypeOK, LibInv, LibTypeOK, Event
  <2>8. todo'[d] \subseteq feed  BY <2>1 DEF LastEvents, UpTo, Since
  <2>9. ASSUME NEW r \in Res
        PROVE  Handled(cache[d], r, next[d].seq)' \/ \E ev \in todo'[d] : ev.id = r
    <3>1. CASE cache[d][r] = row[r]  BY <1>2, <3>1 DEF Handled
    <3>2. CASE Announced(r, cursor[d].seq)
      <4>1. PICK ev \in feed : ev.id = r /\ ev.seq > cursor[d].seq  BY <3>2 DEF Announced
      <4>2. CASE ev.seq <= n  BY <2>1, <2>3, <2>4, <4>1, <4>2, LastEventStands
      <4>3. CASE ev.seq > n
        <5>1. ev \in feed'  BY <2>2, <2>3, <2>7, <4>1
        <5> QED BY <2>1, <4>1, <4>3, <5>1 DEF Handled, Announced
      <4> QED BY <2>4, <2>7, <4>2, <4>3
    <3> QED BY <2>6, <3>1, <3>2
  <2>10. ASSUME NEW r \in Res, cache'[d][r] # NoRow PROVE Known(r)'
    <3>1. CASE cache[d][r] = row[r]  BY <1>2, <2>10, <3>1 DEF Known, Live
    <3>2. CASE Announced(r, cursor[d].seq)
      BY <1>2, <2>7, <3>2 DEF Announced, EventSound, Known, Live
    <3> QED BY <2>6, <3>1, <3>2
  <2>11. \A ev \in todo'[d] : Known(ev.id)' /\ (ev.gone /\ ev.kind # "playbacks" => ev.id \in gone')
    BY <1>2, <2>7, <2>8 DEF EventSound, Known, Live
  <2>12. Fetching(d)'
    <3>1. \A r \in Res : got'[d][r] = NoRow  BY <1>3 DEF Nothing
    <3> QED BY <1>3, <2>9, <2>10, <2>11, <3>1 DEF Fetching
  <2>13. Behind(next[d])'  BY <1>2, <2>1, <2>4 DEF Behind
  <2>14. Behind(cursor[d])'  BY <1>1, <1>2, BehindKept DEF Behind
  <2>15. Follows(cursor[d])' => \A r \in Res : cache'[d][r] = row'[r] \/ Announced(r, cursor[d].seq)'
    BY <1>1, <1>2, FreshnessKept
  <2> QED BY <2>1, <2>12, <2>13, <2>14, <2>15 DEF DeviceSound, PullKnows
<1> QED BY <1>4, <1>5, <1>6

\* The parts of DeviceSound that a pull in progress leaves to the library.
LEMMA PullGoesOn ==
    ASSUME TypeInv, PullInv, LibInv', LibraryMoves, NEW d \in Devices,
           cache'[d] = cache[d], cursor'[d] = cursor[d], Behind(next[d])', PullKnows(d)'
    PROVE  DeviceSound(d)'
<1>1. cursor[d] \in Cursor \cup {NoCursor} /\ Behind(cursor[d])
  BY DEF TypeInv, TypeOK, QueueTypeOK, PullInv, CursorsBehind
<1>2. Behind(cursor[d])'  BY <1>1, BehindKept DEF Behind
<1>3. Follows(cursor[d])' => \A r \in Res : cache'[d][r] = row'[r] \/ Announced(r, cursor[d].seq)'
  BY FreshnessKept
<1> QED BY <1>2, <1>3 DEF DeviceSound

LEMMA FetchSound ==
    ASSUME TypeInv, PullInv, TypeInv', NEW d \in Devices, Fetch(d)
    PROVE  DeviceSound(d)'
<1>1. /\ row' = row /\ gone' = gone /\ feed' = feed /\ head' = head /\ floor' = floor
      /\ epoch' = epoch /\ UNCHANGED libVars
      /\ cache' = cache /\ cursor' = cursor /\ next' = next /\ pc' = pc /\ pc[d] = "fetch"
  BY DEF Fetch, libVars
<1>2. LibInv' /\ LibraryMoves  BY <1>1, StutterStep DEF TypeInv, LibraryMoves
<1>3. PICK ev \in todo[d] :
         /\ todo' = [todo EXCEPT ![d] = @ \ {ev}]
         /\ \/ /\ Asked(ev) /\ Live(ev.id)
               /\ got' = [got EXCEPT ![d][ev.id] = row[ev.id]] /\ UNCHANGED del
            \/ /\ ~(Asked(ev) /\ Live(ev.id))
               /\ del' = [del EXCEPT ![d] = @ \cup Doomed(d, ev.id)] /\ UNCHANGED got
  BY DEF Fetch
<1>4. ev \in Event /\ ev.id \in Res
  BY DEF TypeInv, TypeOK, QueueTypeOK, Event
<1>5. /\ got[d] \in [Res -> Row \cup {NoRow}]
      /\ got \in [Devices -> [Res -> Row \cup {NoRow}]] /\ del \in [Devices -> SUBSET Res]
      /\ todo \in [Devices -> SUBSET Event]
  BY DEF TypeInv, TypeOK, QueueTypeOK
<1>6. todo'[d] = todo[d] \ {ev}  BY <1>3, <1>5
<1>7. ASSUME Follows(next[d]) PROVE Fetching(d)'
  <2>1. Fetching(d)  BY <1>1, <1>7 DEF PullInv, PullKnows
  <2>2. \A x \in todo'[d] : Known(x.id)' /\ (x.gone /\ x.kind # "playbacks" => x.id \in gone')
    BY <1>1, <1>6, <2>1 DEF Fetching, Known, Live
  <2>3. \A r \in Res : cache'[d][r] # NoRow => Known(r)'
    BY <1>1, <2>1 DEF Fetching, Known, Live
  <2>4. \A r \in Res : Handled(cache[d], r, next[d].seq)' <=> Handled(cache[d], r, next[d].seq)
    BY <1>1 DEF Handled, Announced
  <2>5. CASE Asked(ev) /\ Live(ev.id) /\ got' = [got EXCEPT ![d][ev.id] = row[ev.id]] /\ UNCHANGED del
    <3>1. got'[d] = [got[d] EXCEPT ![ev.id] = row[ev.id]]  BY <1>5, <2>5
    <3>2. got'[d][ev.id] = row[ev.id] /\ \A r \in Res : r # ev.id => got'[d][r] = got[d][r]
      BY <1>4, <1>5, <3>1
    <3>3. got'[d][ev.id] # NoRow  BY <2>5, <3>2 DEF Live
    <3>4. \A r \in Res : got'[d][r] # NoRow => Handled(got[d], r, next[d].seq)'
      BY <1>1, <2>1, <3>2 DEF Fetching, Handled, Announced
    <3>5. \A r \in Res : \/ Handled(cache[d], r, next[d].seq)'
                        \/ got'[d][r] # NoRow \/ r \in del'[d]
                        \/ \E x \in todo'[d] : x.id = r
      BY <1>6, <2>1, <2>4, <2>5, <3>2, <3>3 DEF Fetching
    <3>6. del'[d] \subseteq gone'  BY <1>1, <2>1, <2>5 DEF Fetching
    <3> QED BY <2>2, <2>3, <3>4, <3>5, <3>6 DEF Fetching
  <2>6. CASE ~(Asked(ev) /\ Live(ev.id)) /\ del' = [del EXCEPT ![d] = @ \cup Doomed(d, ev.id)]
             /\ UNCHANGED got
    <3>1. del'[d] = del[d] \cup Doomed(d, ev.id)  BY <1>5, <2>6
    <3>2. Shape(row, gone)  BY DEF TypeInv, LibInv
    <3>3. ev.id \in gone /\ ~Live(ev.id)
      BY <1>4, <2>1, <2>6, <3>2 DEF Fetching, Asked, Known, Shape, Live
    <3>4. ASSUME NEW e \in Episodes, ev.id \in Podcasts, PodcastOf[e] = ev.id, cache[d][e] # NoRow
          PROVE  e \in gone
      <4>1. ~Live(e)  BY <3>2, <3>3, <3>4 DEF Shape, Live
      <4> QED BY <2>1, <3>4, <4>1 DEF Fetching, Known, Res
    <3>5. del'[d] \subseteq gone'
      BY <1>1, <2>1, <3>1, <3>3, <3>4 DEF Fetching, Doomed
    <3>6. ev.id \in del'[d]  BY <3>1 DEF Doomed
    <3>7. \A r \in Res : got'[d][r] # NoRow => Handled(got[d], r, next[d].seq)'
      BY <1>1, <2>1, <2>6 DEF Fetching, Handled, Announced
    <3>8. \A r \in Res : \/ Handled(cache[d], r, next[d].seq)'
                        \/ got'[d][r] # NoRow \/ r \in del'[d]
                        \/ \E x \in todo'[d] : x.id = r
      BY <1>6, <2>1, <2>4, <2>6, <3>1, <3>6 DEF Fetching
    <3> QED BY <2>2, <2>3, <3>5, <3>7, <3>8 DEF Fetching
  <2> QED BY <1>3, <2>5, <2>6
<1>8. PullKnows(d)'
  BY <1>1, <1>7 DEF PullKnows, Follows
<1>9. Behind(next[d])'
  BY <1>1 DEF PullInv, CursorsBehind, Behind
<1> QED BY <1>1, <1>2, <1>8, <1>9, PullGoesOn

\* The cache a delta commits owes the cursor nothing.
LEMMA MergedFresh ==
    ASSUME TypeInv, PullInv, NEW d \in Devices, pc[d] = "fetch", todo[d] = {},
           Follows(next[d]), NEW r \in Res
    PROVE  Handled(Merged(d), r, next[d].seq)
<1>1. Fetching(d)  BY DEF PullInv, PullKnows
<1>2. Merged(d)[r] = IF got[d][r] # NoRow THEN got[d][r]
                     ELSE IF r \in del[d] THEN NoRow ELSE Pruned(d, r)
  BY DEF Merged
<1>3. Shape(row, gone) /\ row[r] \in Row \cup {NoRow}
  BY DEF TypeInv, TypeOK, LibInv, LibTypeOK
<1>4. CASE got[d][r] # NoRow
  BY <1>1, <1>2, <1>4 DEF Fetching, Handled
<1>5. CASE got[d][r] = NoRow /\ r \in del[d]
  BY <1>1, <1>2, <1>3, <1>5 DEF Fetching, Handled, Shape
<1>6. CASE got[d][r] = NoRow /\ r \notin del[d]
  <2>1. Handled(cache[d], r, next[d].seq)  BY <1>1, <1>6 DEF Fetching
  <2>2. CASE Announced(r, next[d].seq)  BY <2>2 DEF Handled
  <2>3. CASE cache[d][r] = row[r]
    <3>1. Pruned(d, r) = row[r]
      <4>1. CASE ~(r \in Playlists /\ cache[d][r] # NoRow)  BY <2>3, <4>1 DEF Pruned
      <4>2. CASE r \in Playlists /\ cache[d][r] # NoRow
        <5>1. row[r] \in Row  BY <1>3, <2>3, <4>2
        <5>2. \A e \in row[r].refs : row[e] # NoRow  BY <1>3, <2>3, <4>2 DEF Shape
        <5>3. \A e \in row[r].refs : e \notin gone  BY <1>3, <5>2 DEF Shape
        <5>4. row[r].refs \ del[d] = row[r].refs  BY <1>1, <5>3 DEF Fetching
        <5>5. [row[r] EXCEPT !.refs = row[r].refs \ del[d]] = row[r]
          BY <5>1, <5>4 DEF Row
        <5> QED BY <2>3, <4>2, <5>5 DEF Pruned
      <4> QED BY <4>1, <4>2
    <3> QED BY <1>2, <1>6, <3>1 DEF Handled
  <2> QED BY <2>1, <2>2, <2>3 DEF Handled
<1> QED BY <1>4, <1>5, <1>6

LEMMA CommitSound ==
    ASSUME TypeInv, PullInv, TypeInv', NEW d \in Devices, NEW rows, Commit(d, rows),
           Follows(next[d]) => \A r \in Res : Handled(rows, r, next[d].seq)
    PROVE  DeviceSound(d)'
<1>1. /\ row' = row /\ gone' = gone /\ feed' = feed /\ head' = head /\ floor' = floor
      /\ epoch' = epoch
      /\ cache' = [cache EXCEPT ![d] = rows] /\ cursor' = [cursor EXCEPT ![d] = next[d]]
      /\ pc' = [pc EXCEPT ![d] = "idle"] /\ next' = [next EXCEPT ![d] = NoCursor]
  BY DEF Commit, Release, libVars
<1>2. cache'[d] = rows /\ cursor'[d] = next[d] /\ pc'[d] = "idle" /\ next'[d] = NoCursor
  BY <1>1 DEF TypeInv, TypeOK, QueueTypeOK
<1>3. Behind(cursor[d])' /\ Behind(next[d])'
  BY <1>1, <1>2 DEF PullInv, CursorsBehind, Behind
<1>4. PullKnows(d)'  BY <1>2 DEF PullKnows
<1>5. Follows(cursor[d])' => \A r \in Res : cache'[d][r] = row'[r] \/ Announced(r, cursor[d].seq)'
  BY <1>1, <1>2 DEF Follows, Handled, Announced
<1> QED BY <1>3, <1>4, <1>5 DEF DeviceSound

\* A page adds the rows at its offsets, and the last page leaves none out.
LEMMA ListPageSound ==
    ASSUME TypeInv, PullInv, TypeInv', NEW d \in Devices, ListPage(d)
    PROVE  DeviceSound(d)'
<1> DEFINE i == listing[d].list
<1> DEFINE p == listing[d].page
<1> DEFINE from == p * ListSize
<1> DEFINE to == (p + 1) * ListSize
<1> DEFINE L == Lists[i]
<1> DEFINE page == {r \in L : Live(r) /\ from <= Position(L, r) /\ Position(L, r) < to}
<1>1. /\ row' = row /\ gone' = gone /\ feed' = feed /\ head' = head /\ floor' = floor
      /\ epoch' = epoch /\ UNCHANGED libVars
      /\ cache' = cache /\ cursor' = cursor /\ next' = next /\ pc[d] = "list"
  BY DEF ListPage, libVars
<1>2. LibInv' /\ LibraryMoves  BY <1>1, StutterStep DEF TypeInv, LibraryMoves
<1>3. /\ pc \in [Devices -> Phases] /\ got \in [Devices -> [Res -> Row \cup {NoRow}]]
      /\ listing \in [Devices -> [list : 1..3, page : Nat]]
      /\ i \in 1..3 /\ p \in Nat
  BY DEF TypeInv, TypeOK, QueueTypeOK
<1>4. from \in Nat /\ to \in Nat /\ from <= to
  <2>1. ListSize \in Nat /\ to = from + ListSize  BY <1>3, LimitAssumption
  <2>2. from \in Nat  BY <1>3, LimitAssumption
  <2> QED BY <2>1, <2>2
<1>5. got' = [got EXCEPT ![d] = [r \in Res |-> IF r \in page THEN row[r] ELSE got[d][r]]]
  BY <1>3 DEF ListPage
<1>6. \/ /\ ~LastPage(L, p) /\ listing' = [listing EXCEPT ![d].page = p + 1] /\ pc' = pc
      \/ /\ LastPage(L, p) /\ i < 3 /\ pc' = pc
         /\ listing' = [listing EXCEPT ![d] = [list |-> i + 1, page |-> 0]]
      \/ /\ LastPage(L, p) /\ ~(i < 3)
         /\ pc' = [pc EXCEPT ![d] = "check"] /\ listing' = listing
  BY DEF ListPage
<1>7. L \in SUBSET Res /\ \A j \in 1..3 : j # i => L \cap Lists[j] = {}
  BY <1>3, ListsCover
<1>8. \A r \in L : Position(L, r) \in Nat
  BY <1>7, PositionType
<1>9. LastPage(L, p) => \A r \in L : Live(r) => Position(L, r) < to
  <2> SUFFICES ASSUME LastPage(L, p), NEW r \in L, Live(r) PROVE Position(L, r) < to
    OBVIOUS
  <2>1. Cardinality({x \in L : Live(x)}) <= to  BY DEF LastPage
  <2> HIDE DEF L, to
  <2> QED BY <1>4, <1>7, <1>8, <2>1, PositionType
<1>10. \A r \in Res : got'[d][r] = IF r \in page THEN row[r] ELSE got[d][r]
  BY <1>3, <1>5
<1>11. \A r \in L : r \in page <=> Live(r) /\ from <= Position(L, r) /\ Position(L, r) < to
  OBVIOUS
<1>12. \A r \in page : r \in L  OBVIOUS
<1>13. pc'[d] \in {"list", "check"}  BY <1>1, <1>3, <1>6
<1>14. ASSUME Follows(next[d]), Since(next[d]) = {}, NEW j \in 1..3, NEW r \in Lists[j]
       PROVE  got'[d][r] = IF Listed(d, j, r)' THEN row'[r] ELSE NoRow
  <2>1. got[d][r] = IF Listed(d, j, r) THEN row[r] ELSE NoRow
    BY <1>1, <1>14 DEF PullInv, PullKnows, Reading
  <2>2. r \in Res  BY ListsCover
  <2>3. Position(Lists[j], r)' = Position(Lists[j], r)  BY <1>1 DEF Position, Live
  <2>4. Position(Lists[j], r) \in Nat  BY <2>2, ListsCover, PositionType
  <2>5. 0 * ListSize = 0  BY LimitAssumption
  <2>6. CASE j # i
    <3>1. got'[d][r] = got[d][r]  BY <1>7, <1>10, <1>12, <2>2, <2>6
    <3>2. Listed(d, j, r) <=> j < i  BY <1>1, <2>6 DEF Listed
    <3>3. CASE ~LastPage(L, p)
      <4>1. listing'[d].list = i /\ pc'[d] = "list"  BY <1>1, <1>3, <1>6, <3>3
      <4>2. Listed(d, j, r)' <=> j < i  BY <2>6, <4>1 DEF Listed
      <4> QED BY <1>1, <2>1, <3>1, <3>2, <4>2
    <3>4. CASE LastPage(L, p) /\ i < 3
      <4>1. listing'[d].list = i + 1 /\ listing'[d].page = 0 /\ pc'[d] = "list"
        BY <1>1, <1>3, <1>6, <3>4
      <4>2. Listed(d, j, r)' <=> j < i + 1
        <5> HIDE DEF i
        <5> QED BY <1>3, <2>3, <2>4, <2>5, <4>1 DEF Listed
      <4>3. Listed(d, j, r)' <=> j < i  BY <1>3, <2>6, <4>2
      <4> QED BY <1>1, <2>1, <3>1, <3>2, <4>3
    <3>5. CASE LastPage(L, p) /\ ~(i < 3)
      <4>1. pc'[d] = "check" /\ j < i  BY <1>3, <1>6, <2>6, <3>5
      <4>2. Listed(d, j, r)'  BY <4>1 DEF Listed
      <4> QED BY <1>1, <2>1, <3>1, <3>2, <4>1, <4>2
    <3> QED BY <3>3, <3>4, <3>5
  <2>7. CASE j = i
    <3>1. Listed(d, j, r) <=> Position(L, r) < from  BY <1>1, <1>3, <2>7 DEF Listed
    <3>2. Live(r) <=> row[r] # NoRow  BY DEF Live
    <3>3. CASE ~LastPage(L, p)
      <4>1. listing'[d].list = i /\ listing'[d].page = p + 1 /\ pc'[d] = "list"
        BY <1>1, <1>3, <1>6, <3>3
      <4>2. Listed(d, j, r)' <=> Position(L, r) < to  BY <1>3, <2>3, <2>7, <4>1 DEF Listed
      <4> HIDE DEF from, to, page, L
      <4> QED BY <1>1, <1>4, <1>8, <1>10, <1>11, <2>1, <2>2, <2>7, <3>1, <3>2, <4>2 DEF L
    <3>4. CASE LastPage(L, p)
      <4>1. Listed(d, j, r)'
        <5>1. CASE i < 3
          <6>1. listing'[d].list = i + 1 /\ listing'[d].page = 0 /\ pc'[d] = "list"
            BY <1>1, <1>3, <1>6, <3>4, <5>1
          <6> QED BY <1>3, <2>7, <6>1 DEF Listed
        <5>2. CASE ~(i < 3)
          <6>1. pc'[d] = "check"  BY <1>3, <1>6, <3>4, <5>2
          <6> QED BY <6>1 DEF Listed
        <5> QED BY <5>1, <5>2
      <4> HIDE DEF from, to, page, L
      <4> QED BY <1>1, <1>4, <1>8, <1>9, <1>10, <1>11, <2>1, <2>2, <2>7, <3>1, <3>2, <3>4, <4>1
              DEF L
    <3> QED BY <3>3, <3>4
  <2> QED BY <2>6, <2>7
<1>15. Follows(next[d])' => Reading(d)'
  BY <1>1, <1>14 DEF Reading, Follows, Since
<1>16. PullKnows(d)'
  BY <1>13, <1>15 DEF PullKnows
<1>17. Behind(next[d])'
  BY <1>1 DEF PullInv, CursorsBehind, Behind
<1> QED BY <1>1, <1>2, <1>16, <1>17, PullGoesOn

-----------------------------------------------------------------------------
(* The end of a snapshot.                                                   *)

\* A snapshot whose check finds nothing after its cursor is the whole library.
LEMMA WholeLibrary ==
    ASSUME TypeInv, PullInv, NEW d \in Devices, pc[d] = "check", NEW f \in floor..head,
           ~MustReset(next[d], f), Since(next[d]) = {}
    PROVE  got[d] = row
<1>1. /\ floor \in Nat /\ head \in Nat /\ next[d] \in Cursor \cup {NoCursor}
      /\ got[d] \in [Res -> Row \cup {NoRow}] /\ row \in [Res -> Row \cup {NoRow}]
  BY DEF TypeInv, TypeOK, LibTypeOK, QueueTypeOK
<1>2. f \in Nat /\ f >= floor  BY <1>1
<1>3. next[d] # NoCursor /\ next[d].epoch = epoch /\ ~(next[d].seq < f)
  BY DEF MustReset
<1>4. next[d].seq \in Nat  BY <1>1, <1>3 DEF Cursor
<1>5. next[d].seq >= floor  BY <1>1, <1>2, <1>3, <1>4
<1>6. Reading(d)  BY <1>3, <1>5 DEF PullInv, PullKnows, Follows
<1>7. ASSUME NEW r \in Res PROVE got[d][r] = row[r]
  <2>1. PICK i \in 1..3 : r \in Lists[i]  BY ListsCover
  <2> QED BY <1>6, <2>1 DEF Reading, Listed
<1> QED BY <1>1, <1>7

LEMMA CheckSound ==
    ASSUME TypeInv, PullInv, TypeInv', Expired, NEW d \in Devices, Check(d)
    PROVE  DeviceSound(d)'
<1>1. LibInv' /\ LibraryMoves  BY DEF TypeInv, LibraryMoves
<1>2. /\ cache' = cache /\ cursor' = cursor /\ got' = got /\ pc[d] = "check"
      /\ row' = row /\ head' = head /\ epoch' = epoch
  BY DEF Check, Expired
<1>3. PICK f \in floor..head :
        IF ~MustReset(next[d], f) /\ Since(next[d]) = {}
        THEN next' = [next EXCEPT ![d] = HeadCursor] /\ pc' = [pc EXCEPT ![d] = "install"]
        ELSE pc' = [pc EXCEPT ![d] = "rehead"] /\ UNCHANGED next
  BY DEF Check
<1>4. CASE ~MustReset(next[d], f) /\ Since(next[d]) = {}
  <2>1. got[d] = row  BY <1>2, <1>4, WholeLibrary
  <2>2. pc'[d] = "install" /\ next'[d] = HeadCursor
    BY <1>3, <1>4 DEF TypeInv, TypeOK, QueueTypeOK
  <2>3. Behind(next[d])'  BY <1>2, <2>2, HeadBehind DEF Behind
  <2>4. PullKnows(d)'  BY <1>2, <2>1, <2>2 DEF PullKnows, Handled
  <2> QED BY <1>1, <1>2, <2>3, <2>4, PullGoesOn
<1>5. CASE ~(~MustReset(next[d], f) /\ Since(next[d]) = {})
  <2>1. pc'[d] = "rehead" /\ next' = next
    BY <1>3, <1>5 DEF TypeInv, TypeOK, QueueTypeOK
  <2> QED BY <1>1, <1>2, <2>1, OutsidePull
<1> QED BY <1>4, <1>5

LEMMA ReheadSound ==
    ASSUME TypeInv, PullInv, TypeInv', Expired, NEW d \in Devices, Rehead(d)
    PROVE  DeviceSound(d)'
<1>1. LibInv' /\ LibraryMoves  BY DEF TypeInv, LibraryMoves
<1>2. cache' = cache /\ cursor' = cursor  BY DEF Rehead
<1>3. CASE /\ pc' = [pc EXCEPT ![d] = "list"]
           /\ next' = [next EXCEPT ![d] = HeadCursor]
           /\ got' = [got EXCEPT ![d] = Nothing]
           /\ listing' = [listing EXCEPT ![d] = [list |-> 1, page |-> 0]]
  <2>1. /\ pc'[d] = "list" /\ next'[d] = HeadCursor /\ got'[d] = Nothing
        /\ listing'[d] = [list |-> 1, page |-> 0]
    BY <1>3 DEF TypeInv, TypeOK, QueueTypeOK
  <2> QED BY <1>2, <2>1, SnapshotStarts
<1>4. CASE Release(d)
  <2>1. pc'[d] = "idle" /\ next'[d] = NoCursor
    BY <1>4 DEF Release, TypeInv, TypeOK, QueueTypeOK
  <2> QED BY <1>1, <1>2, <2>1, OutsidePull
<1> QED BY <1>3, <1>4 DEF Rehead

LEMMA CommitDeltaSound ==
    ASSUME TypeInv, PullInv, TypeInv', NEW d \in Devices, CommitDelta(d)
    PROVE  DeviceSound(d)'
<1>1. pc[d] = "fetch" /\ todo[d] = {} /\ Commit(d, Merged(d))  BY DEF CommitDelta
<1>2. Follows(next[d]) => \A r \in Res : Handled(Merged(d), r, next[d].seq)
  BY <1>1, MergedFresh
<1> QED BY <1>1, <1>2, CommitSound

LEMMA CommitSnapshotSound ==
    ASSUME TypeInv, PullInv, TypeInv', NEW d \in Devices, CommitSnapshot(d)
    PROVE  DeviceSound(d)'
<1>1. pc[d] = "install" /\ Commit(d, got[d])  BY DEF CommitSnapshot
<1>2. Follows(next[d]) => \A r \in Res : Handled(got[d], r, next[d].seq)
  BY <1>1 DEF PullInv, PullKnows
<1> QED BY <1>1, <1>2, CommitSound

-----------------------------------------------------------------------------
(* One step of the system.                                                  *)

LEMMA PullSound ==
    ASSUME TypeInv, PullInv, TypeInv', NEW d \in Devices, Pull(d)
    PROVE  DeviceSound(d)'
<1>1. ASSUME NEW f \in floor..head, ReadChanges(f), StartPull(d) \/ Check(d) \/ Rehead(d)
      PROVE  DeviceSound(d)'
  <2>1. Expired  BY <1>1, ReadStep DEF TypeInv
  <2> QED BY <1>1, <2>1, StartPullSound, CheckSound, ReheadSound
<1>2. CASE StartPull(d) \/ Check(d) \/ Rehead(d)
  BY <1>1, <1>2 DEF StartPull, Check, Rehead
<1> QED BY <1>2, FetchSound, CommitDeltaSound, ListPageSound, CommitSnapshotSound DEF Pull

\* What is neither a pull nor an emptied cache leaves the pull phases.
LEMMA ElsewhereSound ==
    ASSUME TypeInv, PullInv, LibInv', LibraryMoves, NEW d \in Devices,
           Push(d) \/ Host(d) \/ Abort(d)
    PROVE  DeviceSound(d)'
<1>1. CASE Send(d) \/ EndDrain(d) \/ Settle(d)
  <2>1. pc'[d] \in {"idle", "drain", "sent"} /\ cache' = cache /\ cursor' = cursor /\ next' = next
    BY <1>1 DEF Send, EndDrain, Settle, pullVars, TypeInv, TypeOK, QueueTypeOK
  <2> QED BY <2>1, OutsidePull
<1>2. CASE Serve(d)
  BY <1>2, StillSound DEF Serve, Still, pullVars
<1>3. CASE \E o \in Ops : Import(d, o)
  BY <1>3, StillSound DEF Import, Still, pullVars
<1>4. CASE \E wanted \in SUBSET Ops : ConfirmCached(d, wanted)
  BY <1>4, StillSound DEF ConfirmCached, Still, pullVars
<1>5. CASE ClearAll(d) \/ ResetStaleCache(d)
  BY <1>5, EmptySound DEF ClearAll, ResetStaleCache
<1>6. CASE Abort(d)
  <2>1. pc'[d] = "idle" /\ next'[d] = NoCursor /\ cache' = cache /\ cursor' = cursor
    BY <1>6 DEF Abort, Release, TypeInv, TypeOK, QueueTypeOK
  <2> QED BY <2>1, OutsidePull
<1> QED BY <1>1, <1>2, <1>3, <1>4, <1>5, <1>6 DEF Push, Host

\* A device's own steps leave the pulls of the others where they are.
LEMMA OthersStill ==
    ASSUME TypeInv, NEW d \in Devices, Push(d) \/ Pull(d) \/ Host(d) \/ Abort(d),
           NEW x \in Devices, x # d
    PROVE  Still(x)
<1> USE DEF TypeInv, TypeOK, QueueTypeOK, Still
<1>1. CASE Send(d) \/ EndDrain(d) \/ Serve(d) \/ Settle(d)
  BY <1>1 DEF Send, EndDrain, Serve, Settle, pullVars
<1>2. CASE StartPull(d)  BY <1>2 DEF StartPull
<1>3. CASE Fetch(d)  BY <1>3 DEF Fetch
<1>4. CASE CommitDelta(d) \/ CommitSnapshot(d)
  BY <1>4 DEF CommitDelta, CommitSnapshot, Commit, Release
<1>5. CASE ListPage(d)  BY <1>5 DEF ListPage
<1>6. CASE Check(d)  BY <1>6 DEF Check
<1>7. CASE Rehead(d)  BY <1>7 DEF Rehead, Release
<1>8. CASE Host(d)
  BY <1>8 DEF Host, Import, ConfirmCached, ClearAll, ResetStaleCache, Empty, pullVars
<1>9. CASE Abort(d)  BY <1>9 DEF Abort, Release
<1> QED BY <1>1, <1>2, <1>3, <1>4, <1>5, <1>6, <1>7, <1>8, <1>9 DEF Push, Pull

LEMMA StepPull == ASSUME TypeInv, PullInv, [Next]_vars PROVE PullInv'
<1>1. TypeInv' /\ LibInv' /\ LibraryMoves  BY StepTypes, LibraryStep
<1> SUFFICES ASSUME NEW x \in Devices PROVE DeviceSound(x)'
  BY DEF PullInv, CursorsBehind, NoSilentStaleness, DeviceSound
<1>2. CASE UNCHANGED vars
  BY <1>1, <1>2, StillSound DEF vars, Still, pullVars
<1>3. CASE UNCHANGED <<journalVars, cache, cursor, pc, reply, pullVars, late, trouble, ghostVars>>
  BY <1>1, <1>3, StillSound DEF Still, pullVars
<1>4. ASSUME NEW d \in Devices, Push(d) \/ Pull(d) \/ Host(d) \/ Abort(d)
      PROVE  DeviceSound(x)'
  <2>1. CASE x = d  BY <1>1, <1>4, <2>1, PullSound, ElsewhereSound
  <2>2. CASE x # d  BY <1>1, <1>4, <2>2, OthersStill, StillSound
  <2> QED BY <2>1, <2>2
<1>5. ASSUME NEW req \in late, ServeLate(req) PROVE DeviceSound(x)'
  BY <1>1, <1>5, StillSound DEF ServeLate, Still, pullVars
<1> QED BY <1>2, <1>3, <1>4, <1>5 DEF Next

LEMMA InitPull == ASSUME Init PROVE PullInv
BY DEF Init, PullInv, CursorsBehind, Behind, NoSilentStaleness, PullKnows, Follows

LEMMA PullAlways == Spec => []PullInv
BY InitPull, StepPull, TypesAlways, PTL DEF Spec

\* Wherever a cached row differs from the server's, the change feed still holds an event
\* after the device's cursor that will make it look again: the promise of pull_changes
\* that rows and cursor share one transaction, and of read_changes that a cursor it can
\* no longer answer from is told to reset.
THEOREM CachesNeverStaleInSilence == Spec => []NoSilentStaleness
<1>1. PullInv => NoSilentStaleness  BY DEF PullInv
<1> QED BY <1>1, PullAlways, PTL

\* Rows read by offset over several requests are installed only if they are the library
\* of one moment (snapshot.rs fetch_consistent_snapshot).
THEOREM SnapshotsAreExact == Spec => SnapshotExact
<1>1. ASSUME TypeInv, PullInv, [Next]_vars
      PROVE  [\A d \in Devices : pc[d] = "check" /\ pc'[d] = "install" => got[d] = row]_vars
  <2>1. ASSUME NEW d \in Devices, pc[d] = "check", pc'[d] = "install", Next
        PROVE  got[d] = row
    <3>1. PICK x \in Devices : Push(x) \/ Pull(x) \/ Host(x) \/ Abort(x)
      BY <2>1 DEF Next, ServeLate
    <3>2. x = d  BY <1>1, <2>1, <3>1, OthersStill DEF Still
    <3>3. Check(d)
      <4> USE DEF TypeInv, TypeOK, QueueTypeOK
      <4>1. ~(Send(d) \/ EndDrain(d) \/ Serve(d) \/ Settle(d))
        BY <1>1, <2>1 DEF Send, EndDrain, Serve, Settle
      <4>2. ~(StartPull(d) \/ Fetch(d) \/ ListPage(d) \/ Rehead(d))
        BY <1>1, <2>1 DEF StartPull, Fetch, ListPage, Rehead, Release
      <4>3. ~(CommitDelta(d) \/ CommitSnapshot(d))
        BY <1>1, <2>1 DEF CommitDelta, CommitSnapshot
      <4>4. ~(Host(d) \/ Abort(d))
        BY <1>1, <2>1 DEF Host, Import, ConfirmCached, ClearAll, ResetStaleCache, Empty, Abort,
                          Release
      <4> QED BY <3>1, <3>2, <4>1, <4>2, <4>3, <4>4 DEF Push, Pull
    <3> QED BY <1>1, <2>1, <3>3, WholeLibrary DEF Check, TypeInv, TypeOK, QueueTypeOK
  <2> QED BY <1>1, <2>1 DEF vars
<1> QED BY <1>1, TypesAlways, PullAlways, PTL DEF Spec, SnapshotExact
=============================================================================
