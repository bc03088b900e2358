------------------------------ MODULE Library ------------------------------
(***************************************************************************)
(* The server's library as one account sees it, and the change feed that   *)
(* tells that account's devices what to fetch again.                       *)
(*                                                                         *)
(* Every table a client caches has triggers that append to sync_change in  *)
(* the transaction of the write (crates/migrations, m20260908_000200); a   *)
(* device reads the feed from a cursor "epoch:sequence"                    *)
(* (crates/queries/src/sync.rs).  Rows are abstracted to what the sync     *)
(* protocol tells apart: which write produced the row (epoch, ver) and,    *)
(* for a playlist, the episodes it holds.  An episode row stands for the   *)
(* episode with its playback, listen state and chapters, which the API     *)
(* returns together.  Automatic playlist links are left out.               *)
(***************************************************************************)
EXTENDS Integers, FiniteSets

CONSTANTS
    Podcasts, Episodes, Playlists,  \* ids, disjoint sets of integers
    PodcastOf,                      \* the podcast an episode belongs to
    NoRow,                          \* no such row
    MaxHead,                        \* bound: no background write past this sequence
    MaxEpoch                        \* bound: how often the database is replaced

Res == Podcasts \cup Episodes \cup Playlists

\* Content of a row: the write that produced it, and a playlist's members.
Row == [epoch : Nat, ver : Nat, refs : SUBSET Episodes]

ASSUME IdAssumption ==
    /\ Res \subseteq Int
    /\ IsFiniteSet(Podcasts) /\ IsFiniteSet(Episodes) /\ IsFiniteSet(Playlists)
    /\ Podcasts \cap Episodes = {}
    /\ Podcasts \cap Playlists = {}
    /\ Episodes \cap Playlists = {}
ASSUME OwnerAssumption == PodcastOf \in [Episodes -> Podcasts]
ASSUME NoRowAssumption == NoRow \notin Row
ASSUME BoundAssumption == MaxHead \in Nat /\ MaxEpoch \in Nat

Kinds == {"podcasts", "episodes", "playbacks", "playlists"}
KindOf(r) == IF r \in Podcasts THEN "podcasts"
             ELSE IF r \in Episodes THEN "episodes" ELSE "playlists"

\* A row of sync_change for this account.
Event == [seq : Nat, kind : Kinds, id : Res, gone : BOOLEAN]

VARIABLES
    row,        \* the visible row of each resource, or NoRow
    gone,       \* resources that were deleted: AUTOINCREMENT ids are not reused
    feed,       \* sync_change, the retained part
    head,       \* sqlite_sequence of sync_change
    floor,      \* sync_epoch.floor_sequence
    epoch,      \* sync_epoch.epoch
    copy        \* the last exported copy of the database

libVars == <<row, gone, feed, head, floor, epoch, copy>>

EpisodesOf(p) == {e \in Episodes : PodcastOf[e] = p}
Live(r) == row[r] # NoRow
Fresh(r) == row[r] = NoRow /\ r \notin gone
Holders(E) == {pl \in Playlists : Live(pl) /\ row[pl].refs \cap E # {}}

LibTypeOK ==
    /\ row \in [Res -> Row \cup {NoRow}]
    /\ gone \subseteq Res
    /\ feed \subseteq Event
    /\ head \in Nat /\ floor \in Nat /\ epoch \in Nat
    /\ copy \in [row : [Res -> Row \cup {NoRow}], gone : SUBSET Res, head : Nat]

\* The feed starts at the migration that creates it: a library with rows and no events.
LibInit ==
    /\ \E L \in SUBSET Res :
         /\ \A e \in Episodes \cap L : PodcastOf[e] \in L
         /\ \E members \in [Playlists -> SUBSET (Episodes \cap L)] :
              row = [r \in Res |->
                       IF r \notin L THEN NoRow
                       ELSE [epoch |-> 0, ver |-> 0,
                             refs |-> IF r \in Playlists THEN members[r] ELSE {}]]
    /\ gone = {} /\ feed = {} /\ head = 0 /\ floor = 0 /\ epoch = 0
    /\ copy = [row |-> row, gone |-> {}, head |-> 0]

-----------------------------------------------------------------------------
(* Triggers.  A transaction that touches the keys <<kind, id>> appends one  *)
(* event per key, numbered upwards from head.  A subscription announces the *)
(* podcast before its episodes; deletions run from members to episodes to   *)
(* the podcast.                                                             *)

Rank(k) == CASE k[1] = "podcasts" -> 3 [] k[1] = "episodes" -> 2 [] OTHER -> 1
Before(j, k, deleting) == IF deleting THEN Rank(j) < Rank(k) ELSE Rank(j) > Rank(k)

Numberings(keys, deleting) ==
    {num \in [keys -> (head + 1)..(head + Cardinality(keys))] :
        \A j, k \in keys : j # k => /\ num[j] # num[k]
                                    /\ Before(j, k, deleting) => num[j] < num[k]}

Log(keys, tombs) ==
    /\ \E num \in Numberings(keys, tombs # {}) :
         feed' = feed \cup {[seq |-> num[k], kind |-> k[1], id |-> k[2],
                             gone |-> k \in tombs] : k \in keys}
    /\ head' = head + Cardinality(keys)

\* The row a transaction over these keys leaves behind.
Written(keys, refs) == [epoch |-> epoch, ver |-> head + Cardinality(keys), refs |-> refs]
RowKeys(R) == {<<KindOf(r), r>> : r \in R}

\* Write the rows R, keeping what playlists hold.
Put(R, keys) ==
    /\ row' = [r \in Res |->
                 IF r \in R THEN Written(keys, IF Live(r) THEN row[r].refs ELSE {})
                 ELSE row[r]]
    /\ Log(keys, {})
    /\ UNCHANGED <<gone, floor, epoch, copy>>

\* podcast_store: the caller subscribes to a new or a shared feed, whose episodes appear.
Subscribe(p, E) ==
    /\ Fresh(p) /\ E \subseteq {e \in EpisodesOf(p) : Fresh(e)}
    /\ Put({p} \cup E, RowKeys({p} \cup E))

\* A feed refresh finds a new episode.
AddEpisode(e) ==
    /\ Fresh(e) /\ Live(PodcastOf[e])
    /\ Put({e}, RowKeys({e}))

CreatePlaylist(pl) == Fresh(pl) /\ Put({pl}, RowKeys({pl}))

\* Any write to a row that exists: a refresh, an edit, a finished server download.
Touch(r) == Live(r) /\ Put({r}, RowKeys({r}))

\* playback_store and playback_delete: the tombstone of a playback leaves its episode.
SetPlayback(e, deleted) ==
    LET keys == {<<"playbacks", e>>} IN
    /\ Live(e)
    /\ row' = [row EXCEPT ![e] = Written(keys, {})]
    /\ Log(keys, IF deleted THEN keys ELSE {})
    /\ UNCHANGED <<gone, floor, epoch, copy>>

SetMembers(pl, E) ==
    LET keys == RowKeys({pl}) IN
    /\ Live(pl) /\ E \subseteq {e \in Episodes : Live(e)}
    /\ row' = [row EXCEPT ![pl] = Written(keys, E)]
    /\ Log(keys, {})
    /\ UNCHANGED <<gone, floor, epoch, copy>>

\* Delete the rows D and what hangs off their episodes; PB of those had a playback.
Purge(D, PB) ==
    LET E == D \cap Episodes
        held == Holders(E) \ D
        dead == RowKeys(D) \cup {<<"playbacks", e>> : e \in PB}
        keys == RowKeys(held) \cup dead
    IN  /\ row' = [r \in Res |->
                     IF r \in D THEN NoRow
                     ELSE IF r \in held THEN Written(keys, row[r].refs \ E)
                     ELSE row[r]]
        /\ gone' = gone \cup D
        /\ Log(keys, dead)
        /\ UNCHANGED <<floor, epoch, copy>>

LiveEpisodesOf(p) == {e \in EpisodesOf(p) : Live(e)}

DeletePodcast(p, PB) ==
    Live(p) /\ PB \subseteq LiveEpisodesOf(p) /\ Purge({p} \cup LiveEpisodesOf(p), PB)
DeleteEpisode(e, PB) == Live(e) /\ PB \subseteq {e} /\ Purge({e}, PB)
DeletePlaylist(pl) == Live(pl) /\ Purge({pl}, {})

\* A write only other accounts see takes a number of the same sequence.
ForeignWrite ==
    /\ head' = head + 1
    /\ UNCHANGED <<row, gone, feed, floor, epoch, copy>>

-----------------------------------------------------------------------------
(* A copy exported with VACUUM INTO, scrubbed (feed emptied, new epoch,     *)
(* floor at its head) and, later, put in the database's place.              *)

Export ==
    /\ copy' = [row |-> row, gone |-> gone, head |-> head]
    /\ copy' # copy
    /\ UNCHANGED <<row, gone, feed, head, floor, epoch>>

Replace ==
    /\ epoch < MaxEpoch
    /\ row' = copy.row /\ gone' = copy.gone
    /\ feed' = {} /\ head' = copy.head /\ floor' = copy.head /\ epoch' = epoch + 1
    /\ UNCHANGED copy

Background ==
    \/ /\ head < MaxHead
       /\ \/ \E p \in Podcasts : \E E \in SUBSET EpisodesOf(p) : Subscribe(p, E)
          \/ \E e \in Episodes : AddEpisode(e)
          \/ \E pl \in Playlists : CreatePlaylist(pl)
          \/ \E r \in Res : Touch(r)
          \/ \E e \in Episodes, deleted \in BOOLEAN : SetPlayback(e, deleted)
          \/ \E pl \in Playlists, E \in SUBSET Episodes : SetMembers(pl, E)
          \/ \E p \in Podcasts : \E PB \in SUBSET EpisodesOf(p) : DeletePodcast(p, PB)
          \/ \E e \in Episodes : \E PB \in SUBSET {e} : DeleteEpisode(e, PB)
          \/ \E pl \in Playlists : DeletePlaylist(pl)
          \/ ForeignWrite
    \/ (epoch < MaxEpoch /\ Export)
    \/ Replace

-----------------------------------------------------------------------------
(* read_changes: raise the floor to the newest expired event f, prune, then *)
(* answer from the snapshot.                                                *)

NoCursor == [epoch |-> -1, seq |-> -1]
Cursor == [epoch : Nat, seq : Nat]

\* The write half of read_changes.
ReadChanges(f) ==
    /\ f \in floor..head
    /\ floor' = f
    /\ feed' = {ev \in feed : ev.seq > f}
    /\ UNCHANGED <<row, gone, head, epoch, copy>>

\* Mutant: the retention floor is not compared.
MustResetIgnoringFloor(cur, f) == cur = NoCursor \/ cur.epoch # epoch \/ cur.seq > head

\* Mutant: the epoch is not compared.
MustResetIgnoringEpoch(cur, f) == cur = NoCursor \/ cur.seq < f \/ cur.seq > head

\* A cursor the feed can no longer answer from.
MustReset(cur, f) ==
    cur = NoCursor \/ cur.epoch # epoch \/ cur.seq < f \/ cur.seq > head

Since(cur) == {ev \in feed : ev.seq > cur.seq}
UpTo(evs, n) == {ev \in evs : ev.seq <= n}
HeadCursor == [epoch |-> epoch, seq |-> head]

\* n is where a page of at most limit events after cur ends.
PageEnds(cur, limit, n) ==
    IF Cardinality(Since(cur)) <= limit THEN n = head
    ELSE \E ev \in Since(cur) : n = ev.seq /\ Cardinality(UpTo(Since(cur), n)) = limit
=============================================================================
