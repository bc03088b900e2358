------------------------------ MODULE FeedSync ------------------------------
(***************************************************************************)
(* One podcast's part of a sync run (RssManager::sync_podcast): ask for    *)
(* the feed with the validators read when the run began, stamp the poll,   *)
(* load the podcast's episodes and insert or heal them item by item.  Runs *)
(* may overlap, so two of these may be at work on one podcast.             *)
(*                                                                         *)
(* A feed goes through editions; an edition's number stands for its        *)
(* validators (ETag, Last-Modified).  An item is a guid (or NoGuid), an    *)
(* enclosure URL, and one field, art, for all that heal_episode copies.    *)
(* Redirects, the body's parsing and the date cutoff are inside Fetch;     *)
(* every podcast has a description, so that requests are conditional.      *)
(***************************************************************************)
EXTENDS Integers, FiniteSets, Sequences, SequencesExt

CONSTANTS
    Podcasts,       \* feeds
    Runs,           \* sync runs that can be under way together
    Editions,       \* podcast -> sequence of editions, each a sequence of items
    NoGuid,
    MaxTrouble      \* bound: failed database writes, dropped requests, stops and restarts

FeedItems == [guid : Nat \cup {NoGuid}, url : Nat, art : Nat]

ASSUME EditionsAssumption ==
    Editions \in [Podcasts -> Seq(Seq(FeedItems))] /\ IsFiniteSet(Podcasts) /\ MaxTrouble \in Nat

VARIABLES
    followed,   \* the podcast rows; they do not change here
    edition,    \* podcast -> the edition its feed serves
    etag,       \* podcast.etag: the edition whose validators are stored, 0 for none
    due,        \* podcasts not polled within their interval
    rows,       \* episode rows
    sync,       \* what each run is doing with each podcast
    trouble,    \* failed writes, dropped requests, stops and restarts so far
    crowded,    \* history: podcasts two runs were ingesting at once
    skipped     \* history: podcasts whose stored edition may not be wholly ingested: a sync was cut
                \* short, lost a write, or had its validators replaced by a 304's

feedVars == <<followed, edition, etag, due, rows, sync, trouble, crowded, skipped>>

Zero == [new |-> 0, updated |-> 0, errors |-> 0]
Task(pc, tag, body, known, next, tally) ==
    [pc |-> pc, tag |-> tag, body |-> body, known |-> known, next |-> next, tally |-> tally]
NoTask == Task("none", 0, 0, {}, 0, Zero)
InFlight == {"fetch", "unchanged", "stamp", "load", "ingest"}
Reading == {"load", "ingest"}
TaskPhases == InFlight \cup {"none", "listed", "done"}

Items(p, n) == IF n = 0 THEN <<>> ELSE Editions[p][n]
Become(r, p, new) == sync' = [sync EXCEPT ![r][p] = new]
Trouble == trouble < MaxTrouble /\ trouble' = trouble + 1
Ingesting(p) == {r \in Runs : sync[r][p].pc \in Reading}

FeedTypeOK ==
    /\ followed \subseteq Podcasts
    /\ \A p \in Podcasts : edition[p] \in 1..Len(Editions[p]) /\ etag[p] \in 0..Len(Editions[p])
    /\ due \subseteq Podcasts
    /\ \A x \in rows : x.podcast \in Podcasts /\ x.id \in 1..Cardinality(rows)
    /\ \A r \in Runs, p \in Podcasts :
         LET t == sync[r][p] IN
         /\ t.pc \in TaskPhases /\ t.tag \in Nat /\ t.body \in Nat /\ {x.id : x \in t.known} \subseteq 1..Cardinality(rows)
         /\ t.pc = "ingest" => t.next \in DOMAIN Items(p, t.body)
         /\ t.tally \in [new : Nat, updated : Nat, errors : Nat]
    /\ trouble \in 0..MaxTrouble /\ crowded \subseteq Podcasts /\ skipped \subseteq Podcasts

FeedInit ==
    /\ followed \in SUBSET Podcasts
    /\ edition \in {e \in [Podcasts -> UNION {DOMAIN Editions[p] : p \in Podcasts}] :
                       \A p \in Podcasts : e[p] \in DOMAIN Editions[p]}
    /\ etag = [p \in Podcasts |-> 0]
    /\ due = Podcasts /\ rows = {}
    /\ sync = [r \in Runs |-> [p \in Podcasts |-> NoTask]]
    /\ trouble \in 0..MaxTrouble /\ crowded = {} /\ skipped = {}

\* The task ends with its tally: errors counts fetch, parse and write failures alike.
Finish(r, p, tally) == Become(r, p, [NoTask EXCEPT !.pc = "done", !.tally = tally])
Fail(r, p) == Finish(r, p, [sync[r][p].tally EXCEPT !.errors = @ + 1])

-----------------------------------------------------------------------------
\* The publisher replaces the feed.
Publish(p) ==
    /\ edition[p] < Len(Editions[p])
    /\ edition' = [edition EXCEPT ![p] = @ + 1]
    /\ UNCHANGED <<followed, etag, due, rows, sync, trouble, crowded, skipped>>

\* A podcast's poll interval passes.
Elapse(p) ==
    /\ p \notin due
    /\ due' = due \cup {p}
    /\ UNCHANGED <<followed, edition, etag, rows, sync, trouble, crowded, skipped>>

\* Mutant: validators are sent without being compared to the stored edition.
AlwaysUnchanged(r, p) == sync[r][p].tag # 0

\* The server answers 304 when the validators sent are those of the feed it has.
Unchanged(r, p) == sync[r][p].tag = edition[p]

\* fetch_feed_following_redirects, then the body.
Answer(r, p) ==
    /\ sync[r][p].pc = "fetch"
    /\ Become(r, p, IF Unchanged(r, p) THEN [sync[r][p] EXCEPT !.pc = "unchanged"]
                    ELSE [sync[r][p] EXCEPT !.pc = "stamp", !.body = edition[p]])
    /\ UNCHANGED <<followed, edition, etag, due, rows, trouble, crowded, skipped>>

\* The request fails, or its body cannot be read or parsed.
FetchError(r, p) ==
    /\ sync[r][p].pc = "fetch"
    /\ Fail(r, p)
    /\ UNCHANGED <<followed, edition, etag, due, rows, trouble, crowded, skipped>>

\* stamp_polled after a 304: validators that it carries are stored, over those that another
\* run has stored since the podcasts were listed.  A failed write fails the task.
StampUnchanged(r, p) ==
    /\ sync[r][p].pc = "unchanged"
    /\ \/ /\ \E stored \in {etag[p], sync[r][p].tag} :
               /\ etag' = [etag EXCEPT ![p] = stored]
               /\ skipped' = IF stored = etag[p] THEN skipped ELSE skipped \cup {p}
          /\ due' = due \ {p} /\ Finish(r, p, Zero) /\ UNCHANGED trouble
       \/ Trouble /\ Fail(r, p) /\ UNCHANGED <<etag, due, skipped>>
    /\ UNCHANGED <<followed, edition, rows, crowded>>

\* stamp_polled before the body is ingested: a failed write is counted and passed over.
Stamp(r, p) ==
    LET t == [sync[r][p] EXCEPT !.pc = "load"] IN
    /\ sync[r][p].pc = "stamp"
    /\ \/ /\ etag' = [etag EXCEPT ![p] = t.body] /\ due' = due \ {p}
          /\ Become(r, p, t)
          /\ skipped' = skipped \ {p}
          /\ UNCHANGED trouble
       \/ /\ Trouble /\ Become(r, p, [t EXCEPT !.tally.errors = @ + 1])
          /\ skipped' = skipped \cup {p}
          /\ UNCHANGED <<etag, due>>
    /\ crowded' = IF Ingesting(p) \ {r} = {} THEN crowded ELSE crowded \cup {p}
    /\ UNCHANGED <<followed, edition, rows>>

\* The episodes the podcast has by now; without them nothing is inserted.
Load(r, p) ==
    LET t == sync[r][p] IN
    /\ t.pc = "load"
    /\ \/ /\ IF Items(p, t.body) = <<>> THEN Finish(r, p, t.tally)
             ELSE Become(r, p, [t EXCEPT !.pc = "ingest", !.next = 1,
                                         !.known = {x \in rows : x.podcast = p}])
          /\ UNCHANGED <<trouble, skipped>>
       \/ Items(p, t.body) # <<>> /\ Trouble /\ Fail(r, p) /\ skipped' = skipped \cup {p}
    /\ UNCHANGED <<followed, edition, etag, due, rows, crowded>>

\* Mutant: the enclosure URL alone identifies an item.
MatchesByUrl(known, item) == {x \in known : x.url = item.url}

\* The known episodes an item may be: those with its guid, else those with its URL.
Matches(known, item) ==
    LET byGuid == {x \in known : x.guid = item.guid /\ item.guid # NoGuid}
    IN  IF byGuid # {} THEN byGuid ELSE {x \in known : x.url = item.url}

\* The last of several in either map.
Matched(known, item) == CHOOSE x \in Matches(known, item) : \A y \in Matches(known, item) : y.id <= x.id

\* Mutant: a known episode is left as it is.
NeverStale(x, item) == FALSE

\* heal_episode: the known row, as it was loaded, differs from the item.
Stale(x, item) == x.art # item.art

\* Mutant: the loop runs one item past the end.
PastEnd(r, p) == sync[r][p].next > Len(Items(p, sync[r][p].body))

LastItem(r, p) == sync[r][p].next = Len(Items(p, sync[r][p].body))

\* ingest_episodes, one item.
Ingest(r, p) ==
    LET t == sync[r][p]
        item == Items(p, t.body)[t.next]
        known == Matches(t.known, item) # {}
        x == Matched(t.known, item)
        Count(tally) == IF LastItem(r, p) THEN Finish(r, p, tally)
                        ELSE Become(r, p, [t EXCEPT !.next = @ + 1, !.tally = tally])
    IN  /\ t.pc = "ingest"
        /\ \/ /\ known /\ ~Stale(x, item)
              /\ Count(t.tally) /\ UNCHANGED <<rows, trouble, skipped>>
           \/ /\ known /\ Stale(x, item)
              /\ rows' = {IF y.id = x.id THEN [y EXCEPT !.art = item.art] ELSE y : y \in rows}
              /\ Count([t.tally EXCEPT !.updated = @ + 1]) /\ UNCHANGED <<trouble, skipped>>
           \/ /\ ~known
              /\ rows' = rows \cup {[id |-> Cardinality(rows) + 1, podcast |-> p, guid |-> item.guid,
                                     url |-> item.url, art |-> item.art]}
              /\ Count([t.tally EXCEPT !.new = @ + 1]) /\ UNCHANGED <<trouble, skipped>>
           \/ /\ (known => Stale(x, item))
              /\ Trouble /\ Count([t.tally EXCEPT !.errors = @ + 1])
              /\ skipped' = skipped \cup {p} /\ UNCHANGED rows
        /\ UNCHANGED <<followed, edition, etag, due, crowded>>

Progress(r, p) ==
    \/ Answer(r, p) \/ FetchError(r, p) \/ StampUnchanged(r, p) \/ Stamp(r, p)
    \/ Load(r, p) \/ Ingest(r, p)

Outside == \E p \in Podcasts : Publish(p) \/ Elapse(p)

-----------------------------------------------------------------------------
(* What a sync promises.                                                   *)

\* The episode or item x may be the item.
Is(x, item) == Matches({x}, item) = {x}
Published(p) == UNION {ToSet(Editions[p][n]) : n \in DOMAIN Editions[p]}

\* Feeds with an edition that gives two items one guid, or with an item that two items of
\* an edition may be: one by its guid, the other by its URL.
Repeating == {p \in Podcasts : \E n \in DOMAIN Editions[p] : \E i, j \in DOMAIN Editions[p][n] :
    i # j /\ Editions[p][n][i].guid = Editions[p][n][j].guid /\ Editions[p][n][i].guid # NoGuid}
Confusable == {p \in Podcasts : \E n \in DOMAIN Editions[p] : \E i, j \in DOMAIN Editions[p][n] :
    i # j /\ \E x \in Published(p) : Is(x, Editions[p][n][i]) /\ Is(x, Editions[p][n][j])}

\* A feed answered with 304 has nothing to ingest (manager.rs sync_podcast "304: stamp
\* polled_at and stop"): when nobody is ingesting it, a podcast that would be answered so
\* holds every item of its feed, as the feed has it -- unless its last sync was cut short
\* or lost a write, two of them crossed, the stamp of a 304 that was answered before that
\* sync replaced its validators, or its items cannot be told apart.
Holds(p, item) == \E x \in rows : x.podcast = p /\ Is(x, item) /\ x.art = item.art
NothingSkipped ==
    \A p \in Podcasts \ (skipped \cup crowded \cup Confusable) :
        Ingesting(p) = {} /\ etag[p] = edition[p] =>
            \A i \in DOMAIN Items(p, etag[p]) : Holds(p, Items(p, etag[p])[i])

\* "guid avoids re-inserting the same episode" (manager.rs ingest_episodes): a podcast
\* whose syncs did not cross has one row for a guid, however its URLs rotate, unless its
\* feed itself repeats one.
OneRowPerGuid ==
    \A x, y \in rows : x.podcast = y.podcast /\ x.podcast \notin crowded \cup Repeating
                       /\ x.guid = y.guid /\ x.guid # NoGuid => x = y
=============================================================================
