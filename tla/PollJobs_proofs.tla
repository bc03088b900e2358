-------------------------- MODULE PollJobs_proofs --------------------------
(***************************************************************************)
(* The types of the poller's state; that a podcast answered with 304 has   *)
(* nothing left to ingest and has one row for a guid (FeedSync); that a    *)
(* job's totals are its outcomes' and a finished job is never written to.  *)
(* What makes the second inductive is what an ingesting task knows of the  *)
(* rows: those it loaded still stand, and the others are its own.          *)
(***************************************************************************)
EXTENDS PollJobs, FiniteSetTheorems, FunctionTheorems, WellFoundedInduction, TLAPS

Tallies == [new : Nat, updated : Nat, errors : Nat]
EpisodeRows == [id : Nat, podcast : Podcasts, guid : Nat \cup {NoGuid}, url : Nat, art : Nat]
FeedTasks == [pc : TaskPhases, tag : Nat, body : Nat, known : SUBSET EpisodeRows, next : Nat,
              tally : Tallies]
Outcomes == [podcast : Podcasts, tally : Tallies]
JobRows == [status : {"Running", "Completed", "Failed"}, outcomes : Seq(Outcomes), totals : Tallies]
RunTasks == [kind : {"none", "loop", "poll", "job"}, pc : RunPhases, job : Nat,
             scope : SUBSET Podcasts, ok : BOOLEAN, keep : SUBSET Nat]

-----------------------------------------------------------------------------
(* Feeds.                                                                  *)

FeedTyped ==
    /\ followed \subseteq Podcasts /\ due \subseteq Podcasts
    /\ edition \in [Podcasts -> Nat] /\ etag \in [Podcasts -> Nat]
    /\ \A p \in Podcasts : edition[p] \in DOMAIN Editions[p] /\ etag[p] \in {0} \cup DOMAIN Editions[p]
    /\ rows \subseteq EpisodeRows /\ IsFiniteSet(rows)
    /\ sync \in [Runs -> [Podcasts -> FeedTasks]]
    /\ trouble \in 0..MaxTrouble /\ crowded \subseteq Podcasts /\ skipped \subseteq Podcasts

\* Rows are numbered from 1 and come from their feeds.
RowsNumbered ==
    /\ \A x \in rows : x.id \in 1..Cardinality(rows)
    /\ \A x, y \in rows : x.id = y.id => x = y
RowsPublished ==
    \A x \in rows : \E item \in Published(x.podcast) : x.guid = item.guid /\ x.url = item.url

\* A task reads an item of an edition there is, was told of one that it has not changed, and
\* what it loaded is still there.
TaskFits(r, p) ==
    LET t == sync[r][p] IN
    /\ t.pc \in Reading \cup {"stamp"} => t.body \in DOMAIN Editions[p]
    /\ t.pc = "unchanged" => t.tag \in DOMAIN Editions[p]
    /\ t.pc = "ingest" => t.next \in DOMAIN Editions[p][t.body]
    /\ t.pc # "ingest" => t.known = {}
    /\ \A x \in t.known : \E y \in rows :
          y.id = x.id /\ y.podcast = p /\ x.podcast = p /\ y.guid = x.guid /\ y.url = x.url

FeedFits == FeedTyped /\ RowsNumbered /\ RowsPublished /\ \A r \in Runs, p \in Podcasts : TaskFits(r, p)

\* Two runs read one podcast only if they crossed.
Alone == \A p \in Podcasts \ crowded : \A r, s \in Ingesting(p) : r = s

\* The item before which r stands has been passed.
Passed(r, p, i) == i \in DOMAIN Editions[p][sync[r][p].body] /\ i < sync[r][p].next
ItemAt(r, p, i) == Editions[p][sync[r][p].body][i]

\* Every row of the podcast was loaded or has the guid of an item passed, and a row that
\* was loaded is as it was unless it was one of them.
KnowsRows(r, p) ==
    sync[r][p].pc = "ingest" =>
        /\ \A y \in rows : y.podcast = p =>
              \/ \E x \in sync[r][p].known : x.id = y.id
              \/ \E i \in DOMAIN Editions[p][sync[r][p].body] : Passed(r, p, i) /\ y.guid = ItemAt(r, p, i).guid
        /\ \A x \in sync[r][p].known, y \in rows : x.id = y.id =>
              \/ x.art = y.art
              \/ \E i \in DOMAIN Editions[p][sync[r][p].body] : Passed(r, p, i) /\ Is(x, ItemAt(r, p, i))

\* A podcast being read holds the items passed; one that is not holds them all.
HoldsPassed(r, p) ==
    sync[r][p].pc \in Reading =>
        /\ etag[p] = sync[r][p].body
        /\ sync[r][p].pc = "ingest" =>
              \A i \in DOMAIN Editions[p][sync[r][p].body] : Passed(r, p, i) => Holds(p, ItemAt(r, p, i))
Settled(p) ==
    Ingesting(p) = {} => \A i \in DOMAIN Items(p, etag[p]) : Holds(p, Items(p, etag[p])[i])

FeedInv ==
    /\ Alone
    /\ \A r \in Runs : \A p \in Podcasts \ crowded : KnowsRows(r, p)
    /\ \A p \in Podcasts \ (skipped \cup crowded \cup Confusable) :
          Settled(p) /\ \A r \in Runs : HoldsPassed(r, p)
    /\ OneRowPerGuid

-----------------------------------------------------------------------------
(* Jobs.                                                                   *)

JobsTyped ==
    /\ lastId \in 0..LastJob /\ DOMAIN jobs \subseteq 1..lastId
    /\ jobs \in [DOMAIN jobs -> JobRows]
    /\ run \in [Runs -> RunTasks] /\ \A r \in Runs : run[r].job <= lastId /\ run[r].keep \subseteq 1..lastId
    /\ queue \in [Runs -> Seq(Outcomes)] /\ folding \in [Runs -> Seq(Tallies)]
    /\ handle \in Runs \cup {NoRun} /\ signalled \subseteq Runs
    /\ marred \subseteq 1..lastId /\ cut \subseteq 1..lastId

Busy(r) == {p \in Podcasts : sync[r][p].pc # "none"}

\* Feeds are synced in one phase of a run, and results are on their way only then or when
\* it was dropped; a feed's result is in one place.
RunFits(r) ==
    /\ run[r].pc # "sync" => Busy(r) = {}
    /\ ~Drained(r) => run[r].pc \in {"sync", "drain"} /\ run[r].job # 0
    /\ Len(folding[r]) <= 1
    /\ Cardinality(Busy(r)) + Len(queue[r]) + Len(folding[r]) <= Cardinality(Podcasts)
    /\ run[r].pc = "list" /\ run[r].job \in DOMAIN jobs => jobs[run[r].job].outcomes = <<>>
JobsFit == JobsTyped /\ \A r \in Runs : RunFits(r)

\* A run's job is its own, and Running as long as the run may write to it.
OwnJobs == \A r, s \in Runs : run[r].job = run[s].job /\ run[r].job # 0 => r = s
StillRunning(r) ==
    (run[r].pc \in {"list", "sync"} \/ ~Drained(r)) /\ run[r].job \in DOMAIN jobs
        => jobs[run[r].job].status = "Running"

DistinctFeeds(results) ==
    \A a, b \in DOMAIN results : results[a].podcast = results[b].podcast => a = b
ReportedOnce(r) ==
    /\ DistinctFeeds(queue[r])
    /\ \A a \in DOMAIN queue[r] : queue[r][a].podcast \notin Busy(r)
    /\ run[r].job \in DOMAIN jobs =>
          \A b \in DOMAIN jobs[run[r].job].outcomes :
              /\ jobs[run[r].job].outcomes[b].podcast \notin Busy(r)
              /\ \A a \in DOMAIN queue[r] : queue[r][a].podcast # jobs[run[r].job].outcomes[b].podcast

\* The totals are the outcomes', or will be when the run's writer has added one.
Adds(r, j) == run[r].job = j /\ folding[r] # <<>>
TotalsFollow(j) ==
    /\ (\A r \in Runs : ~Adds(r, j)) => jobs[j].totals = SumOf(jobs[j].outcomes)
    /\ \A r \in Runs : Adds(r, j) => Sum(jobs[j].totals, Head(folding[r])) = SumOf(jobs[j].outcomes)

JobInv ==
    /\ OwnJobs
    /\ \A r \in Runs : StillRunning(r) /\ ReportedOnce(r)
    /\ \A j \in DOMAIN jobs : DistinctFeeds(jobs[j].outcomes)
    /\ \A j \in DOMAIN jobs \ (marred \cup cut) : TotalsFollow(j)

-----------------------------------------------------------------------------
(* Numbers and rows.                                                       *)

LEMMA LeastOf ==
    ASSUME NEW T, T \subseteq Nat, T # {}
    PROVE  \E x \in T : \A y \in T : x <= y
<1> DEFINE R == OpToRel(<, Nat)
<1>1. \A x, y \in Nat : <<y, x>> \in R <=> y < x
  BY DEF OpToRel
<1>2. IsWellFoundedOn(R, Nat)
  BY NatLessThanWellFounded, Zenon
<1> HIDE DEF R
<1>3. PICK x \in T : \A y \in T : ~(<<y, x>> \in R)
  BY <1>2, WFMin
<1>4. \A y \in T : ~(y < x)
  BY <1>1, <1>3
<1> QED
  BY <1>4

\* What holds of 0 and of the successor of what it holds of holds of every number.
LEMMA InductiveSet ==
    ASSUME NEW S, 0 \in S, \A n \in Nat : n \in S => n + 1 \in S
    PROVE  Nat \subseteq S
<1>1. SUFFICES ASSUME Nat \ S # {} PROVE FALSE
  OBVIOUS
<1>2. PICK x \in Nat \ S : \A y \in Nat \ S : x <= y
  BY <1>1, LeastOf
<1>3. x # 0 /\ x - 1 \in Nat /\ x - 1 \notin Nat \ S
  BY <1>2
<1> QED
  BY <1>2, <1>3

\* Of rows with bounded ids one has the greatest.
LEMMA GreatestId ==
    ASSUME NEW S, NEW n \in Nat, S # {}, \A x \in S : x.id \in 1..n
    PROVE  \E x \in S : \A y \in S : y.id <= x.id
<1> DEFINE T == {n - x.id : x \in S}
<1>1. T \subseteq Nat /\ T # {}
  OBVIOUS
<1>2. PICK m \in T : \A k \in T : m <= k
  <2> HIDE DEF T
  <2> QED BY <1>1, LeastOf
<1>3. PICK x \in S : m = n - x.id
  OBVIOUS
<1>4. ASSUME NEW y \in S PROVE y.id <= x.id
  <2>1. n - y.id \in T
    OBVIOUS
  <2>2. n - x.id <= n - y.id
    BY <2>1, <1>2, <1>3
  <2> QED BY <2>2
<1> QED
  BY <1>4

\* Rewriting a row in place keeps their number.
Healed(id, art) == {IF y.id = id THEN [y EXCEPT !.art = art] ELSE y : y \in rows}
LEMMA SameNumber ==
    ASSUME IsFiniteSet(rows), rows \subseteq EpisodeRows, \A x, y \in rows : x.id = y.id => x = y,
           NEW id, NEW art
    PROVE  IsFiniteSet(Healed(id, art)) /\ Cardinality(Healed(id, art)) = Cardinality(rows)
<1> DEFINE h(y) == IF y.id = id THEN [y EXCEPT !.art = art] ELSE y
           f == [y \in rows |-> h(y)]
           T == Healed(id, art)
<1>1. \A y \in rows : h(y).id = y.id
  BY DEF EpisodeRows
<1>2. T = {h(y) : y \in rows}
  BY DEF Healed
<1> HIDE DEF h, T
<1>3. f \in [rows -> T] /\ (\A y \in rows : f[y] = h(y))
  BY <1>2
<1>4. \A x, y \in rows : f[x] = f[y] => x = y
  BY <1>1, <1>3
<1>5. \A z \in T : \E y \in rows : f[y] = z
  BY <1>2, <1>3
<1> HIDE DEF f
<1>6. f \in Bijection(rows, T)
  BY <1>3, <1>4, <1>5, Fun_IsBij
<1>7. IsFiniteSet(T) /\ Cardinality(T) = Cardinality(rows)
  BY <1>6, FS_Bijection DEF ExistsBijection
<1> QED
  BY <1>7 DEF T

-----------------------------------------------------------------------------
(* The types of the feeds.                                                 *)

LEMMA EditionTypes ==
    ASSUME NEW p \in Podcasts, NEW n \in DOMAIN Editions[p]
    PROVE  /\ n \in Nat \ {0} /\ Items(p, n) = Editions[p][n]
           /\ Editions[p][n] \in Seq(FeedItems)
           /\ DOMAIN Editions[p][n] = 1..Len(Editions[p][n]) /\ Len(Editions[p][n]) \in Nat
           /\ \A i \in DOMAIN Editions[p][n] :
                 Editions[p][n][i] \in FeedItems /\ Editions[p][n][i] \in Published(p)
<1>1. Editions[p] \in Seq(Seq(FeedItems))
  BY EditionsAssumption
<1>2. n \in Nat \ {0} /\ Editions[p][n] \in Seq(FeedItems)
  BY <1>1
<1>3. \A i \in DOMAIN Editions[p][n] : Editions[p][n][i] \in ToSet(Editions[p][n])
  BY DEF ToSet
<1> QED
  BY <1>2, <1>3 DEF Items, Published

\* A task takes its next form and the others keep theirs.
LEMMA Becoming ==
    ASSUME FeedTyped, NEW r \in Runs, NEW p \in Podcasts, NEW new \in FeedTasks, Become(r, p, new)
    PROVE  /\ sync' \in [Runs -> [Podcasts -> FeedTasks]]
           /\ sync'[r][p] = new
           /\ \A s \in Runs, q \in Podcasts : s # r \/ q # p => sync'[s][q] = sync[s][q]
<1>1. sync \in [Runs -> [Podcasts -> FeedTasks]] /\ sync' = [sync EXCEPT ![r][p] = new]
  BY DEF FeedTyped, Become
<1> QED
  BY <1>1

LEMMA TaskType ==
    ASSUME FeedTyped, NEW r \in Runs, NEW p \in Podcasts
    PROVE  sync[r][p] \in FeedTasks
BY DEF FeedTyped

LEMMA NoTaskType ==
    /\ Zero \in Tallies /\ NoTask \in FeedTasks /\ NoTask.pc = "none" /\ NoTask.known = {}
    /\ \A tally \in Tallies :
          LET t == [NoTask EXCEPT !.pc = "done", !.tally = tally]
          IN  t \in FeedTasks /\ t.pc = "done" /\ t.known = {}
    /\ \A tag \in Nat :
          LET t == [NoTask EXCEPT !.pc = "listed", !.tag = tag]
          IN  t \in FeedTasks /\ t.pc = "listed" /\ t.known = {}
BY Zenon DEF NoTask, Task, Zero, Tallies, FeedTasks, TaskPhases, InFlight

\* Steps that leave the rows and the tasks, or make a task fit.
LEMMA FitsKept ==
    ASSUME FeedFits, FeedTyped', rows' = rows,
           \A s \in Runs, q \in Podcasts : sync'[s][q] = sync[s][q] \/ TaskFits(s, q)'
    PROVE  FeedFits'
<1>1. RowsNumbered' /\ RowsPublished'
  BY DEF FeedFits, RowsNumbered, RowsPublished
<1>2. ASSUME NEW s \in Runs, NEW q \in Podcasts, sync'[s][q] = sync[s][q] PROVE TaskFits(s, q)'
  <2>1. TaskFits(s, q)
    BY DEF FeedFits
  <2> QED
    BY <2>1, <1>2 DEF TaskFits
<1> QED
  BY <1>1, <1>2 DEF FeedFits

LEMMA FinishType ==
    ASSUME FeedTyped, NEW r \in Runs, NEW p \in Podcasts, NEW tally \in Tallies, Finish(r, p, tally)
    PROVE  /\ sync' \in [Runs -> [Podcasts -> FeedTasks]]
           /\ sync'[r][p].pc = "done" /\ sync'[r][p].known = {}
           /\ \A s \in Runs, q \in Podcasts : s # r \/ q # p => sync'[s][q] = sync[s][q]
<1> DEFINE new == [NoTask EXCEPT !.pc = "done", !.tally = tally]
<1>1. new \in FeedTasks /\ new.pc = "done" /\ new.known = {}
  BY NoTaskType, Zenon
<1> HIDE DEF new
<1>2. Become(r, p, new)
  BY DEF Finish, new
<1> QED
  BY <1>1, <1>2, Becoming

LEMMA FailType ==
    ASSUME FeedTyped, NEW r \in Runs, NEW p \in Podcasts, Fail(r, p)
    PROVE  \E tally \in Tallies : Finish(r, p, tally)
<1>1. [sync[r][p].tally EXCEPT !.errors = @ + 1] \in Tallies
  BY TaskType DEF FeedTasks, Tallies
<1> QED
  BY <1>1 DEF Fail

LEMMA DoneFits ==
    ASSUME FeedFits, rows' = rows, FeedTyped', NEW r \in Runs, NEW p \in Podcasts,
           NEW tally \in Tallies, Finish(r, p, tally)
    PROVE  FeedFits'
<1>1. TaskFits(r, p)'
  BY FinishType DEF FeedFits, TaskFits, Reading
<1> QED
  BY <1>1, FinishType, FitsKept DEF FeedFits

LEMMA TroubleType == ASSUME FeedTyped, Trouble PROVE trouble' \in 0..MaxTrouble
BY EditionsAssumption DEF FeedTyped, Trouble

LEMMA AnswerFits ==
    ASSUME FeedFits, NEW r \in Runs, NEW p \in Podcasts, Answer(r, p)
    PROVE  FeedFits'
<1> DEFINE t == sync[r][p]
           new == IF Unchanged(r, p) THEN [t EXCEPT !.pc = "unchanged"]
                  ELSE [t EXCEPT !.pc = "stamp", !.body = edition[p]]
<1>1. FeedTyped /\ TaskFits(r, p) /\ t \in FeedTasks /\ t.pc = "fetch" /\ Become(r, p, new)
      /\ edition[p] \in Nat /\ edition[p] \in DOMAIN Editions[p]
  BY TaskType DEF FeedFits, FeedTyped, Answer
<1>2. t.known = {}
  BY <1>1 DEF TaskFits
<1>3. new \in FeedTasks /\ new.known = {} /\ new.pc \in {"unchanged", "stamp"}
      /\ (new.pc = "stamp" => new.body = edition[p]) /\ (new.pc = "unchanged" => new.tag = edition[p])
  BY <1>1, <1>2 DEF FeedTasks, TaskPhases, InFlight, Unchanged
<1> HIDE DEF new
<1>4. FeedTyped'
  BY <1>1, <1>3, Becoming DEF FeedTyped, Answer
<1>5. TaskFits(r, p)'
  BY <1>1, <1>3, Becoming DEF TaskFits, Reading
<1> QED
  BY <1>1, <1>3, <1>4, <1>5, Becoming, FitsKept DEF Answer

LEMMA FetchErrorFits ==
    ASSUME FeedFits, NEW r \in Runs, NEW p \in Podcasts, FetchError(r, p)
    PROVE  FeedFits'
<1>1. FeedTyped
  BY DEF FeedFits
<1>2. PICK tally \in Tallies : Finish(r, p, tally)
  BY <1>1, FailType DEF FetchError
<1>3. FeedTyped'
  BY <1>1, <1>2, FinishType DEF FeedTyped, FetchError
<1> QED
  BY <1>2, <1>3, DoneFits DEF FetchError

\* What the stamp of a 304 may do: it stores validators of the podcast, and notes where they
\* are not those that were stored.
LEMMA StampsUnchanged ==
    ASSUME FeedFits, NEW r \in Runs, NEW p \in Podcasts, StampUnchanged(r, p)
    PROVE  /\ \E tally \in Tallies : Finish(r, p, tally)
           /\ etag' \in [Podcasts -> Nat]
           /\ \A q \in Podcasts : etag'[q] \in {0} \cup DOMAIN Editions[q]
           /\ \A q \in Podcasts : etag'[q] = etag[q] \/ q \in skipped'
           /\ skipped \subseteq skipped' /\ skipped' \subseteq Podcasts
           /\ due' \subseteq Podcasts /\ trouble' \in 0..MaxTrouble
<1>1. FeedTyped /\ TaskFits(r, p) /\ sync[r][p].pc = "unchanged"
  BY DEF FeedFits, StampUnchanged
<1>2. CASE /\ \E stored \in {etag[p], sync[r][p].tag} :
                 /\ etag' = [etag EXCEPT ![p] = stored]
                 /\ skipped' = IF stored = etag[p] THEN skipped ELSE skipped \cup {p}
           /\ due' = due \ {p} /\ Finish(r, p, Zero) /\ UNCHANGED trouble
  <2>1. PICK stored \in {etag[p], sync[r][p].tag} :
          /\ etag' = [etag EXCEPT ![p] = stored]
          /\ skipped' = IF stored = etag[p] THEN skipped ELSE skipped \cup {p}
    BY <1>2
  <2>2. stored \in {0} \cup DOMAIN Editions[p] /\ stored \in Nat
    BY <1>1, TaskType DEF TaskFits, FeedTyped, FeedTasks
  <2>3. \E tally \in Tallies : Finish(r, p, tally)
    BY <1>2, NoTaskType, Zenon
  <2> QED
    BY <1>1, <1>2, <2>1, <2>2, <2>3 DEF FeedTyped
<1>3. CASE Trouble /\ Fail(r, p) /\ UNCHANGED <<etag, due, skipped>>
  BY <1>1, <1>3, FailType, TroubleType DEF FeedTyped
<1> QED
  BY <1>2, <1>3, Zenon DEF StampUnchanged

LEMMA StampUnchangedFits ==
    ASSUME FeedFits, NEW r \in Runs, NEW p \in Podcasts, StampUnchanged(r, p)
    PROVE  FeedFits'
<1>1. FeedTyped /\ UNCHANGED <<followed, edition, rows, crowded>>
  BY DEF FeedFits, StampUnchanged
<1>2. PICK tally \in Tallies : Finish(r, p, tally)
  BY StampsUnchanged
<1>3. FeedTyped'
  BY <1>1, <1>2, StampsUnchanged, FinishType DEF FeedTyped
<1> QED
  BY <1>1, <1>2, <1>3, DoneFits

LEMMA StampGoesOn ==
    ASSUME FeedFits, NEW r \in Runs, NEW p \in Podcasts, Stamp(r, p)
    PROVE  \E new \in FeedTasks :
              Become(r, p, new) /\ new.pc = "load" /\ new.known = {} /\ new.body = sync[r][p].body
<1> DEFINE t == sync[r][p]
<1>1. TaskFits(r, p) /\ t \in FeedTasks /\ t.pc = "stamp"
  BY TaskType DEF FeedFits, Stamp
<1>2. t.known = {}
  BY <1>1 DEF TaskFits, Reading, FeedTasks
<1>3. \E new \in FeedTasks : Become(r, p, new) /\ new.pc = "load" /\ new.known = {} /\ new.body = t.body
  <2>1. t.tally \in Tallies /\ t.tally.errors \in Nat
    BY <1>1 DEF FeedTasks, Tallies
  <2>2. /\ [t EXCEPT !.pc = "load"] \in FeedTasks
        /\ [t EXCEPT !.pc = "load"].tally = t.tally
    BY <1>1 DEF FeedTasks, TaskPhases, InFlight
  <2>4. [[t EXCEPT !.pc = "load"] EXCEPT !.tally.errors = @ + 1] \in FeedTasks
    <3> DEFINE u == [t EXCEPT !.pc = "load"]
    <3>1. u \in FeedTasks /\ u.tally \in Tallies
      BY <2>1, <2>2
    <3> HIDE DEF u
    <3>2. [u EXCEPT !.tally.errors = @ + 1] = [u EXCEPT !.tally = [u.tally EXCEPT !.errors = @ + 1]]
      BY <3>1 DEF FeedTasks, Tallies
    <3>3. [u.tally EXCEPT !.errors = @ + 1] \in Tallies
      BY <3>1 DEF Tallies
    <3>4. [u EXCEPT !.tally.errors = @ + 1] \in FeedTasks
      BY <3>1, <3>2, <3>3 DEF FeedTasks
    <3> QED
      BY <3>4 DEF u
  <2>3. \/ Become(r, p, [t EXCEPT !.pc = "load"])
        \/ Become(r, p, [[t EXCEPT !.pc = "load"] EXCEPT !.tally.errors = @ + 1])
    BY DEF Stamp
  <2> QED
    BY <1>1, <1>2, <2>2, <2>3, <2>4 DEF FeedTasks
<1> QED
  BY <1>3

LEMMA StampFits ==
    ASSUME FeedFits, NEW r \in Runs, NEW p \in Podcasts, Stamp(r, p)
    PROVE  FeedFits'
<1> DEFINE t == sync[r][p]
<1>1. FeedTyped /\ TaskFits(r, p) /\ t \in FeedTasks /\ t.pc = "stamp"
  BY TaskType DEF FeedFits, Stamp
<1>2. t.known = {} /\ t.body \in DOMAIN Editions[p] /\ t.body \in Nat
  BY <1>1 DEF TaskFits, Reading, FeedTasks
<1>3. PICK new \in FeedTasks : Become(r, p, new) /\ new.pc = "load" /\ new.known = {} /\ new.body = t.body
  BY StampGoesOn
<1>4. /\ \A q \in Podcasts : etag'[q] \in {0} \cup DOMAIN Editions[q]
      /\ etag' \in [Podcasts -> Nat] /\ due' \subseteq Podcasts
      /\ trouble' \in 0..MaxTrouble /\ crowded' \subseteq Podcasts /\ skipped' \subseteq Podcasts
  BY <1>1, <1>2, TroubleType DEF Stamp, FeedTyped
<1>5. FeedTyped'
  BY <1>1, <1>3, <1>4, Becoming DEF FeedTyped, Stamp
<1>6. TaskFits(r, p)'
  BY <1>1, <1>2, <1>3, Becoming DEF TaskFits, Reading
<1> QED
  BY <1>1, <1>3, <1>5, <1>6, Becoming, FitsKept DEF Stamp

LEMMA LoadFits ==
    ASSUME FeedFits, NEW r \in Runs, NEW p \in Podcasts, Load(r, p)
    PROVE  FeedFits'
<1> DEFINE t == sync[r][p]
<1>1. FeedTyped /\ TaskFits(r, p) /\ t \in FeedTasks /\ t.pc = "load"
  BY TaskType DEF FeedFits, Load
<1>2. t.body \in DOMAIN Editions[p] /\ t.tally \in Tallies
  BY <1>1 DEF TaskFits, Reading, FeedTasks
<1>3. Items(p, t.body) = Editions[p][t.body] /\ Editions[p][t.body] \in Seq(FeedItems)
  BY <1>2, EditionTypes
<1>4. trouble' \in 0..MaxTrouble /\ skipped' \subseteq Podcasts
  BY <1>1, TroubleType DEF Load, FeedTyped
<1>5. CASE \E tally \in Tallies : Finish(r, p, tally)
  <2>1. FeedTyped'
    BY <1>1, <1>4, <1>5, FinishType DEF FeedTyped, Load
  <2> QED
    BY <1>5, <2>1, DoneFits DEF Load
<1>6. CASE /\ Items(p, t.body) # <<>>
           /\ Become(r, p, [t EXCEPT !.pc = "ingest", !.next = 1, !.known = {x \in rows : x.podcast = p}])
  <2> DEFINE new == [t EXCEPT !.pc = "ingest", !.next = 1, !.known = {x \in rows : x.podcast = p}]
  <2>1. {x \in rows : x.podcast = p} \subseteq EpisodeRows
    BY <1>1 DEF FeedTyped
  <2>2. /\ new \in FeedTasks /\ new.pc = "ingest" /\ new.next = 1 /\ new.body = t.body
        /\ new.known = {x \in rows : x.podcast = p}
    BY <1>1, <2>1, Zenon DEF FeedTasks, TaskPhases, InFlight
  <2> HIDE DEF new
  <2>3. Become(r, p, new)
    BY <1>6 DEF new
  <2>4. FeedTyped'
    BY <1>1, <1>4, <2>2, <2>3, Becoming DEF FeedTyped, Load
  <2>5. 1 \in DOMAIN Editions[p][t.body]
    BY <1>3, <1>6
  <2>6. rows' = rows /\ sync'[r][p] = new
    BY <1>1, <2>2, <2>3, Becoming DEF Load
  <2>7. TaskFits(r, p)'
    BY <1>2, <2>2, <2>5, <2>6 DEF TaskFits
  <2> QED
    BY <1>1, <2>2, <2>3, <2>4, <2>6, <2>7, Becoming, FitsKept
<1> QED
  BY <1>1, <1>2, <1>5, <1>6, FailType DEF Load

-----------------------------------------------------------------------------
(* One item: it is as it was, healed, inserted, or its write is lost; then  *)
(* the next item comes, or the task ends.                                   *)

ItemRead(r, p) == ItemAt(r, p, sync[r][p].next)
NewRow(r, p) == [id |-> Cardinality(rows) + 1, podcast |-> p, guid |-> ItemRead(r, p).guid,
                 url |-> ItemRead(r, p).url, art |-> ItemRead(r, p).art]
Keeps(r, p) ==
    /\ \E x \in sync[r][p].known : Is(x, ItemRead(r, p)) /\ x.art = ItemRead(r, p).art
    /\ UNCHANGED <<rows, skipped>>
Heals(r, p) ==
    /\ \E x \in sync[r][p].known : Is(x, ItemRead(r, p)) /\ rows' = Healed(x.id, ItemRead(r, p).art)
    /\ UNCHANGED skipped
Inserts(r, p) ==
    /\ \A x \in sync[r][p].known : ~Is(x, ItemRead(r, p))
    /\ rows' = rows \cup {NewRow(r, p)} /\ UNCHANGED skipped
Loses(r, p) == UNCHANGED rows /\ skipped' = skipped \cup {p}
GoesOn(r, p) ==
    \E new \in FeedTasks :
        /\ Become(r, p, new)
        /\ \/ /\ sync[r][p].next = Len(Editions[p][sync[r][p].body])
              /\ new.pc = "done" /\ new.known = {}
           \/ /\ sync[r][p].next < Len(Editions[p][sync[r][p].body])
              /\ new.pc = "ingest" /\ new.known = sync[r][p].known
              /\ new.body = sync[r][p].body /\ new.next = sync[r][p].next + 1

LEMMA IsMeans ==
    ASSUME NEW x, NEW item
    PROVE  Is(x, item) <=> (x.guid = item.guid /\ item.guid # NoGuid) \/ x.url = item.url
BY DEF Is, Matches

LEMMA MatchesAre ==
    ASSUME NEW known, NEW item
    PROVE  /\ \A x \in Matches(known, item) : x \in known /\ Is(x, item)
           /\ Matches(known, item) = {} => \A x \in known : ~Is(x, item)
BY IsMeans DEF Matches

\* What the task that ingests has to do with.
LEMMA IngestReads ==
    ASSUME FeedFits, NEW r \in Runs, NEW p \in Podcasts, sync[r][p].pc = "ingest"
    PROVE  /\ FeedTyped /\ TaskFits(r, p) /\ sync[r][p] \in FeedTasks
           /\ sync[r][p].body \in DOMAIN Editions[p]
           /\ sync[r][p].next \in DOMAIN Editions[p][sync[r][p].body]
           /\ Items(p, sync[r][p].body) = Editions[p][sync[r][p].body]
           /\ Items(p, sync[r][p].body)[sync[r][p].next] = ItemRead(r, p)
           /\ ItemRead(r, p) \in FeedItems /\ ItemRead(r, p) \in Published(p)
<1>1. FeedTyped /\ TaskFits(r, p) /\ sync[r][p] \in FeedTasks
  BY TaskType DEF FeedFits
<1>2. sync[r][p].body \in DOMAIN Editions[p] /\ sync[r][p].next \in DOMAIN Editions[p][sync[r][p].body]
  BY <1>1 DEF TaskFits, Reading
<1> QED
  BY <1>1, <1>2, EditionTypes DEF ItemRead, ItemAt

LEMMA MatchedIsKnown ==
    ASSUME FeedFits, NEW r \in Runs, NEW p \in Podcasts, sync[r][p].pc = "ingest",
           NEW item, Matches(sync[r][p].known, item) # {}
    PROVE  Matched(sync[r][p].known, item) \in Matches(sync[r][p].known, item)
<1> DEFINE S == Matches(sync[r][p].known, item)
<1>1. \A x \in sync[r][p].known : \E y \in rows : y.id = x.id
  BY DEF FeedFits, TaskFits
<1>2. \A y \in rows : y.id \in 1..Cardinality(rows)
  BY DEF FeedFits, RowsNumbered
<1>3. Cardinality(rows) \in Nat
  BY FS_CardinalityType DEF FeedFits, FeedTyped
<1>4. \A x \in S : x \in sync[r][p].known
  BY MatchesAre
<1>5. \A x \in S : x.id \in 1..Cardinality(rows)
  BY <1>1, <1>2, <1>4
<1>6. \E x \in S : \A y \in S : y.id <= x.id
  <2> HIDE DEF S
  <2> QED BY <1>3, <1>5, GreatestId DEF S
<1> QED
  BY <1>6 DEF Matched

LEMMA OneMoreCounted ==
    ASSUME NEW tally \in Tallies
    PROVE  /\ [tally EXCEPT !.updated = @ + 1] \in Tallies
           /\ [tally EXCEPT !.new = @ + 1] \in Tallies
           /\ [tally EXCEPT !.errors = @ + 1] \in Tallies
<1>1. tally = [new |-> tally.new, updated |-> tally.updated, errors |-> tally.errors]
      /\ tally.new \in Nat /\ tally.updated \in Nat /\ tally.errors \in Nat
  BY DEF Tallies
<1>2. [tally EXCEPT !.updated = @ + 1] \in Tallies
  BY <1>1 DEF Tallies
<1>3. [tally EXCEPT !.new = @ + 1] \in Tallies
  BY <1>1 DEF Tallies
<1>4. [tally EXCEPT !.errors = @ + 1] \in Tallies
  BY <1>1 DEF Tallies
<1> QED
  BY <1>2, <1>3, <1>4

LEMMA IngestGoesOn ==
    ASSUME FeedFits, NEW r \in Runs, NEW p \in Podcasts, Ingest(r, p)
    PROVE  GoesOn(r, p)
<1> DEFINE t == sync[r][p]
           Count(tally) == IF LastItem(r, p) THEN Finish(r, p, tally)
                           ELSE Become(r, p, [t EXCEPT !.next = @ + 1, !.tally = tally])
<1>1. t.pc = "ingest"
  BY Zenon DEF Ingest
<1>2. /\ t \in FeedTasks /\ Items(p, t.body) = Editions[p][t.body]
      /\ t.next \in 1..Len(Editions[p][t.body]) /\ Len(Editions[p][t.body]) \in Nat
      /\ t.tally \in Tallies /\ t.next \in Nat
  BY <1>1, IngestReads, EditionTypes DEF FeedTasks
<1>3. /\ [t.tally EXCEPT !.updated = @ + 1] \in Tallies
      /\ [t.tally EXCEPT !.new = @ + 1] \in Tallies
      /\ [t.tally EXCEPT !.errors = @ + 1] \in Tallies
  BY <1>2, OneMoreCounted
<1>4. PICK tally \in Tallies : Count(tally)
  <2>1. \/ Count(t.tally) \/ Count([t.tally EXCEPT !.updated = @ + 1])
        \/ Count([t.tally EXCEPT !.new = @ + 1]) \/ Count([t.tally EXCEPT !.errors = @ + 1])
    BY Zenon DEF Ingest
  <2> HIDE DEF Count
  <2> QED BY <1>2, <1>3, <2>1
<1>5. CASE LastItem(r, p)
  <2> DEFINE new == [NoTask EXCEPT !.pc = "done", !.tally = tally]
  <2>1. new \in FeedTasks /\ new.pc = "done" /\ new.known = {}
    BY NoTaskType, Zenon
  <2>2. Become(r, p, new)
    BY <1>4, <1>5 DEF Finish
  <2>3. t.next = Len(Editions[p][t.body])
    BY <1>2, <1>5 DEF LastItem
  <2> HIDE DEF new
  <2> QED
    BY <2>1, <2>2, <2>3 DEF GoesOn
<1>6. CASE ~LastItem(r, p)
  <2> DEFINE new == [t EXCEPT !.next = @ + 1, !.tally = tally]
  <2>1. /\ new \in FeedTasks /\ new.pc = "ingest" /\ new.known = t.known /\ new.body = t.body
        /\ new.next = t.next + 1
    <3>1. t \in FeedTasks /\ t.pc = "ingest" /\ t.next + 1 \in Nat
      BY <1>1, <1>2
    <3> HIDE DEF t
    <3> QED
      BY <3>1 DEF FeedTasks
  <2>2. Become(r, p, new)
    BY <1>4, <1>6
  <2>3. t.next < Len(Editions[p][t.body])
    BY <1>2, <1>6 DEF LastItem
  <2> HIDE DEF new
  <2> QED
    BY <2>1, <2>2, <2>3 DEF GoesOn
<1> QED
  BY <1>5, <1>6

LEMMA IngestDoes ==
    ASSUME FeedFits, NEW r \in Runs, NEW p \in Podcasts, Ingest(r, p)
    PROVE  Keeps(r, p) \/ Heals(r, p) \/ Inserts(r, p) \/ Loses(r, p)
<1> DEFINE t == sync[r][p]
           item == ItemRead(r, p)
           x == Matched(t.known, item)
<1>1. t.pc = "ingest" /\ Items(p, t.body)[t.next] = item
  BY IngestReads, ZenonT(30) DEF Ingest
<1>2. \/ Matches(t.known, item) # {} /\ ~Stale(x, item) /\ UNCHANGED <<rows, skipped>>
      \/ /\ Matches(t.known, item) # {} /\ UNCHANGED skipped
         /\ rows' = {IF y.id = x.id THEN [y EXCEPT !.art = item.art] ELSE y : y \in rows}
      \/ /\ Matches(t.known, item) = {} /\ UNCHANGED skipped
         /\ rows' = rows \cup {[id |-> Cardinality(rows) + 1, podcast |-> p, guid |-> item.guid,
                                url |-> item.url, art |-> item.art]}
      \/ UNCHANGED rows /\ skipped' = skipped \cup {p}
  BY <1>1 DEF Ingest
<1>3. Matches(t.known, item) # {} => x \in t.known /\ Is(x, item)
  <2>1. Matches(t.known, item) # {} => x \in Matches(t.known, item)
    BY <1>1, MatchedIsKnown
  <2> HIDE DEF x, item, t
  <2> QED
    BY <2>1, MatchesAre
<1>4. Matches(t.known, item) = {} => \A y \in t.known : ~Is(y, item)
  BY MatchesAre
<1>5. x.art = item.art \/ Stale(x, item)
  BY DEF Stale
<1> HIDE DEF x, item
<1>6. CASE Matches(t.known, item) # {} /\ ~Stale(x, item) /\ UNCHANGED <<rows, skipped>>
  BY <1>3, <1>5, <1>6 DEF Keeps, item
<1>7. CASE /\ Matches(t.known, item) # {} /\ UNCHANGED skipped
           /\ rows' = {IF y.id = x.id THEN [y EXCEPT !.art = item.art] ELSE y : y \in rows}
  BY <1>3, <1>7 DEF Heals, Healed, item
<1>8. CASE /\ Matches(t.known, item) = {} /\ UNCHANGED skipped
           /\ rows' = rows \cup {[id |-> Cardinality(rows) + 1, podcast |-> p, guid |-> item.guid,
                                  url |-> item.url, art |-> item.art]}
  BY <1>4, <1>8 DEF Inserts, NewRow, item
<1> QED
  BY <1>2, <1>6, <1>7, <1>8 DEF Loses

\* z is the row y, healed at most.
SameRow(y, z) == z.id = y.id /\ z.podcast = y.podcast /\ z.guid = y.guid /\ z.url = y.url

LEMMA HealedRows ==
    ASSUME FeedFits, NEW r \in Runs, NEW p \in Podcasts, sync[r][p].pc = "ingest",
           NEW x \in sync[r][p].known, NEW art \in Nat
    PROVE  /\ Healed(x.id, art) \subseteq EpisodeRows
           /\ \A y \in rows : \E z \in Healed(x.id, art) :
                 /\ SameRow(y, z) /\ (y.podcast # p => z = y)
                 /\ IF y.id = x.id THEN z.art = art ELSE z = y
           /\ \A z \in Healed(x.id, art) : \E y \in rows :
                 /\ SameRow(y, z) /\ (y.podcast # p => z = y)
                 /\ IF y.id = x.id THEN z.art = art ELSE z = y
<1> DEFINE h(y) == IF y.id = x.id THEN [y EXCEPT !.art = art] ELSE y
<1>1. rows \subseteq EpisodeRows
  BY DEF FeedFits, FeedTyped
<1>2. \A y \in rows : y.id = x.id => y.podcast = p
  BY DEF FeedFits, RowsNumbered, TaskFits
<1>3. \A y \in rows : /\ h(y) \in EpisodeRows /\ SameRow(y, h(y)) /\ (y.podcast # p => h(y) = y)
                      /\ IF y.id = x.id THEN h(y).art = art ELSE h(y) = y
  BY <1>1, <1>2 DEF EpisodeRows, SameRow
<1>4. Healed(x.id, art) = {h(y) : y \in rows}
  BY DEF Healed
<1> HIDE DEF h
<1> QED
  BY <1>3, <1>4

\* The rows after an item: each is an earlier one or the new one, and none is gone.
LEMMA RowsAfter ==
    ASSUME FeedFits, NEW r \in Runs, NEW p \in Podcasts, sync[r][p].pc = "ingest",
           Keeps(r, p) \/ Heals(r, p) \/ Inserts(r, p) \/ Loses(r, p)
    PROVE  /\ rows' \subseteq EpisodeRows /\ IsFiniteSet(rows') /\ RowsNumbered' /\ RowsPublished'
           /\ \A y \in rows : \E z \in rows' : SameRow(y, z) /\ (y.podcast # p => z = y)
           /\ \A z \in rows' : \/ Inserts(r, p) /\ z = NewRow(r, p)
                               \/ \E y \in rows : SameRow(y, z) /\ (y.podcast # p => z = y)
<1>1. /\ rows \subseteq EpisodeRows /\ IsFiniteSet(rows) /\ RowsNumbered /\ RowsPublished
      /\ Cardinality(rows) \in Nat /\ ItemRead(r, p) \in FeedItems /\ ItemRead(r, p) \in Published(p)
  BY IngestReads, FS_CardinalityType DEF FeedFits, FeedTyped
<1>2. CASE UNCHANGED rows
  BY <1>1, <1>2 DEF RowsNumbered, RowsPublished, SameRow
<1>3. CASE Heals(r, p)
  <2>1. PICK x \in sync[r][p].known : rows' = Healed(x.id, ItemRead(r, p).art)
    BY <1>3 DEF Heals
  <2>2. ItemRead(r, p).art \in Nat
    BY <1>1 DEF FeedItems
  <2>3. /\ rows' \subseteq EpisodeRows
        /\ \A y \in rows : \E z \in rows' : SameRow(y, z) /\ (y.podcast # p => z = y)
        /\ \A z \in rows' : \E y \in rows :
              /\ SameRow(y, z) /\ (y.podcast # p => z = y)
              /\ IF y.id = x.id THEN z.art = ItemRead(r, p).art ELSE z = y
    BY <2>1, <2>2, HealedRows
  <2>4. IsFiniteSet(rows') /\ Cardinality(rows') = Cardinality(rows)
    BY <1>1, <2>1, SameNumber DEF RowsNumbered
  <2>5. ASSUME NEW u \in rows', NEW v \in rows', u.id = v.id PROVE u = v
    <3>1. PICK y \in rows : SameRow(y, u) /\ IF y.id = x.id THEN u.art = ItemRead(r, p).art ELSE u = y
      BY <2>3
    <3>2. PICK w \in rows : SameRow(w, v) /\ IF w.id = x.id THEN v.art = ItemRead(r, p).art ELSE v = w
      BY <2>3
    <3>3. y = w
      BY <1>1, <2>5, <3>1, <3>2 DEF RowsNumbered, SameRow
    <3>4. u \in EpisodeRows /\ v \in EpisodeRows
      BY <2>3
    <3> QED
      BY <3>1, <3>2, <3>3, <3>4 DEF SameRow, EpisodeRows
  <2>6. RowsNumbered'
    BY <1>1, <2>3, <2>4, <2>5 DEF RowsNumbered, SameRow
  <2>7. RowsPublished'
    BY <1>1, <2>3 DEF RowsPublished, SameRow, Published
  <2> QED
    BY <2>3, <2>4, <2>6, <2>7
<1>4. CASE Inserts(r, p)
  <2> DEFINE n == NewRow(r, p)
  <2>1. /\ n \in EpisodeRows /\ n.id = Cardinality(rows) + 1 /\ n.podcast = p
        /\ n.guid = ItemRead(r, p).guid /\ n.url = ItemRead(r, p).url
    BY <1>1 DEF NewRow, EpisodeRows, FeedItems
  <2>2. rows' = rows \cup {n}
    BY <1>4 DEF Inserts
  <2> HIDE DEF n
  <2>3. n \notin rows /\ \A y \in rows : y.id # n.id
    BY <1>1, <2>1 DEF RowsNumbered
  <2>4. IsFiniteSet(rows') /\ Cardinality(rows') = Cardinality(rows) + 1
    BY <1>1, <2>2, <2>3, FS_AddElement
  <2>5. RowsNumbered'
    BY <1>1, <2>1, <2>2, <2>3, <2>4 DEF RowsNumbered
  <2>6. RowsPublished'
    BY <1>1, <2>1, <2>2 DEF RowsPublished, Published
  <2> QED
    BY <1>1, <1>4, <2>1, <2>2, <2>4, <2>5, <2>6 DEF SameRow, n
<1> QED
  BY <1>2, <1>3, <1>4 DEF Keeps, Loses

LEMMA IngestFits ==
    ASSUME FeedFits, NEW r \in Runs, NEW p \in Podcasts, Ingest(r, p)
    PROVE  FeedFits'
<1>1. /\ FeedTyped /\ sync[r][p].pc = "ingest" /\ sync[r][p].body \in DOMAIN Editions[p]
      /\ sync[r][p].next \in DOMAIN Editions[p][sync[r][p].body]
  BY IngestReads, Zenon DEF Ingest
<1>2. /\ rows' \subseteq EpisodeRows /\ IsFiniteSet(rows') /\ RowsNumbered' /\ RowsPublished'
      /\ \A y \in rows : \E z \in rows' : SameRow(y, z)
  BY <1>1, IngestDoes, RowsAfter
<1>3. PICK new \in FeedTasks :
        /\ Become(r, p, new)
        /\ \/ new.pc = "done" /\ new.known = {}
           \/ /\ sync[r][p].next < Len(Editions[p][sync[r][p].body])
              /\ new.pc = "ingest" /\ new.known = sync[r][p].known
              /\ new.body = sync[r][p].body /\ new.next = sync[r][p].next + 1
  BY IngestGoesOn DEF GoesOn
<1>4. trouble' \in 0..MaxTrouble /\ skipped' \subseteq Podcasts
  BY <1>1, TroubleType, ZenonT(30) DEF Ingest, FeedTyped
<1>5. FeedTyped'
  BY <1>1, <1>2, <1>3, <1>4, Becoming, Zenon DEF FeedTyped, Ingest
<1>6. ASSUME NEW s \in Runs, NEW q \in Podcasts, sync'[s][q] = sync[s][q] PROVE TaskFits(s, q)'
  <2>1. TaskFits(s, q)
    BY DEF FeedFits
  <2> QED
    BY <1>2, <1>6, <2>1 DEF TaskFits, SameRow
<1>7. TaskFits(r, p)'
  <2>1. TaskFits(r, p) /\ sync'[r][p] = new
    BY <1>1, <1>3, Becoming DEF FeedFits
  <2>2. CASE new.pc = "done" /\ new.known = {}
    BY <2>1, <2>2 DEF TaskFits, Reading
  <2>3. CASE /\ sync[r][p].next < Len(Editions[p][sync[r][p].body])
             /\ new.pc = "ingest" /\ new.known = sync[r][p].known
             /\ new.body = sync[r][p].body /\ new.next = sync[r][p].next + 1
    <3>1. new.next \in DOMAIN Editions[p][new.body]
      BY <1>1, <2>3, EditionTypes
    <3> QED
      BY <1>1, <1>2, <2>1, <2>3, <3>1 DEF TaskFits, SameRow
  <2> QED
    BY <1>3, <2>2, <2>3
<1> QED
  BY <1>1, <1>2, <1>3, <1>5, <1>6, <1>7, Becoming DEF FeedFits

-----------------------------------------------------------------------------
(* What the ingesting tasks know.                                          *)

\* A step that writes no row: validators change and tasks start or stop reading only where a
\* podcast is passed over.
FeedsStand ==
    /\ rows' = rows /\ crowded' = crowded /\ skipped \subseteq skipped'
    /\ \A q \in Podcasts : etag'[q] = etag[q] \/ q \in skipped'
    /\ \A s \in Runs, q \in Podcasts :
          \/ sync'[s][q] = sync[s][q]
          \/ sync'[s][q].pc \notin Reading /\ (sync[s][q].pc \notin Reading \/ q \in skipped')

LEMMA StandingKeeps == ASSUME FeedInv, FeedsStand PROVE FeedInv'
<1>1. \A q \in Podcasts : Ingesting(q)' \subseteq Ingesting(q)
  BY DEF FeedsStand, Ingesting
<1>2. Alone'
  BY <1>1 DEF FeedInv, FeedsStand, Alone
<1>3. OneRowPerGuid'
  BY DEF FeedInv, FeedsStand, OneRowPerGuid
<1>4. ASSUME NEW s \in Runs, NEW q \in Podcasts \ crowded' PROVE KnowsRows(s, q)'
  <2>1. CASE sync'[s][q] = sync[s][q]
    <3>1. KnowsRows(s, q)
      BY DEF FeedInv, FeedsStand
    <3> QED
      BY <2>1, <3>1 DEF KnowsRows, Passed, ItemAt, FeedsStand
  <2>2. CASE sync'[s][q].pc \notin Reading
    BY <2>2 DEF KnowsRows, Reading
  <2> QED
    BY <2>1, <2>2 DEF FeedsStand
<1>5. ASSUME NEW q \in Podcasts \ (skipped \cup crowded \cup Confusable)', NEW s \in Runs
      PROVE  HoldsPassed(s, q)'
  <2>1. CASE sync'[s][q] = sync[s][q]
    <3>1. HoldsPassed(s, q)
      BY DEF FeedInv, FeedsStand
    <3> QED
      BY <2>1, <3>1 DEF HoldsPassed, Passed, ItemAt, Holds, FeedsStand
  <2>2. CASE sync'[s][q].pc \notin Reading
    BY <2>2 DEF HoldsPassed
  <2> QED
    BY <2>1, <2>2 DEF FeedsStand
<1>6. ASSUME NEW q \in Podcasts \ (skipped \cup crowded \cup Confusable)' PROVE Settled(q)'
  <2>1. Settled(q)
    BY DEF FeedInv, FeedsStand
  <2>2. Ingesting(q)' = {} => Ingesting(q) = {}
    BY DEF Ingesting, FeedsStand
  <2> QED
    BY <2>1, <2>2 DEF Settled, Holds, FeedsStand
<1> QED
  BY <1>2, <1>3, <1>4, <1>5, <1>6 DEF FeedInv

LEMMA StampKnows ==
    ASSUME FeedFits, FeedInv, NEW r \in Runs, NEW p \in Podcasts, Stamp(r, p)
    PROVE  FeedInv'
<1>1. FeedTyped /\ sync[r][p].pc = "stamp" /\ rows' = rows /\ crowded \subseteq crowded'
  BY DEF FeedFits, Stamp
<1>2. /\ sync'[r][p].pc = "load" /\ sync'[r][p].body = sync[r][p].body
      /\ \A s \in Runs, q \in Podcasts : s # r \/ q # p => sync'[s][q] = sync[s][q]
  BY <1>1, StampGoesOn, Becoming
<1>3. p \notin crowded' => \A s \in Runs : s # r => sync[s][p].pc \notin Reading
  BY DEF Stamp, Ingesting
<1>4. \A q \in Podcasts : q # p => Ingesting(q)' = Ingesting(q) /\ etag'[q] = etag[q]
  BY <1>1, <1>2 DEF Ingesting, Stamp, FeedTyped
<1>5. p \notin crowded' => Ingesting(p)' = {r}
  BY <1>2, <1>3 DEF Ingesting, Reading
<1>6. p \notin skipped' => etag'[p] = sync[r][p].body
  BY <1>1 DEF Stamp, FeedTyped
<1>7. Alone' /\ OneRowPerGuid'
  BY <1>1, <1>4, <1>5 DEF FeedInv, Alone, OneRowPerGuid
<1>8. ASSUME NEW s \in Runs, NEW q \in Podcasts \ crowded' PROVE KnowsRows(s, q)'
  <2>1. CASE s = r /\ q = p
    BY <1>2, <2>1 DEF KnowsRows
  <2>2. CASE s # r \/ q # p
    <3>1. KnowsRows(s, q) /\ sync'[s][q] = sync[s][q]
      BY <1>1, <1>2, <2>2 DEF FeedInv
    <3> QED
      BY <1>1, <3>1 DEF KnowsRows, Passed, ItemAt
  <2> QED
    BY <2>1, <2>2
<1>9. ASSUME NEW q \in Podcasts \ (skipped \cup crowded \cup Confusable)', NEW s \in Runs
      PROVE  Settled(q)' /\ HoldsPassed(s, q)'
  <2>1. CASE q = p
    <3>1. HoldsPassed(s, p)'
      BY <1>2, <1>3, <1>6, <2>1 DEF HoldsPassed
    <3> QED
      BY <1>5, <2>1, <3>1 DEF Settled
  <2>2. CASE q # p
    <3>1. Settled(q) /\ HoldsPassed(s, q)
      BY <1>1, <2>2 DEF FeedInv, Stamp, Confusable
    <3> QED
      BY <1>1, <1>2, <1>4, <2>2, <3>1 DEF Settled, HoldsPassed, Passed, ItemAt, Holds
  <2> QED
    BY <2>1, <2>2
<1> QED
  BY <1>7, <1>8, <1>9 DEF FeedInv, Confusable

LEMMA LoadKnows ==
    ASSUME FeedFits, FeedInv, NEW r \in Runs, NEW p \in Podcasts, Load(r, p)
    PROVE  FeedInv'
<1> DEFINE t == sync[r][p]
<1>1. /\ FeedTyped /\ t \in FeedTasks /\ t.pc = "load" /\ t.body \in DOMAIN Editions[p]
      /\ rows' = rows /\ etag' = etag /\ crowded' = crowded /\ skipped \subseteq skipped'
  BY TaskType DEF FeedFits, TaskFits, Load, Reading
<1>2. CASE (\E tally \in Tallies : Finish(r, p, tally)) /\ p \in skipped'
  BY <1>1, <1>2, FinishType, StandingKeeps DEF FeedsStand, Reading
<1>3. CASE /\ \A s \in Runs, q \in Podcasts : s # r \/ q # p => sync'[s][q] = sync[s][q]
           /\ \/ Items(p, t.body) = <<>> /\ sync'[r][p].pc = "done"
              \/ /\ sync'[r][p].pc = "ingest" /\ sync'[r][p].next = 1 /\ sync'[r][p].body = t.body
                 /\ sync'[r][p].known = {x \in rows : x.podcast = p}
  <2>1. \A q \in Podcasts : Ingesting(q)' \subseteq Ingesting(q)
    BY <1>1, <1>3 DEF Ingesting, Reading
  <2>2. \A q \in Podcasts : q # p => Ingesting(q)' = Ingesting(q)
    BY <1>3 DEF Ingesting
  <2>3. Alone' /\ OneRowPerGuid'
    BY <1>1, <2>1 DEF FeedInv, Alone, OneRowPerGuid
  <2>4. ASSUME NEW s \in Runs, NEW q \in Podcasts, s # r \/ q # p
        PROVE  /\ KnowsRows(s, q) => KnowsRows(s, q)'
               /\ HoldsPassed(s, q) => HoldsPassed(s, q)'
    <3>1. sync'[s][q] = sync[s][q] /\ rows' = rows /\ etag' = etag
      BY <1>1, <1>3, <2>4
    <3>2. \A i : (Passed(s, q, i)' <=> Passed(s, q, i)) /\ ItemAt(s, q, i)' = ItemAt(s, q, i)
      BY <3>1 DEF Passed, ItemAt
    <3>3. KnowsRows(s, q) => KnowsRows(s, q)'
      BY <3>1, <3>2 DEF KnowsRows
    <3>4. HoldsPassed(s, q) => HoldsPassed(s, q)'
      BY <3>1, <3>2 DEF HoldsPassed, Holds
    <3> QED
      BY <3>3, <3>4
  <2>5. KnowsRows(r, p)'
    BY <1>1, <1>3 DEF KnowsRows, RowsNumbered, FeedFits
  <2>6. HoldsPassed(r, p) => HoldsPassed(r, p)'
    <3>1. sync'[r][p].pc = "ingest" => ~\E i \in DOMAIN Editions[p][t.body] : i < 1
      BY <1>1, EditionTypes
    <3> QED
      BY <1>1, <1>3, <3>1 DEF HoldsPassed, Passed, Reading
  <2>7. ASSUME HoldsPassed(r, p), Ingesting(p)' = {} PROVE Settled(p)'
    <3>1. sync'[r][p].pc = "done"
      BY <1>3, <2>7 DEF Ingesting, Reading
    <3>2. Items(p, etag[p]) = <<>>
      BY <1>1, <1>3, <2>7, <3>1 DEF HoldsPassed, Reading
    <3> QED
      BY <1>1, <3>2 DEF Settled
  <2>8. ASSUME NEW q \in Podcasts, q # p, Settled(q) PROVE Settled(q)'
    BY <1>1, <2>2, <2>8 DEF Settled, Holds
  <2>9. ASSUME NEW q \in Podcasts \ (skipped \cup crowded \cup Confusable)', NEW s \in Runs
        PROVE  Settled(q)' /\ HoldsPassed(s, q)'
    <3>1. Settled(q) /\ HoldsPassed(s, q) /\ (q = p => HoldsPassed(r, p))
      BY <1>1 DEF FeedInv, Confusable
    <3> QED
      BY <2>4, <2>6, <2>7, <2>8, <3>1 DEF Settled
  <2>10. ASSUME NEW s \in Runs, NEW q \in Podcasts \ crowded' PROVE KnowsRows(s, q)'
    BY <1>1, <2>4, <2>5 DEF FeedInv
  <2> QED
    BY <2>3, <2>9, <2>10 DEF FeedInv
<1>4. CASE Items(p, t.body) = <<>> /\ Finish(r, p, t.tally)
  BY <1>1, <1>3, <1>4, FinishType DEF FeedTasks
<1>5. CASE /\ Items(p, t.body) # <<>>
           /\ Become(r, p, [t EXCEPT !.pc = "ingest", !.next = 1, !.known = {x \in rows : x.podcast = p}])
  <2> DEFINE new == [t EXCEPT !.pc = "ingest", !.next = 1, !.known = {x \in rows : x.podcast = p}]
  <2>1. {x \in rows : x.podcast = p} \subseteq EpisodeRows
    BY <1>1 DEF FeedTyped
  <2>2. /\ new \in FeedTasks /\ new.pc = "ingest" /\ new.next = 1 /\ new.body = t.body
        /\ new.known = {x \in rows : x.podcast = p}
    BY <1>1, <2>1, Zenon DEF FeedTasks, TaskPhases, InFlight
  <2>3. Become(r, p, new)
    BY <1>5
  <2> HIDE DEF new
  <2> QED
    BY <1>1, <1>3, <2>2, <2>3, Becoming
<1> QED
  BY <1>1, <1>2, <1>4, <1>5, FailType DEF Load

LEMMA NotConfused ==
    ASSUME FeedFits, NEW p \in Podcasts \ Confusable, NEW n \in DOMAIN Editions[p],
           NEW i \in DOMAIN Editions[p][n], NEW j \in DOMAIN Editions[p][n],
           NEW y \in rows, y.podcast = p, Is(y, Editions[p][n][i]), Is(y, Editions[p][n][j])
    PROVE  i = j
<1>1. PICK x \in Published(p) : y.guid = x.guid /\ y.url = x.url
  BY DEF FeedFits, RowsPublished
<1>2. Is(x, Editions[p][n][i]) /\ Is(x, Editions[p][n][j])
  BY <1>1, IsMeans
<1> QED
  BY <1>2 DEF Confusable

\* The row an episode loaded by r stands for.
LEMMA KnownRow ==
    ASSUME FeedFits, NEW r \in Runs, NEW p \in Podcasts, NEW x \in sync[r][p].known
    PROVE  /\ x.podcast = p
           /\ \E y \in rows : /\ y.id = x.id /\ y.podcast = p /\ y.guid = x.guid /\ y.url = x.url
                              /\ \A z \in rows : z.id = x.id => z = y
                              /\ \A item : Is(x, item) <=> Is(y, item)
           /\ x.id # Cardinality(rows) + 1
<1>1. PICK y \in rows : y.id = x.id /\ y.podcast = p /\ x.podcast = p /\ y.guid = x.guid /\ y.url = x.url
  BY DEF FeedFits, TaskFits
<1>2. y.id \in 1..Cardinality(rows) /\ Cardinality(rows) \in Nat
  BY FS_CardinalityType DEF FeedFits, RowsNumbered, FeedTyped
<1>3. \A z \in rows : z.id = x.id => z = y
  BY <1>1 DEF FeedFits, RowsNumbered
<1>4. \A item : Is(x, item) <=> Is(y, item)
  BY <1>1, IsMeans
<1> QED
  BY <1>1, <1>2, <1>3, <1>4

\* A row stands for one item of the edition being read.
LEMMA ReadOnce ==
    ASSUME FeedFits, NEW r \in Runs, NEW p \in Podcasts \ Confusable, sync[r][p].pc = "ingest",
           NEW i \in DOMAIN Editions[p][sync[r][p].body],
           NEW y \in rows, y.podcast = p, Is(y, ItemAt(r, p, i)), Is(y, ItemRead(r, p))
    PROVE  i = sync[r][p].next
<1>1. PICK n : n = sync[r][p].body
  OBVIOUS
<1>2. PICK k : k = sync[r][p].next
  OBVIOUS
<1>3. n \in DOMAIN Editions[p] /\ k \in DOMAIN Editions[p][n] /\ ItemRead(r, p) = Editions[p][n][k]
  BY <1>1, <1>2, IngestReads DEF ItemAt
<1>4. Is(y, Editions[p][n][i]) /\ Is(y, Editions[p][n][k]) /\ i \in DOMAIN Editions[p][n]
  BY <1>1, <1>3 DEF ItemAt
<1>5. i = k
  BY <1>3, <1>4, NotConfused
<1> QED
  BY <1>2, <1>5

\* The item just read is held, and the earlier ones still are.
LEMMA ItemsHeld ==
    ASSUME FeedFits, NEW r \in Runs, NEW p \in Podcasts \ Confusable, sync[r][p].pc = "ingest",
           Keeps(r, p) \/ Heals(r, p) \/ Inserts(r, p), KnowsRows(r, p), HoldsPassed(r, p)
    PROVE  \A i \in DOMAIN Editions[p][sync[r][p].body] :
              i = sync[r][p].next \/ Passed(r, p, i) =>
                 \E z \in rows' : /\ z.podcast = p /\ Is(z, Editions[p][sync[r][p].body][i])
                                   /\ z.art = Editions[p][sync[r][p].body][i].art
<1> DEFINE t == sync[r][p]
           E == Editions[p][t.body]
<1>1. /\ FeedTyped /\ t.body \in DOMAIN Editions[p] /\ t.next \in DOMAIN E /\ t.next \in Nat
      /\ ItemRead(r, p) = E[t.next] /\ ItemRead(r, p) \in FeedItems
  BY IngestReads DEF ItemRead, ItemAt, FeedTasks
<1>2. \A i \in DOMAIN E : Passed(r, p, i) => i # t.next /\ \E w \in rows : w.podcast = p /\ Is(w, E[i]) /\ w.art = E[i].art
  <2>1. ASSUME NEW i \in DOMAIN E, Passed(r, p, i)
        PROVE  \E w \in rows : w.podcast = p /\ Is(w, E[i]) /\ w.art = E[i].art
    <3>1. Holds(p, ItemAt(r, p, i))
      BY <2>1 DEF HoldsPassed, Reading
    <3> QED
      BY <3>1 DEF Holds, ItemAt
  <2>2. ASSUME NEW i \in DOMAIN E, Passed(r, p, i) PROVE i # t.next
    BY <1>1, <2>2 DEF Passed
  <2> QED
    BY <2>1, <2>2
<1>3. SUFFICES ASSUME NEW i \in DOMAIN E, i = t.next \/ Passed(r, p, i)
               PROVE  \E z \in rows' : z.podcast = p /\ Is(z, E[i]) /\ z.art = E[i].art
  OBVIOUS
<1>4. CASE Keeps(r, p)
  <2>1. PICK x \in t.known : Is(x, ItemRead(r, p)) /\ x.art = ItemRead(r, p).art
    BY <1>4 DEF Keeps
  <2>2. PICK y \in rows : y.id = x.id /\ y.podcast = p /\ \A item : Is(x, item) <=> Is(y, item)
    BY KnownRow
  <2>3. y.art = x.art
    <3>1. ASSUME NEW j \in DOMAIN E, Passed(r, p, j), Is(x, ItemAt(r, p, j)) PROVE FALSE
      <4>1. Is(y, ItemAt(r, p, j)) /\ Is(y, ItemRead(r, p))
        BY <2>1, <2>2, <3>1
      <4>2. j = t.next
        BY <2>2, <3>1, <4>1, ReadOnce
      <4> QED
        BY <1>2, <3>1, <4>2
    <3> QED
      BY <2>2, <3>1 DEF KnowsRows
  <2>4. rows' = rows
    BY <1>4 DEF Keeps
  <2>5. CASE i = t.next
    <3>1. y \in rows' /\ y.podcast = p /\ Is(y, ItemRead(r, p)) /\ y.art = ItemRead(r, p).art
      BY <2>1, <2>2, <2>3, <2>4
    <3> QED
      BY <1>1, <2>5, <3>1, Zenon
  <2>6. CASE Passed(r, p, i)
    BY <1>2, <2>4, <2>6
  <2> QED
    BY <1>3, <2>5, <2>6
<1>5. CASE Heals(r, p)
  <2>1. PICK x \in t.known : Is(x, ItemRead(r, p)) /\ rows' = Healed(x.id, ItemRead(r, p).art)
    BY <1>5 DEF Heals
  <2>2. PICK y \in rows : y.id = x.id /\ y.podcast = p /\ \A item : Is(x, item) <=> Is(y, item)
    BY KnownRow
  <2>3. \A w \in rows : \E z \in rows' : SameRow(w, z) /\ IF w.id = x.id THEN z.art = ItemRead(r, p).art ELSE z = w
    <3>1. ItemRead(r, p).art \in Nat /\ p \in Podcasts
      BY <1>1 DEF FeedItems
    <3> QED
      BY <2>1, <3>1, HealedRows
  <2>4. CASE i = t.next
    <3>1. PICK z \in rows' : SameRow(y, z) /\ z.art = ItemRead(r, p).art
      BY <2>2, <2>3
    <3>2. z.podcast = p /\ Is(z, ItemRead(r, p))
      BY <2>1, <2>2, <3>1, IsMeans DEF SameRow
    <3> QED
      BY <1>1, <2>4, <3>1, <3>2, Zenon
  <2>5. CASE Passed(r, p, i)
    <3>1. PICK w \in rows : w.podcast = p /\ Is(w, E[i]) /\ w.art = E[i].art
      BY <1>2, <2>5
    <3>2. w.id # x.id
      <4>1. SUFFICES ASSUME w.id = x.id PROVE FALSE
        OBVIOUS
      <4>2. w = y
        BY <2>2, <4>1 DEF FeedFits, RowsNumbered
      <4>3. Is(y, ItemRead(r, p)) /\ Is(y, ItemAt(r, p, i))
        BY <2>1, <2>2, <3>1, <4>2 DEF ItemAt
      <4>4. i = t.next
        BY <2>2, <4>3, ReadOnce
      <4> QED
        BY <1>2, <2>5, <4>4
    <3>3. w \in rows'
      BY <2>3, <3>2
    <3> QED
      BY <3>1, <3>3
  <2> QED
    BY <1>3, <2>4, <2>5
<1>6. CASE Inserts(r, p)
  <2>1. rows' = rows \cup {NewRow(r, p)}
    BY <1>6 DEF Inserts
  <2>2. /\ NewRow(r, p).podcast = p /\ NewRow(r, p).url = ItemRead(r, p).url
        /\ NewRow(r, p).art = ItemRead(r, p).art
    BY DEF NewRow
  <2>3. Is(NewRow(r, p), ItemRead(r, p))
    BY <2>2, IsMeans
  <2> QED
    BY <1>1, <1>2, <1>3, <2>1, <2>2, <2>3, Zenon
<1> QED
  BY <1>4, <1>5, <1>6

\* What an ingesting task knows survives the item it ingests.
LEMMA StillKnowsRows ==
    ASSUME FeedFits, NEW r \in Runs, NEW p \in Podcasts, Ingest(r, p), KnowsRows(r, p)
    PROVE  KnowsRows(r, p)'
<1> DEFINE t == sync[r][p]
           E == Editions[p][t.body]
<1>1. /\ FeedTyped /\ t.pc = "ingest" /\ t.body \in DOMAIN Editions[p] /\ t.next \in DOMAIN E
      /\ ItemRead(r, p) = E[t.next] /\ t.next \in Nat
  BY IngestReads, Zenon DEF ItemRead, ItemAt, FeedTasks, Ingest
<1>2. CASE sync'[r][p].pc # "ingest"
  BY <1>2 DEF KnowsRows
<1>3. CASE sync'[r][p].pc = "ingest"
  <2>1. sync'[r][p].known = t.known /\ sync'[r][p].body = t.body /\ sync'[r][p].next = t.next + 1
    BY <1>1, <1>3, IngestGoesOn, Becoming DEF GoesOn
  <2>2. \A i \in DOMAIN E : ItemAt(r, p, i)' = E[i] /\ ItemAt(r, p, i) = E[i]
                            /\ (Passed(r, p, i)' <=> Passed(r, p, i) \/ i = t.next)
    BY <1>1, <2>1, EditionTypes, SMTT(30) DEF ItemAt, Passed
  <2>3. ASSUME NEW z \in rows', z.podcast = p
        PROVE  \/ \E x \in t.known : x.id = z.id
               \/ \E i \in DOMAIN E : (Passed(r, p, i) \/ i = t.next) /\ z.guid = E[i].guid
    <3>1. CASE Inserts(r, p) /\ z = NewRow(r, p)
      BY <1>1, <3>1, Zenon DEF NewRow
    <3>2. CASE \E y \in rows : SameRow(y, z)
      <4>1. PICK y \in rows : SameRow(y, z)
        BY <3>2
      <4>2. \/ \E x \in t.known : x.id = y.id
            \/ \E i \in DOMAIN E : Passed(r, p, i) /\ y.guid = ItemAt(r, p, i).guid
        BY <1>1, <2>3, <4>1, Zenon DEF SameRow, KnowsRows
      <4> HIDE DEF t, E
      <4> QED
        BY <2>2, <4>1, <4>2 DEF SameRow
    <3> QED
      BY <1>1, <3>1, <3>2, IngestDoes, RowsAfter
  <2>4. ASSUME NEW x \in t.known, NEW z \in rows', x.id = z.id
        PROVE  \/ x.art = z.art
               \/ \E i \in DOMAIN E : (Passed(r, p, i) \/ i = t.next) /\ Is(x, E[i])
    <3>1. PICK y \in rows : /\ y.id = x.id /\ y.podcast = p /\ \A u \in rows : u.id = x.id => u = y
                            /\ \A item : Is(x, item) <=> Is(y, item)
      BY KnownRow
    <3>2. x.art = y.art \/ \E i \in DOMAIN E : Passed(r, p, i) /\ Is(x, E[i])
      BY <1>1, <2>2, <3>1 DEF KnowsRows
    <3>3. CASE Heals(r, p)
      <4>1. PICK w \in t.known : Is(w, ItemRead(r, p)) /\ rows' = Healed(w.id, ItemRead(r, p).art)
        BY <3>3 DEF Heals
      <4>2. ItemRead(r, p).art \in Nat
        BY <1>1, IngestReads DEF FeedItems
      <4>3. PICK u \in rows : SameRow(u, z) /\ IF u.id = w.id THEN z.art = ItemRead(r, p).art ELSE z = u
        <5>1. \A b \in Healed(w.id, ItemRead(r, p).art) : \E u \in rows :
                 SameRow(u, b) /\ IF u.id = w.id THEN b.art = ItemRead(r, p).art ELSE b = u
          <6>1. sync[r][p].pc = "ingest" /\ w \in sync[r][p].known
            BY <1>1
          <6>2. \A b \in Healed(w.id, ItemRead(r, p).art) : \E u \in rows :
                 /\ SameRow(u, b) /\ (u.podcast # p => b = u)
                 /\ IF u.id = w.id THEN b.art = ItemRead(r, p).art ELSE b = u
            BY <4>2, <6>1, HealedRows
          <6> QED
            BY <6>2
        <5> QED
          BY <4>1, <5>1
      <4>4. u = y
        BY <2>4, <3>1, <4>3 DEF SameRow
      <4>5. CASE y.id = w.id
        <5>1. PICK v \in rows : v.id = w.id /\ \A item : Is(w, item) <=> Is(v, item)
          BY KnownRow
        <5>2. v = y
          BY <3>1, <4>5, <5>1
        <5>3. Is(x, E[t.next])
          BY <1>1, <3>1, <4>1, <5>1, <5>2, Zenon
        <5> QED
          BY <1>1, <5>3
      <4>6. CASE y.id # w.id
        <5>1. z = y
          BY <4>3, <4>4, <4>6
        <5> HIDE DEF t, E
        <5> QED
          BY <3>2, <5>1
      <4> QED
        BY <4>5, <4>6
    <3>4. CASE Inserts(r, p)
      <4>1. z.id # Cardinality(rows) + 1
        BY <2>4, KnownRow
      <4>2. z \in rows
        BY <3>4, <4>1 DEF Inserts, NewRow
      <4> QED
        BY <2>4, <3>1, <3>2, <4>2
    <3>5. CASE UNCHANGED rows
      BY <2>4, <3>1, <3>2, <3>5
    <3> QED
      BY <3>3, <3>4, <3>5, IngestDoes DEF Keeps, Loses
  <2>5. \A z \in rows' : z.podcast = p =>
           \/ \E x \in sync'[r][p].known : x.id = z.id
           \/ \E i \in DOMAIN Editions[p][sync'[r][p].body] : Passed(r, p, i)' /\ z.guid = ItemAt(r, p, i)'.guid
    <3> HIDE DEF t
    <3> QED BY <2>1, <2>2, <2>3
  <2>6. \A x \in sync'[r][p].known, z \in rows' : x.id = z.id =>
           \/ x.art = z.art
           \/ \E i \in DOMAIN Editions[p][sync'[r][p].body] : Passed(r, p, i)' /\ Is(x, ItemAt(r, p, i)')
    <3> HIDE DEF t
    <3> QED BY <2>1, <2>2, <2>4
  <2> QED
    BY <2>5, <2>6 DEF KnowsRows
<1> QED
  BY <1>2, <1>3

\* A guid is not inserted twice.
LEMMA IngestOneRow ==
    ASSUME FeedFits, FeedInv, NEW r \in Runs, NEW p \in Podcasts, Ingest(r, p)
    PROVE  OneRowPerGuid'
<1> DEFINE t == sync[r][p]
           E == Editions[p][t.body]
<1>1. /\ FeedTyped /\ t.pc = "ingest" /\ t.body \in DOMAIN Editions[p] /\ t.next \in DOMAIN E
      /\ ItemRead(r, p) = E[t.next] /\ t.next \in Nat /\ crowded' = crowded
  BY IngestReads, Zenon DEF ItemRead, ItemAt, FeedTasks, Ingest
<1>2. /\ \A u, v \in rows' : u.id = v.id => u = v
      /\ \A z \in rows' : \/ Inserts(r, p) /\ z = NewRow(r, p)
                          \/ \E y \in rows : SameRow(y, z)
  BY <1>1, IngestDoes, RowsAfter DEF RowsNumbered
<1>3. ASSUME Inserts(r, p), p \notin crowded \cup Repeating, NEW y \in rows, y.podcast = p,
             y.guid = ItemRead(r, p).guid, y.guid # NoGuid
      PROVE  FALSE
  <2>1. KnowsRows(r, p)
    BY <1>3 DEF FeedInv
  <2>2. CASE \E x \in t.known : x.id = y.id
    <3>1. PICK x \in t.known : x.id = y.id
      BY <2>2
    <3>2. \A item : Is(x, item) <=> Is(y, item)
      BY <3>1, KnownRow
    <3>3. Is(y, ItemRead(r, p))
      BY <1>3, IsMeans
    <3>4. Is(x, ItemRead(r, p))
      BY <3>2, <3>3
    <3>5. ~Is(x, ItemRead(r, p))
      BY <1>3, <3>1 DEF Inserts
    <3> QED
      BY <3>4, <3>5
  <2>3. CASE \E i \in DOMAIN E : Passed(r, p, i) /\ y.guid = ItemAt(r, p, i).guid
    <3>1. PICK i \in DOMAIN E : Passed(r, p, i) /\ y.guid = ItemAt(r, p, i).guid
      BY <2>3
    <3>2. i # t.next
      BY <1>1, <3>1 DEF Passed
    <3>3. y.guid = E[i].guid /\ y.guid = E[t.next].guid
      BY <1>1, <1>3, <3>1 DEF ItemAt
    <3> QED
      BY <1>1, <1>3, <3>2, <3>3, ZenonT(30) DEF Repeating
  <2>4. \/ \E x \in t.known : x.id = y.id
        \/ \E i \in DOMAIN E : Passed(r, p, i) /\ y.guid = ItemAt(r, p, i).guid
    BY <1>1, <1>3, <2>1, Zenon DEF KnowsRows
  <2> QED
    BY <2>2, <2>3, <2>4
<1>4. SUFFICES ASSUME NEW u \in rows', NEW v \in rows', u.podcast = v.podcast,
                      u.podcast \notin crowded \cup Repeating, u.guid = v.guid, u.guid # NoGuid
               PROVE  u = v
  BY <1>1 DEF OneRowPerGuid, Repeating
<1>5. ASSUME NEW a \in rows', NEW b \in rows', a.podcast = b.podcast,
             a.podcast \notin crowded \cup Repeating, a.guid = b.guid, a.guid # NoGuid,
             Inserts(r, p), a = NewRow(r, p)
      PROVE  a = b
  <2>1. a.podcast = p /\ a.guid = ItemRead(r, p).guid
    BY <1>5 DEF NewRow
  <2>2. \A y \in rows : ~SameRow(y, b)
    BY <1>3, <1>5, <2>1 DEF SameRow
  <2> QED
    BY <1>2, <1>5, <2>2
<1>6. CASE \E x, y \in rows : SameRow(x, u) /\ SameRow(y, v)
  <2>1. PICK x, y \in rows : SameRow(x, u) /\ SameRow(y, v)
    BY <1>6
  <2>2. x = y
    BY <1>4, <2>1, ZenonT(30) DEF SameRow, FeedInv, OneRowPerGuid
  <2> QED
    BY <1>2, <2>1, <2>2 DEF SameRow
<1> QED
  BY <1>2, <1>4, <1>5, <1>6

LEMMA IngestKnows ==
    ASSUME FeedFits, FeedInv, NEW r \in Runs, NEW p \in Podcasts, Ingest(r, p)
    PROVE  FeedInv'
<1> DEFINE t == sync[r][p]
<1>0. PICK n \in DOMAIN Editions[p] : n = t.body
  BY IngestReads, Zenon DEF Ingest
<1> DEFINE E == Editions[p][n]
<1>1. /\ FeedTyped /\ t.pc = "ingest" /\ t.body = n /\ t.next \in DOMAIN E
      /\ t.next \in Nat /\ Items(p, t.body) = E
      /\ crowded' = crowded /\ etag' = etag /\ skipped \subseteq skipped'
  BY <1>0, IngestReads, Zenon DEF FeedTasks, Ingest
<1>2. PICK new \in FeedTasks :
        /\ Become(r, p, new)
        /\ \/ t.next = Len(E) /\ new.pc = "done"
           \/ new.pc = "ingest" /\ new.body = t.body /\ new.next = t.next + 1
  BY <1>1, IngestGoesOn DEF GoesOn
<1>3. sync'[r][p] = new /\ \A s \in Runs, q \in Podcasts : s # r \/ q # p => sync'[s][q] = sync[s][q]
  BY <1>1, <1>2, Becoming
<1>4. Ingesting(p)' \subseteq Ingesting(p) /\ \A q \in Podcasts : q # p => Ingesting(q)' = Ingesting(q)
  BY <1>1, <1>3 DEF Ingesting, Reading
<1>5. Alone' /\ OneRowPerGuid'
  BY <1>1, <1>4, IngestOneRow DEF Alone, FeedInv
<1>6. /\ \A y \in rows : \E z \in rows' : SameRow(y, z) /\ (y.podcast # p => z = y)
      /\ \A z \in rows' : \/ Inserts(r, p) /\ z = NewRow(r, p)
                          \/ \E y \in rows : SameRow(y, z) /\ (y.podcast # p => z = y)
  BY <1>1, IngestDoes, RowsAfter
<1>7. \A y \in rows : y.podcast # p => y \in rows'
  BY <1>6
<1>8. \A z \in rows' : z.podcast # p => z \in rows
  BY <1>6 DEF SameRow, NewRow
<1>9. ASSUME NEW s \in Runs, NEW q \in Podcasts \ crowded' PROVE KnowsRows(s, q)'
  <2>1. KnowsRows(s, q)
    BY <1>1 DEF FeedInv
  <2>2. CASE q = p /\ s = r
    BY <2>1, <2>2, StillKnowsRows
  <2>3. CASE q = p /\ s # r
    <3>1. sync'[s][p].pc \notin Reading
      BY <1>1, <1>3, <2>3 DEF FeedInv, Alone, Ingesting, Reading
    <3> QED
      BY <2>3, <3>1 DEF KnowsRows, Reading
  <2>4. CASE q # p
    <3>1. sync'[s][q] = sync[s][q]
      BY <1>3, <2>4
    <3>2. \A y \in rows' : y.podcast = q => y \in rows
      BY <1>8, <2>4
    <3>3. ASSUME NEW x \in sync[s][q].known, NEW z \in rows', x.id = z.id PROVE z \in rows
      <4>1. PICK y \in rows : y.id = x.id /\ y.podcast = q /\ \A u \in rows : u.id = x.id => u = y
        BY KnownRow
      <4>2. x.id # Cardinality(rows) + 1
        BY KnownRow
      <4>3. PICK u \in rows : SameRow(u, z) /\ (u.podcast # p => z = u)
        BY <1>6, <3>3, <4>2 DEF NewRow
      <4> QED
        BY <2>4, <3>3, <4>1, <4>3 DEF SameRow
    <3> QED
      BY <2>1, <3>1, <3>2, <3>3 DEF KnowsRows, Passed, ItemAt
  <2> QED
    BY <2>2, <2>3, <2>4
<1>10. ASSUME NEW q \in Podcasts \ (skipped \cup crowded \cup Confusable)', NEW s \in Runs
       PROVE  Settled(q)' /\ HoldsPassed(s, q)'
  <2>1. q \in Podcasts \ (skipped \cup crowded \cup Confusable)
    BY <1>1 DEF Confusable
  <2>2. Settled(q) /\ HoldsPassed(s, q)
    BY <2>1 DEF FeedInv
  <2>3. CASE q # p
    BY <1>1, <1>3, <1>4, <1>7, <2>2, <2>3 DEF Settled, HoldsPassed, Passed, ItemAt, Holds
  <2>4. CASE q = p
    <3>1. Keeps(r, p) \/ Heals(r, p) \/ Inserts(r, p)
      BY <2>4, IngestDoes DEF Loses
    <3>2. HoldsPassed(r, p) /\ KnowsRows(r, p)
      BY <2>1, <2>4 DEF FeedInv
    <3>3. \A i \in DOMAIN E : i = t.next \/ Passed(r, p, i) => Holds(p, E[i])'
      <4>1. \A i \in DOMAIN E : i = t.next \/ Passed(r, p, i) =>
               \E z \in rows' : z.podcast = p /\ Is(z, E[i]) /\ z.art = E[i].art
        BY <1>1, <2>1, <2>4, <3>1, <3>2, ItemsHeld
      <4> QED
        BY <4>1 DEF Holds
    <3>4. etag'[p] = t.body
      BY <1>1, <3>2 DEF HoldsPassed, Reading
    <3>5. \A i \in DOMAIN E : i < t.next => Passed(r, p, i)
      BY <1>1 DEF Passed
    <3>6. DOMAIN E = 1..Len(E) /\ Len(E) \in Nat
      BY <1>1, EditionTypes
    <3>7. CASE t.next = Len(E) /\ new.pc = "done"
      <4>1. \A i \in DOMAIN E : Holds(p, E[i])'
        BY <1>1, <3>3, <3>5, <3>6, <3>7
      <4>2. sync'[s][p].pc \notin Reading
        BY <1>1, <1>3, <2>1, <2>4, <3>7 DEF FeedInv, Alone, Ingesting, Reading
      <4> QED
        BY <1>1, <2>4, <3>4, <4>1, <4>2, EditionTypes DEF Settled, HoldsPassed
    <3>8. CASE new.pc = "ingest" /\ new.body = t.body /\ new.next = t.next + 1
      <4>1. Ingesting(p)' # {}
        BY <1>3, <3>8 DEF Ingesting, Reading
      <4>2. CASE s = r
        <5>1. \A i \in DOMAIN E : Passed(r, p, i)' => Passed(r, p, i) \/ i = t.next
          BY <1>1, <1>3, <3>6, <3>8 DEF Passed
        <5>2. \A i \in DOMAIN E : ItemAt(r, p, i)' = E[i]
          BY <1>1, <1>3, <3>8 DEF ItemAt
        <5>3. \A i \in DOMAIN E : Passed(r, p, i)' => Holds(p, ItemAt(r, p, i))'
          BY <3>3, <5>1, <5>2
        <5>4. HoldsPassed(r, p)'
          BY <1>1, <1>3, <3>4, <3>8, <5>3 DEF HoldsPassed
        <5> QED
          BY <2>4, <4>1, <4>2, <5>4 DEF Settled
      <4>3. CASE s # r
        <5>1. sync'[s][p].pc \notin Reading
          BY <1>1, <1>3, <2>1, <2>4, <4>3 DEF FeedInv, Alone, Ingesting, Reading
        <5> QED
          BY <2>4, <4>1, <5>1 DEF Settled, HoldsPassed
      <4> QED
        BY <4>2, <4>3
    <3> QED
      BY <1>2, <3>7, <3>8
  <2> QED
    BY <2>3, <2>4
<1> QED
  BY <1>5, <1>9, <1>10 DEF FeedInv, Confusable

LEMMA ProgressKnows ==
    ASSUME FeedFits, FeedInv, NEW r \in Runs, NEW p \in Podcasts, Progress(r, p)
    PROVE  FeedFits' /\ FeedInv'
<1>1. FeedTyped
  BY DEF FeedFits
<1>2. CASE Answer(r, p)
  <2>1. sync[r][p].pc = "fetch" /\ sync[r][p] \in FeedTasks
    BY <1>1, <1>2, TaskType DEF Answer
  <2>2. \E new \in FeedTasks : Become(r, p, new) /\ new.pc \in {"unchanged", "stamp"}
    <3>1. edition[p] \in Nat
      BY <1>1 DEF FeedTyped
    <3>2. [sync[r][p] EXCEPT !.pc = "unchanged"] \in FeedTasks
          /\ [sync[r][p] EXCEPT !.pc = "stamp", !.body = edition[p]] \in FeedTasks
      BY <2>1, <3>1 DEF FeedTasks, TaskPhases, InFlight
    <3> QED
      BY <1>2, <2>1, <3>2 DEF Answer, FeedTasks
  <2>3. FeedsStand
    BY <1>1, <1>2, <2>1, <2>2, Becoming DEF FeedsStand, Answer, Reading
  <2> QED
    BY <1>2, <2>3, AnswerFits, StandingKeeps
<1>3. CASE FetchError(r, p)
  <2>1. FeedsStand
    BY <1>1, <1>3, FailType, FinishType DEF FeedsStand, FetchError, Reading
  <2> QED
    BY <1>3, <2>1, FetchErrorFits, StandingKeeps
<1>4. CASE StampUnchanged(r, p)
  <2>1. FeedsStand
    <3>1. PICK tally \in Tallies : Finish(r, p, tally)
      BY <1>4, StampsUnchanged
    <3>2. rows' = rows /\ crowded' = crowded /\ sync[r][p].pc = "unchanged"
      BY <1>4 DEF StampUnchanged
    <3> QED
      BY <1>1, <1>4, <3>1, <3>2, FinishType, StampsUnchanged DEF FeedsStand, Reading
  <2> QED
    BY <1>4, <2>1, StampUnchangedFits, StandingKeeps
<1> QED
  BY <1>2, <1>3, <1>4, StampFits, StampKnows, LoadFits, LoadKnows, IngestFits, IngestKnows DEF Progress

-----------------------------------------------------------------------------
(* Runs and their jobs.  First, steps of one run that write no job.         *)

\* The other runs, their feeds and what they have on its way.
OthersStand(r) ==
    \A s \in Runs : s # r => /\ run'[s] = run[s] /\ sync'[s] = sync[s]
                             /\ queue'[s] = queue[s] /\ folding'[s] = folding[s]

LEMMA RunStands ==
    ASSUME NEW s, RunFits(s), run'[s] = run[s], sync'[s] = sync[s], queue'[s] = queue[s],
           folding'[s] = folding[s],
           run[s].pc = "list" /\ run[s].job \in DOMAIN jobs' =>
              run[s].job \in DOMAIN jobs /\ jobs'[run[s].job].outcomes = jobs[run[s].job].outcomes
    PROVE  RunFits(s)'
<1>1. Busy(s)' = Busy(s) /\ (Drained(s)' <=> Drained(s))
  BY DEF Busy, Drained
<1> QED
  BY <1>1 DEF RunFits

LEMMA OneRunMoves ==
    ASSUME JobsFit, JobInv, JobsTyped', NEW r \in Runs, OthersStand(r), jobs' = jobs,
           marred' = marred, cut \subseteq cut', folding'[r] = folding[r],
           run'[r].job = run[r].job \/ (run'[r].job = 0 /\ folding[r] = <<>>),
           RunFits(r)', StillRunning(r)', ReportedOnce(r)'
    PROVE  JobsFit' /\ JobInv'
<1>1. 0 \notin DOMAIN jobs
  BY DEF JobsFit, JobsTyped
<1>2. OwnJobs'
  BY DEF JobInv, OwnJobs, OthersStand
<1>3. ASSUME NEW s \in Runs PROVE RunFits(s)' /\ StillRunning(s)' /\ ReportedOnce(s)'
  <2>1. CASE s = r
    BY <2>1
  <2>2. CASE s # r
    <3>1. RunFits(s) /\ StillRunning(s) /\ ReportedOnce(s)
      BY DEF JobsFit, JobInv
    <3>2. Busy(s)' = Busy(s) /\ (Drained(s)' <=> Drained(s)) /\ run'[s] = run[s] /\ queue'[s] = queue[s]
      BY <2>2 DEF OthersStand, Busy, Drained
    <3>3. RunFits(s)'
      BY <2>2, <3>1, RunStands DEF OthersStand
    <3>4. StillRunning(s)' /\ ReportedOnce(s)'
      BY <3>1, <3>2 DEF StillRunning, ReportedOnce
    <3> QED
      BY <3>3, <3>4
  <2> QED
    BY <2>1, <2>2
<1>4. \A s \in Runs, j \in DOMAIN jobs : (Adds(s, j)' <=> Adds(s, j)) /\ (Adds(s, j) => folding'[s] = folding[s])
  BY <1>1 DEF Adds, OthersStand
<1>5. \A j \in DOMAIN jobs \ (marred \cup cut') : TotalsFollow(j)'
  BY <1>4 DEF JobInv, TotalsFollow
<1> QED
  BY <1>2, <1>3, <1>5 DEF JobsFit, JobInv

LEMMA QuietRun ==
    ASSUME JobsFit, NEW r \in Runs, run[r].pc \notin {"sync", "drain"}
    PROVE  Drained(r) /\ Busy(r) = {}
BY DEF JobsFit, RunFits

\* A run with nothing on its way turns to something else, with its job or with none.
LEMMA RunTurns ==
    ASSUME JobsFit, JobInv, NEW r \in Runs, NEW new \in RunTasks, run' = [run EXCEPT ![r] = new],
           Drained(r), run[r].pc # "sync", new.pc # "sync", new.job \in {run[r].job, 0},
           new.pc = "list" => new.job = 0, new.keep \subseteq 1..lastId,
           UNCHANGED <<sync, jobVars, queue, folding, marred, cut>>,
           handle' \in Runs \cup {NoRun}, signalled' \subseteq Runs
    PROVE  JobsFit' /\ JobInv'
<1>1. /\ JobsTyped /\ RunFits(r) /\ StillRunning(r) /\ ReportedOnce(r) /\ lastId \in Nat
      /\ 0 \notin DOMAIN jobs
  BY JobsAssumption, SMTT(30) DEF JobsFit, JobInv, JobsTyped
<1>2. run' \in [Runs -> RunTasks] /\ run'[r] = new /\ \A s \in Runs : s # r => run'[s] = run[s]
  BY <1>1 DEF JobsTyped
<1>3. new.job \in Nat /\ new.job <= lastId
  BY <1>1 DEF RunTasks, JobsTyped
<1>4. JobsTyped'
  BY <1>1, <1>2, <1>3 DEF JobsTyped, jobVars
<1>5. Busy(r)' = Busy(r) /\ Drained(r)'
  BY DEF Busy, Drained
<1>6. RunFits(r)'
  BY <1>1, <1>2, <1>5 DEF RunFits, jobVars
<1>7. StillRunning(r)' /\ ReportedOnce(r)'
  BY <1>1, <1>2, <1>5 DEF StillRunning, ReportedOnce, jobVars
<1>8. OthersStand(r) /\ folding[r] = <<>>
  BY <1>2 DEF OthersStand, Drained
<1>9. run'[r].job = run[r].job \/ (run'[r].job = 0 /\ folding[r] = <<>>)
  BY <1>2, <1>8
<1>10. jobs' = jobs /\ marred' = marred /\ cut \subseteq cut' /\ folding'[r] = folding[r]
  BY DEF jobVars
<1> QED
  BY <1>4, <1>6, <1>7, <1>8, <1>9, <1>10, OneRunMoves

LEMMA IdleType ==
    /\ Idle \in RunTasks /\ Idle.job = 0 /\ Idle.pc = "idle" /\ Idle.keep = {}
    /\ \A kind \in {"loop", "poll", "job"}, scope \in SUBSET Podcasts, job \in Nat :
          LET t == [Idle EXCEPT !.kind = kind, !.pc = "list", !.job = job, !.scope = scope]
          IN  t \in RunTasks /\ t.job = job /\ t.pc = "list" /\ t.keep = {}
    /\ LET t == [Idle EXCEPT !.kind = "loop", !.pc = "waiting"]
       IN  t \in RunTasks /\ t.job = 0 /\ t.pc = "waiting" /\ t.keep = {}
<1>1. /\ Idle \in RunTasks /\ Idle.kind = "none" /\ Idle.job = 0 /\ Idle.pc = "idle" /\ Idle.keep = {}
      /\ Idle.scope = {} /\ Idle.ok = TRUE
  BY DEF Idle, RunTasks, RunPhases
<1>2. ASSUME NEW kind \in {"loop", "poll", "job"}, NEW scope \in SUBSET Podcasts, NEW job \in Nat
      PROVE  LET t == [Idle EXCEPT !.kind = kind, !.pc = "list", !.job = job, !.scope = scope]
             IN  t \in RunTasks /\ t.job = job /\ t.pc = "list" /\ t.keep = {}
  BY <1>1 DEF RunTasks, RunPhases
<1>3. LET t == [Idle EXCEPT !.kind = "loop", !.pc = "waiting"]
      IN  t \in RunTasks /\ t.job = 0 /\ t.pc = "waiting" /\ t.keep = {}
  BY <1>1 DEF RunTasks, RunPhases
<1> QED
  BY <1>1, <1>2, <1>3, Zenon

LEMMA StartMoves ==
    ASSUME JobsFit, JobInv, NEW r \in Runs, Start(r)
    PROVE  JobsFit' /\ JobInv'
<1> DEFINE new == [Idle EXCEPT !.kind = "loop", !.pc = "waiting"]
<1>1. new \in RunTasks /\ new.job = 0 /\ new.pc = "waiting" /\ new.keep = {}
  BY IdleType, Zenon
<1>2. /\ run' = [run EXCEPT ![r] = new] /\ run[r].pc = "idle" /\ handle' = r /\ signalled' = signalled
      /\ UNCHANGED <<sync, jobVars, queue, folding, marred, cut>>
  BY DEF Start, Free, feedVars
<1>3. Drained(r) /\ signalled \subseteq Runs
  BY <1>2, QuietRun DEF JobsFit, JobsTyped
<1> HIDE DEF new
<1> QED
  BY <1>1, <1>2, <1>3, RunTurns

LEMMA ExitMoves ==
    ASSUME JobsFit, JobInv, NEW r \in Runs, Exit(r)
    PROVE  JobsFit' /\ JobInv'
<1>1. /\ run' = [run EXCEPT ![r] = Idle] /\ run[r].pc = "waiting" /\ handle' = handle
      /\ signalled' \subseteq signalled /\ UNCHANGED <<sync, jobVars, queue, folding, marred, cut>>
  BY DEF Exit, feedVars
<1>2. Drained(r) /\ signalled \subseteq Runs /\ handle \in Runs \cup {NoRun}
  BY <1>1, QuietRun DEF JobsFit, JobsTyped
<1> QED
  BY <1>1, <1>2, IdleType, RunTurns, Zenon

LEMMA EndMoves ==
    ASSUME JobsFit, JobInv, NEW r \in Runs, EndRun(r) \/ EndDrain(r)
    PROVE  JobsFit' /\ JobInv'
<1>1. PICK new \in {Idle, [Idle EXCEPT !.kind = "loop", !.pc = "waiting"]} : run' = [run EXCEPT ![r] = new]
  BY DEF EndRun, EndDrain
<1>2. new \in RunTasks /\ new.job = 0 /\ new.pc \in {"waiting", "idle"} /\ new.keep = {}
  BY <1>1, IdleType, ZenonT(30)
<1>3. Drained(r) /\ run[r].pc # "sync" /\ signalled \subseteq Runs /\ handle \in Runs \cup {NoRun}
  BY QuietRun DEF EndRun, EndDrain, JobsFit, JobsTyped
<1>4. UNCHANGED <<sync, jobVars, queue, folding, marred, cut, handle, signalled>>
  BY DEF EndRun, EndDrain, feedVars
<1> QED
  BY <1>1, <1>2, <1>3, <1>4, RunTurns

LEMMA CreateNoneMoves ==
    ASSUME JobsFit, JobInv, NEW r \in Runs, NEW kind \in {"loop", "poll"}, CreateNone(r, kind),
           run[r].pc \in {"idle", "waiting"},
           UNCHANGED <<sync, queue, folding, handle, signalled, marred, cut>>
    PROVE  JobsFit' /\ JobInv'
<1> DEFINE new == [Idle EXCEPT !.kind = kind, !.pc = "list", !.scope = Podcasts]
<1>1. new \in RunTasks /\ new.job = 0 /\ new.pc = "list" /\ new.keep = {}
  BY DEF Idle, RunTasks, RunPhases
<1>2. run' = [run EXCEPT ![r] = new] /\ UNCHANGED jobVars
  BY DEF CreateNone
<1>3. Drained(r) /\ signalled \subseteq Runs /\ handle \in Runs \cup {NoRun}
  BY QuietRun DEF JobsFit, JobsTyped
<1> HIDE DEF new
<1> QED
  BY <1>1, <1>2, <1>3, RunTurns

LEMMA SelectKeptMoves ==
    ASSUME JobsFit, JobInv, NEW r \in Runs, SelectKept(r)
    PROVE  JobsFit' /\ JobInv'
<1>1. PICK pc \in {"recover", "delete"}, keep \in {run[r].keep, Newest(MaxJobs)} :
         run' = [run EXCEPT ![r].pc = pc, ![r].keep = keep]
  <2>1. CASE run' = [run EXCEPT ![r].pc = IF Cardinality(Newest(MaxJobs)) < MaxJobs
                                         THEN "recover" ELSE "delete",
                                ![r].keep = Newest(MaxJobs)]
    BY <2>1
  <2>2. CASE GoTo(r, "recover")
    <3>1. run' = [run EXCEPT ![r].pc = "recover", ![r].keep = run[r].keep]
      BY <2>2 DEF GoTo, JobsFit, JobsTyped, RunTasks
    <3> QED BY <3>1
  <2> QED
    BY <2>1, <2>2 DEF SelectKept
<1> DEFINE new == [run[r] EXCEPT !.pc = pc, !.keep = keep]
<1>2. /\ run[r] \in RunTasks /\ run \in [Runs -> RunTasks] /\ run[r].keep \subseteq 1..lastId
      /\ DOMAIN jobs \subseteq 1..lastId /\ lastId \in Nat
  BY JobsAssumption DEF JobsFit, JobsTyped
<1>3. keep \subseteq 1..lastId
  BY <1>1, <1>2 DEF Newest
<1>4. /\ new \in RunTasks /\ new.job = run[r].job /\ new.pc = pc /\ new.keep = keep
  <2>1. keep \in SUBSET Nat /\ pc \in RunPhases
    BY <1>2, <1>3 DEF RunPhases
  <2> QED
    BY <1>2, <2>1 DEF RunTasks
<1>5. run' = [run EXCEPT ![r] = new]
  BY <1>1, <1>2
<1>6. Drained(r) /\ signalled \subseteq Runs /\ handle \in Runs \cup {NoRun} /\ run[r].pc = "select"
  BY QuietRun DEF JobsFit, JobsTyped, SelectKept
<1>7. UNCHANGED <<sync, jobVars, queue, folding, handle, signalled, marred, cut>>
  <2>1. sync' = sync
    BY DEF SelectKept
  <2> QED BY <2>1 DEF SelectKept
<1> HIDE DEF new
<1> QED
  BY <1>3, <1>4, <1>5, <1>6, <1>7, RunTurns

\* The task of a run is dropped.
LEMMA DroppedMoves ==
    ASSUME FeedFits, JobsFit, JobInv, NEW r \in Runs, Dropped(r),
           handle' \in Runs \cup {NoRun}, signalled' = signalled
    PROVE  JobsFit' /\ JobInv'
<1>1. /\ JobsTyped /\ RunFits(r) /\ StillRunning(r) /\ ReportedOnce(r) /\ lastId \in Nat
      /\ 0 \notin DOMAIN jobs /\ run[r] \in RunTasks /\ run \in [Runs -> RunTasks]
  BY JobsAssumption, SMTT(30) DEF JobsFit, JobInv, JobsTyped
<1> DEFINE new == IF queue[r] = <<>> /\ folding[r] = <<>> THEN Idle
                  ELSE [run[r] EXCEPT !.kind = "none", !.pc = "drain"]
<1>2. /\ new \in RunTasks /\ new.pc \in {"idle", "drain"} /\ new.keep \subseteq run[r].keep
      /\ IF Drained(r) THEN new.job = 0 ELSE new.job = run[r].job /\ new.pc = "drain"
  BY <1>1, IdleType, ZenonT(30) DEF RunTasks, RunPhases, Drained
<1>3. run' = [run EXCEPT ![r] = new] /\ jobs' = jobs /\ lastId' = lastId /\ marred' = marred
      /\ queue' = queue /\ folding' = folding
  BY DEF Dropped, jobVars
<1>4. /\ cut \subseteq cut' /\ cut' \subseteq 1..lastId
  BY <1>1 DEF Dropped, JobsTyped
<1> HIDE DEF new
<1>5. run' \in [Runs -> RunTasks] /\ run'[r] = new /\ \A s \in Runs : s # r => run'[s] = run[s]
  BY <1>1, <1>2, <1>3
<1>6. JobsTyped'
  BY <1>1, <1>2, <1>3, <1>4, <1>5 DEF JobsTyped
<1>7. sync' = [sync EXCEPT ![r] = [p \in Podcasts |-> NoTask]] /\ \A p \in Podcasts : sync'[r][p] = NoTask
  BY DEF Dropped, FeedFits, FeedTyped
<1>8. OthersStand(r)
  BY <1>3, <1>5, <1>7 DEF OthersStand
<1>9. Busy(r)' = {} /\ Cardinality(Busy(r)') = 0 /\ (Drained(r)' <=> Drained(r))
  BY <1>3, <1>7, NoTaskType, FS_EmptySet, ZenonT(30) DEF Busy, Drained
<1>10. RunFits(r)'
  <2>1. Cardinality(Busy(r)) \in Nat /\ Len(queue[r]) \in Nat /\ Len(folding[r]) \in Nat
        /\ Cardinality(Podcasts) \in Nat
    <3>1. IsFiniteSet(Podcasts) /\ Busy(r) \subseteq Podcasts
      BY EditionsAssumption DEF Busy
    <3> QED
      BY <1>1, <3>1, FS_Subset, FS_CardinalityType DEF JobsTyped
  <2>2. Len(queue[r]) + Len(folding[r]) <= Cardinality(Podcasts)
    <3>1. Cardinality(Busy(r)) + Len(queue[r]) + Len(folding[r]) <= Cardinality(Podcasts)
      BY <1>1 DEF RunFits
    <3>2. \A a, b, c, n \in Nat : a + b + c <= n => b + c <= n
      OBVIOUS
    <3> QED
      BY <2>1, <3>1, <3>2
  <2> QED
    BY <1>1, <1>2, <1>3, <1>5, <1>9, <2>1, <2>2 DEF RunFits
<1>11. StillRunning(r)' /\ ReportedOnce(r)'
  BY <1>1, <1>2, <1>3, <1>5, <1>9 DEF StillRunning, ReportedOnce
<1>12. run'[r].job = run[r].job \/ (run'[r].job = 0 /\ folding[r] = <<>>)
  <2>1. CASE Drained(r)
    BY <1>2, <1>5, <2>1 DEF Drained
  <2>2. CASE ~Drained(r)
    BY <1>2, <1>5, <2>2
  <2> QED
    BY <2>1, <2>2
<1> QED
  BY <1>3, <1>4, <1>6, <1>8, <1>10, <1>11, <1>12, OneRunMoves

LEMMA RestartMoves ==
    ASSUME JobsFit, JobInv, Restart
    PROVE  JobsFit' /\ JobInv'
<1>1. /\ JobsTyped /\ lastId \in Nat /\ 0 \notin DOMAIN jobs
  BY JobsAssumption DEF JobsFit, JobsTyped
<1>2. /\ \A r \in Runs : run'[r] = Idle /\ queue'[r] = <<>> /\ folding'[r] = <<>>
      /\ \A r \in Runs, p \in Podcasts : sync'[r][p] = NoTask
      /\ jobs' = jobs /\ lastId' = lastId /\ marred' = marred
  BY DEF Restart, jobVars
<1>3. cut \subseteq cut' /\ cut' \subseteq 1..lastId
      /\ \A r \in Runs : run[r].job \in DOMAIN jobs => run[r].job \in cut'
  <2>1. cut' = cut \cup {run[r].job : r \in {x \in Runs : run[x].job \in DOMAIN jobs}}
    BY DEF Restart
  <2> QED
    BY <1>1, <2>1 DEF JobsTyped
<1>4. JobsTyped'
  <2>1. /\ run' \in [Runs -> RunTasks] /\ queue' \in [Runs -> Seq(Outcomes)]
        /\ folding' \in [Runs -> Seq(Tallies)] /\ handle' = NoRun /\ signalled' = {}
    <3>1. <<>> \in Seq(Outcomes) /\ <<>> \in Seq(Tallies)
      OBVIOUS
    <3>2. /\ run' = [r \in Runs |-> Idle] /\ queue' = [r \in Runs |-> <<>>]
          /\ folding' = [r \in Runs |-> <<>>] /\ handle' = NoRun /\ signalled' = {}
      BY DEF Restart
    <3> QED
      BY <3>1, <3>2, IdleType, Zenon
  <2>2. \A r \in Runs : run'[r].job <= lastId /\ run'[r].keep \subseteq 1..lastId
    BY <1>1, <1>2 DEF Idle
  <2> QED
    BY <1>1, <1>2, <1>3, <2>1, <2>2 DEF JobsTyped
<1>5. ASSUME NEW r \in Runs PROVE RunFits(r)' /\ StillRunning(r)' /\ ReportedOnce(r)'
  <2>1. Busy(r)' = {} /\ Cardinality(Busy(r)') = 0 /\ Cardinality(Podcasts) \in Nat
    BY <1>2, NoTaskType, FS_EmptySet, FS_CardinalityType, EditionsAssumption, ZenonT(30) DEF Busy
  <2>2. run'[r].job = 0 /\ run'[r].pc = "idle" /\ Drained(r)'
    BY <1>2, IdleType, Zenon DEF Drained
  <2>3. Len(queue'[r]) = 0 /\ Len(folding'[r]) = 0
    BY <1>2
  <2>4. RunFits(r)'
    BY <1>1, <1>2, <2>1, <2>2, <2>3 DEF RunFits
  <2>5. StillRunning(r)' /\ ReportedOnce(r)'
    BY <1>1, <1>2, <2>2 DEF StillRunning, ReportedOnce, DistinctFeeds
  <2> QED
    BY <2>4, <2>5
<1>6. OwnJobs'
  BY <1>2, IdleType, Zenon DEF OwnJobs
<1>7. ASSUME NEW j \in DOMAIN jobs \ (marred \cup cut') PROVE TotalsFollow(j)'
  <2>1. \A r \in Runs : ~Adds(r, j) /\ ~Adds(r, j)'
    BY <1>2, <1>3 DEF Adds
  <2>2. TotalsFollow(j)
    BY <1>3 DEF JobInv
  <2> QED
    BY <1>2, <2>1, <2>2 DEF TotalsFollow
<1> QED
  BY <1>2, <1>4, <1>5, <1>6, <1>7 DEF JobsFit, JobInv

\* A step that leaves runs, jobs and what feeds are busy.
LEMMA RunsStand ==
    ASSUME JobsFit, JobInv, UNCHANGED <<jobVars, taskVars, marred, cut>>,
           \A r \in Runs : Busy(r)' = Busy(r),
           handle' \in Runs \cup {NoRun}, signalled' \subseteq Runs
    PROVE  JobsFit' /\ JobInv'
<1>1. JobsTyped'
  BY DEF JobsFit, JobsTyped, jobVars, taskVars
<1>2. \A r \in Runs : RunFits(r)' /\ StillRunning(r)' /\ ReportedOnce(r)'
  BY DEF JobsFit, JobInv, RunFits, StillRunning, ReportedOnce, Drained, jobVars, taskVars
<1>3. OwnJobs' /\ \A j \in DOMAIN jobs' \ (marred \cup cut)' : TotalsFollow(j)'
  BY DEF JobInv, OwnJobs, TotalsFollow, Adds, jobVars, taskVars
<1> QED
  BY <1>1, <1>2, <1>3 DEF JobsFit, JobInv, jobVars

\* A feed being synced goes on or is done.
LEMMA ProgressGoesOn ==
    ASSUME FeedFits, NEW r \in Runs, NEW p \in Podcasts, Progress(r, p)
    PROVE  /\ sync[r][p].pc # "none"
           /\ \E new \in FeedTasks : Become(r, p, new) /\ new.pc # "none"
<1>1. FeedTyped
  BY DEF FeedFits
<1>2. (\E tally \in Tallies : Finish(r, p, tally)) => \E new \in FeedTasks : Become(r, p, new) /\ new.pc # "none"
  <2>1. SUFFICES ASSUME NEW tally \in Tallies, Finish(r, p, tally)
                 PROVE  \E new \in FeedTasks : Become(r, p, new) /\ new.pc # "none"
    OBVIOUS
  <2> DEFINE new == [NoTask EXCEPT !.pc = "done", !.tally = tally]
  <2>2. new \in FeedTasks /\ new.pc = "done"
    BY NoTaskType, Zenon
  <2> QED
    BY <2>1, <2>2 DEF Finish
<1>3. CASE Answer(r, p)
  <2>1. sync[r][p].pc = "fetch" /\ sync[r][p] \in FeedTasks /\ edition[p] \in Nat
    BY <1>1, <1>3, TaskType DEF Answer, FeedTyped
  <2>2. [sync[r][p] EXCEPT !.pc = "unchanged"] \in FeedTasks
        /\ [sync[r][p] EXCEPT !.pc = "stamp", !.body = edition[p]] \in FeedTasks
    BY <2>1 DEF FeedTasks, TaskPhases, InFlight
  <2> QED
    BY <1>3, <2>1, <2>2 DEF Answer, FeedTasks
<1>4. CASE FetchError(r, p)
  BY <1>1, <1>2, <1>4, FailType DEF FetchError
<1>5. CASE StampUnchanged(r, p)
  BY <1>1, <1>2, <1>5, FailType, NoTaskType, Zenon DEF StampUnchanged
<1>6. CASE Stamp(r, p)
  BY <1>6, StampGoesOn, Zenon DEF Stamp
<1>7. CASE Load(r, p)
  <2> DEFINE t == sync[r][p]
             new == [t EXCEPT !.pc = "ingest", !.next = 1, !.known = {x \in rows : x.podcast = p}]
  <2>1. t \in FeedTasks /\ t.pc = "load" /\ t.tally \in Tallies /\ {x \in rows : x.podcast = p} \subseteq EpisodeRows
    BY <1>1, <1>7, TaskType DEF Load, FeedTasks, FeedTyped
  <2>2. new \in FeedTasks /\ new.pc = "ingest"
    BY <2>1, Zenon DEF FeedTasks, TaskPhases, InFlight
  <2>3. (\E tally \in Tallies : Finish(r, p, tally)) \/ Become(r, p, new)
    BY <1>1, <1>7, <2>1, FailType DEF Load
  <2> HIDE DEF new
  <2> QED
    BY <1>2, <2>1, <2>2, <2>3
<1>8. CASE Ingest(r, p)
  BY <1>8, IngestGoesOn, Zenon DEF GoesOn, Ingest
<1> QED
  BY <1>3, <1>4, <1>5, <1>6, <1>7, <1>8 DEF Progress

\* A feed's task takes another form and stays busy.
LEMMA StaysBusy ==
    ASSUME FeedFits, JobsFit, JobInv, NEW r \in Runs, NEW p \in Podcasts, NEW new \in FeedTasks,
           Become(r, p, new), sync[r][p].pc # "none", new.pc # "none", UNCHANGED pollVars
    PROVE  JobsFit' /\ JobInv'
<1>1. \A s \in Runs : Busy(s)' = Busy(s)
  BY Becoming DEF Busy, FeedFits
<1> QED
  BY <1>1, RunsStand DEF pollVars, JobsFit, JobsTyped

LEMMA SyncMoves ==
    ASSUME FeedFits, FeedInv, JobsFit, JobInv, NEW r \in Runs, NEW p \in Podcasts, Sync(r, p)
    PROVE  FeedFits' /\ FeedInv' /\ JobsFit' /\ JobInv'
BY ProgressKnows, ProgressGoesOn, StaysBusy DEF Sync

LEMMA TakeMoves ==
    ASSUME FeedFits, FeedInv, JobsFit, JobInv, NEW r \in Runs, NEW p \in Podcasts, Take(r, p)
    PROVE  FeedFits' /\ FeedInv' /\ JobsFit' /\ JobInv'
<1> DEFINE new == [sync[r][p] EXCEPT !.pc = "fetch"]
<1>1. /\ FeedTyped /\ sync[r][p] \in FeedTasks /\ sync[r][p].pc = "listed" /\ sync[r][p].known = {}
      /\ rows' = rows
  BY TaskType DEF FeedFits, TaskFits, Take, Listed
<1>2. new \in FeedTasks /\ new.pc = "fetch" /\ new.known = {}
  BY <1>1 DEF FeedTasks, TaskPhases, InFlight
<1> HIDE DEF new
<1>3. Become(r, p, new) /\ UNCHANGED pollVars
  BY DEF Take, new
<1>4. FeedTyped'
  BY <1>1, <1>2, <1>3, Becoming DEF FeedTyped, Take
<1>5. TaskFits(r, p)'
  BY <1>1, <1>2, <1>3, Becoming DEF TaskFits, Reading
<1>6. FeedFits'
  BY <1>1, <1>2, <1>3, <1>4, <1>5, Becoming, FitsKept
<1>7. FeedsStand
  BY <1>1, <1>2, <1>3, Becoming DEF FeedsStand, Take, Reading
<1> QED
  BY <1>1, <1>2, <1>3, <1>6, <1>7, StandingKeeps, StaysBusy

\* Steps that write no feed.
LEMMA FeedsUntouched ==
    ASSUME FeedFits, FeedInv, Trouble \/ trouble' = trouble,
           UNCHANGED <<followed, edition, etag, due, rows, sync, crowded, skipped>>
    PROVE  FeedFits' /\ FeedInv'
<1>1. FeedTyped'
  BY TroubleType DEF FeedFits, FeedTyped
<1>2. FeedsStand
  BY DEF FeedsStand
<1> QED
  BY <1>1, <1>2, FitsKept, StandingKeeps

LEMMA OutsideMoves ==
    ASSUME FeedFits, FeedInv, JobsFit, JobInv, Outside, UNCHANGED pollVars
    PROVE  FeedFits' /\ FeedInv' /\ JobsFit' /\ JobInv'
<1>1. UNCHANGED <<followed, etag, rows, sync, trouble, crowded, skipped>>
  BY DEF Outside, Publish, Elapse
<1>2. /\ \A p \in Podcasts : edition'[p] \in DOMAIN Editions[p]
      /\ edition' \in [Podcasts -> Nat] /\ due' \subseteq Podcasts
  <2>1. CASE \E p \in Podcasts : Publish(p)
    <3>1. PICK p \in Podcasts : edition[p] < Len(Editions[p]) /\ edition' = [edition EXCEPT ![p] = @ + 1] /\ due' = due
      BY <2>1 DEF Publish
    <3>2. Editions[p] \in Seq(Seq(FeedItems)) /\ edition[p] \in DOMAIN Editions[p]
          /\ edition \in [Podcasts -> Nat] /\ \A q \in Podcasts : edition[q] \in DOMAIN Editions[q]
      BY EditionsAssumption DEF FeedFits, FeedTyped
    <3>3. edition[p] + 1 \in DOMAIN Editions[p]
      BY <3>1, <3>2
    <3> QED
      BY <3>1, <3>2, <3>3, SMTT(30) DEF FeedFits, FeedTyped
  <2>2. CASE \E p \in Podcasts : Elapse(p)
    BY <2>2 DEF Elapse, FeedFits, FeedTyped
  <2> QED
    BY <2>1, <2>2 DEF Outside
<1>3. FeedTyped'
  BY <1>1, <1>2 DEF FeedFits, FeedTyped
<1>4. FeedsStand /\ \A r \in Runs : Busy(r)' = Busy(r)
  BY <1>1 DEF FeedsStand, Busy
<1> QED
  BY <1>1, <1>3, <1>4, FitsKept, StandingKeeps, RunsStand DEF pollVars, JobsFit, JobsTyped

-----------------------------------------------------------------------------
(* Sums of outcomes.                                                       *)

\* f adds up the first n outcomes of s, for every n up to m.
AddsUp(f, s, m) == f = [n \in 0..m |-> IF n = 0 THEN Zero ELSE Sum(f[n - 1], s[n].tally)]

LEMMA AddsUpMeans ==
    ASSUME NEW f, NEW s, NEW m \in Nat, AddsUp(f, s, m)
    PROVE  f[0] = Zero /\ \A n \in 1..m : f[n] = Sum(f[n - 1], s[n].tally)
<1> DEFINE rhs == [n \in 0..m |-> IF n = 0 THEN Zero ELSE Sum(f[n - 1], s[n].tally)]
<1>1. f = rhs
  BY DEF AddsUp
<1>2. rhs[0] = Zero /\ \A n \in 1..m : rhs[n] = Sum(f[n - 1], s[n].tally)
  OBVIOUS
<1> QED
  BY <1>1, <1>2

LEMMA AddsUpExists ==
    ASSUME NEW s, NEW m \in Nat
    PROVE  \E f : AddsUp(f, s, m)
<1> DEFINE S == {n \in Nat : \E f : AddsUp(f, s, n)}
<1>1. 0 \in S
  <2> DEFINE f == [n \in 0..0 |-> Zero]
  <2>1. AddsUp(f, s, 0)
    BY DEF AddsUp
  <2> QED
    BY <2>1
<1>2. ASSUME NEW n \in Nat, n \in S PROVE n + 1 \in S
  <2>1. PICK f : AddsUp(f, s, n)
    BY <1>2
  <2> DEFINE g == [k \in 0..(n + 1) |-> IF k = n + 1 THEN Sum(f[n], s[k].tally) ELSE f[k]]
             h == [k \in 0..(n + 1) |-> IF k = 0 THEN Zero ELSE Sum(g[k - 1], s[k].tally)]
  <2>2. ASSUME NEW k \in 0..(n + 1) PROVE g[k] = h[k]
    <3>1. CASE k = n + 1
      <4>1. g[k] = Sum(f[n], s[k].tally) /\ g[k - 1] = f[n]
        BY <3>1
      <4> QED
        BY <3>1, <4>1
    <3>2. CASE k # n + 1 /\ k # 0
      <4>1. k \in 1..n /\ g[k] = f[k] /\ g[k - 1] = f[k - 1]
        BY <3>2
      <4>2. f[k] = Sum(f[k - 1], s[k].tally)
        BY <2>1, <4>1, AddsUpMeans
      <4> QED
        BY <3>2, <4>1, <4>2
    <3>3. CASE k = 0
      BY <2>1, <3>3, AddsUpMeans
    <3> QED
      BY <3>1, <3>2, <3>3
  <2>3. g = h
    BY <2>2
  <2>4. AddsUp(g, s, n + 1)
    BY <2>3 DEF AddsUp
  <2> QED
    BY <2>4
<1> HIDE DEF S
<1>3. m \in S
  BY <1>1, <1>2, InductiveSet
<1> QED
  BY <1>3 DEF S

LEMMA SumOfMeans ==
    ASSUME NEW s, Len(s) \in Nat
    PROVE  \E f : AddsUp(f, s, Len(s)) /\ SumOf(s) = f[Len(s)]
<1> DEFINE f == CHOOSE g : AddsUp(g, s, Len(s))
<1>1. AddsUp(f, s, Len(s))
  BY AddsUpExists
<1>2. SumOf(s) = f[Len(s)]
  BY DEF SumOf, AddsUp
<1> QED
  BY <1>1, <1>2

\* Two ways to add up agree as far as the outcomes do.
LEMMA AddsUpAgree ==
    ASSUME NEW s, NEW u, NEW m \in Nat, NEW n \in Nat, m <= n, \A k \in 1..m : s[k] = u[k],
           NEW f, NEW g, AddsUp(f, s, m), AddsUp(g, u, n)
    PROVE  f[m] = g[m]
<1> DEFINE S == {k \in Nat : k <= m => f[k] = g[k]}
<1>1. 0 \in S
  BY AddsUpMeans
<1>2. ASSUME NEW k \in Nat, k \in S PROVE k + 1 \in S
  <2>1. SUFFICES ASSUME k + 1 <= m PROVE f[k + 1] = g[k + 1]
    OBVIOUS
  <2>2. f[k] = g[k] /\ k + 1 \in 1..m /\ k + 1 \in 1..n /\ (k + 1) - 1 = k
    BY <1>2, <2>1
  <2>3. f[k + 1] = Sum(f[k], s[k + 1].tally) /\ g[k + 1] = Sum(g[k], u[k + 1].tally)
    BY <2>2, AddsUpMeans
  <2> QED
    BY <2>2, <2>3
<1> HIDE DEF S
<1>3. m \in S
  BY <1>1, <1>2, InductiveSet
<1> QED
  BY <1>3 DEF S

LEMMA SumOfNone == SumOf(<<>>) = Zero
<1>1. Len(<<>>) = 0
  OBVIOUS
<1>2. PICK f : AddsUp(f, <<>>, 0) /\ SumOf(<<>>) = f[0]
  BY <1>1, SumOfMeans
<1> QED
  BY <1>2, AddsUpMeans

LEMMA SumOfOneMore ==
    ASSUME NEW s \in Seq(Outcomes), NEW o \in Outcomes
    PROVE  SumOf(Append(s, o)) = Sum(SumOf(s), o.tally)
<1> DEFINE u == Append(s, o)
<1>1. /\ Len(s) \in Nat /\ Len(u) = Len(s) + 1 /\ u[Len(u)] = o
      /\ \A k \in 1..Len(s) : s[k] = u[k]
  OBVIOUS
<1>2. PICK f : AddsUp(f, s, Len(s)) /\ SumOf(s) = f[Len(s)]
  BY <1>1, SumOfMeans
<1> HIDE DEF u
<1>3. PICK g : AddsUp(g, u, Len(u)) /\ SumOf(u) = g[Len(u)]
  BY <1>1, SumOfMeans
<1>4. f[Len(s)] = g[Len(s)]
  BY <1>1, <1>2, <1>3, AddsUpAgree
<1>5. g[Len(u)] = Sum(g[Len(u) - 1], u[Len(u)].tally)
  BY <1>1, <1>3, AddsUpMeans
<1> QED
  BY <1>1, <1>2, <1>3, <1>4, <1>5 DEF u

-----------------------------------------------------------------------------
(* Steps that take up, end or drop feeds' tasks.                           *)

\* Tasks are cleared; those that were reading leave their podcast behind.
LEMMA TasksClear ==
    ASSUME FeedFits, FeedInv, Trouble \/ trouble' = trouble,
           UNCHANGED <<followed, edition, etag, due, rows, crowded>>,
           skipped \subseteq skipped', skipped' \subseteq Podcasts,
           sync' \in [Runs -> [Podcasts -> FeedTasks]],
           \A r \in Runs, p \in Podcasts :
              \/ sync'[r][p] = sync[r][p]
              \/ /\ sync'[r][p].pc \notin Reading \cup {"stamp", "unchanged"} /\ sync'[r][p].known = {}
                 /\ sync[r][p].pc \notin Reading \/ p \in skipped'
    PROVE  FeedFits' /\ FeedInv'
<1>1. FeedTyped'
  BY TroubleType DEF FeedFits, FeedTyped
<1>2. FeedsStand
  BY DEF FeedsStand
<1>3. ASSUME NEW r \in Runs, NEW p \in Podcasts PROVE sync'[r][p] = sync[r][p] \/ TaskFits(r, p)'
  BY DEF TaskFits, Reading
<1> QED
  BY <1>1, <1>2, <1>3, FitsKept, StandingKeeps

LEMMA DroppedClears ==
    ASSUME FeedFits, FeedInv, NEW r \in Runs, Trouble, Dropped(r)
    PROVE  FeedFits' /\ FeedInv'
<1>1. FeedTyped /\ UNCHANGED <<followed, edition, etag, due, rows, crowded>>
  BY DEF FeedFits, Dropped
<1>2. skipped \subseteq skipped' /\ skipped' \subseteq Podcasts
  BY <1>1 DEF Dropped, FeedTyped
<1>3. /\ sync' \in [Runs -> [Podcasts -> FeedTasks]]
      /\ \A s \in Runs, p \in Podcasts : IF s = r THEN sync'[s][p] = NoTask ELSE sync'[s][p] = sync[s][p]
  <2>1. sync' = [sync EXCEPT ![r] = [p \in Podcasts |-> NoTask]] /\ sync \in [Runs -> [Podcasts -> FeedTasks]]
    BY <1>1 DEF Dropped, FeedTyped
  <2>2. [p \in Podcasts |-> NoTask] \in [Podcasts -> FeedTasks]
    BY NoTaskType, Zenon
  <2> QED
    BY <2>1, <2>2
<1>4. \A p \in Podcasts : sync[r][p].pc \in Reading => p \in skipped'
  BY DEF Dropped, Ingesting
<1> QED
  BY <1>1, <1>2, <1>3, <1>4, NoTaskType, TasksClear, ZenonT(30) DEF Reading

LEMMA RestartClears ==
    ASSUME FeedFits, FeedInv, Restart
    PROVE  FeedFits' /\ FeedInv'
<1>1. FeedTyped /\ UNCHANGED <<followed, edition, etag, due, rows, crowded>> /\ Trouble
  BY DEF FeedFits, Restart
<1>2. skipped \subseteq skipped' /\ skipped' \subseteq Podcasts
  BY <1>1 DEF Restart, FeedTyped
<1>3. /\ sync' \in [Runs -> [Podcasts -> FeedTasks]]
      /\ \A s \in Runs, p \in Podcasts : sync'[s][p] = NoTask
  BY NoTaskType, Zenon DEF Restart
<1>4. \A s \in Runs, p \in Podcasts : sync[s][p].pc \in Reading => p \in skipped'
  BY DEF Restart, Ingesting
<1> QED
  BY <1>1, <1>2, <1>3, <1>4, NoTaskType, TasksClear, Zenon DEF Reading

LEMMA BusyCount ==
    ASSUME NEW r \in Runs
    PROVE  /\ IsFiniteSet(Podcasts) /\ Cardinality(Podcasts) \in Nat
           /\ Busy(r) \subseteq Podcasts /\ IsFiniteSet(Busy(r))
           /\ Cardinality(Busy(r)) \in Nat /\ Cardinality(Busy(r)) <= Cardinality(Podcasts)
<1>1. IsFiniteSet(Podcasts) /\ Busy(r) \subseteq Podcasts
  BY EditionsAssumption DEF Busy
<1> QED
  BY <1>1, FS_Subset, FS_CardinalityType

LEMMA ListMoves ==
    ASSUME FeedFits, FeedInv, JobsFit, JobInv, NEW r \in Runs, List(r)
    PROVE  FeedFits' /\ FeedInv' /\ JobsFit' /\ JobInv'
<1>1. /\ FeedTyped /\ JobsTyped /\ RunFits(r) /\ StillRunning(r) /\ ReportedOnce(r) /\ run[r].pc = "list"
      /\ run \in [Runs -> RunTasks] /\ Drained(r) /\ Busy(r) = {}
  BY QuietRun, ZenonT(30) DEF FeedFits, JobsFit, JobInv, JobsTyped, List
<1>2. PICK ok \in BOOLEAN : run' = [run EXCEPT ![r].pc = "sync", ![r].ok = ok]
  <2>1. CASE run' = [run EXCEPT ![r].pc = "sync", ![r].ok = FALSE]
    BY <2>1
  <2>2. CASE GoTo(r, "sync")
    <3>1. run[r] \in RunTasks
      BY <1>1
    <3>2. run' = [run EXCEPT ![r].pc = "sync", ![r].ok = run[r].ok] /\ run[r].ok \in BOOLEAN
      BY <2>2, <3>1, <1>1 DEF GoTo, RunTasks
    <3> QED BY <3>2
  <2> QED
    BY <2>1, <2>2, Zenon DEF List
<1> DEFINE new == [run[r] EXCEPT !.pc = "sync", !.ok = ok]
<1>3. new \in RunTasks /\ new.pc = "sync" /\ new.job = run[r].job /\ new.keep = run[r].keep
  BY <1>1, <1>2 DEF RunTasks, RunPhases
<1>4. run' = [run EXCEPT ![r] = new]
  BY <1>1, <1>2
<1> HIDE DEF new
<1>5. /\ UNCHANGED <<followed, edition, etag, due, rows, crowded, skipped>> /\ (Trouble \/ trouble' = trouble)
      /\ UNCHANGED <<jobs, lastId, queue, folding, handle, signalled, marred, cut>>
  BY Zenon DEF List, jobVars
<1>6. /\ sync' \in [Runs -> [Podcasts -> FeedTasks]]
      /\ \A s \in Runs : s # r => sync'[s] = sync[s]
      /\ \A p \in Podcasts : sync'[r][p] = sync[r][p] \/
            (sync'[r][p].pc \in {"listed", "none"} /\ sync'[r][p].known = {})
  <2>1. CASE UNCHANGED sync
    BY <1>1, <2>1 DEF FeedTyped
  <2>2. CASE ~UNCHANGED sync
    <3> DEFINE f == [p \in Podcasts |->
                        IF p \in run[r].scope \cap followed /\ (run[r].kind = "loop" => p \in due)
                        THEN [NoTask EXCEPT !.pc = "listed", !.tag = etag[p]] ELSE NoTask]
    <3>1. sync' = [sync EXCEPT ![r] = f] /\ sync \in [Runs -> [Podcasts -> FeedTasks]]
      BY <1>1, <2>2, Zenon DEF List, FeedTyped
    <3>2. \A p \in Podcasts : /\ f[p] \in FeedTasks /\ f[p].known = {}
                              /\ f[p].pc \in {"listed", "none"}
      <4>1. \A p \in Podcasts : etag[p] \in Nat
        BY <1>1 DEF FeedTyped
      <4> QED
        BY <4>1, NoTaskType, Zenon
    <3>3. f \in [Podcasts -> FeedTasks]
      BY <3>2, Zenon
    <3> HIDE DEF f
    <3> QED
      BY <3>1, <3>2, <3>3
  <2> QED
    BY <2>1, <2>2
<1>7. \A p \in Podcasts : sync[r][p].pc = "none"
  BY <1>1 DEF Busy
<1>8. FeedFits' /\ FeedInv'
  <2>1. skipped' \subseteq Podcasts /\ skipped \subseteq skipped'
    BY <1>1, <1>5 DEF FeedTyped
  <2> QED
    BY <1>5, <1>6, <1>7, <2>1, TasksClear DEF Reading
<1>9. run' \in [Runs -> RunTasks] /\ run'[r] = new /\ \A s \in Runs : s # r => run'[s] = run[s]
  BY <1>1, <1>3, <1>4
<1>10. JobsTyped'
  BY <1>1, <1>3, <1>5, <1>9 DEF JobsTyped
<1>11. OthersStand(r)
  BY <1>5, <1>6, <1>9 DEF OthersStand
<1>12. queue'[r] = <<>> /\ folding'[r] = <<>> /\ folding[r] = <<>> /\ Drained(r)'
  BY <1>1, <1>5 DEF Drained
<1>13. RunFits(r)'
  <2>1. Cardinality(Busy(r)') <= Cardinality(Podcasts) /\ Cardinality(Busy(r)') \in Nat
    <3>1. Busy(r)' \subseteq Podcasts
      BY DEF Busy
    <3> QED
      BY <3>1, BusyCount, FS_Subset, FS_CardinalityType
  <2>2. Len(queue'[r]) = 0 /\ Len(folding'[r]) = 0
    BY <1>12
  <2> QED
    BY <1>3, <1>9, <1>12, <2>1, <2>2, BusyCount DEF RunFits
<1>14. StillRunning(r)' /\ ReportedOnce(r)'
  <2>1. run[r].job \in DOMAIN jobs => jobs[run[r].job].outcomes = <<>>
    BY <1>1 DEF RunFits
  <2>2. StillRunning(r)'
    BY <1>1, <1>3, <1>5, <1>9 DEF StillRunning
  <2>3. DOMAIN queue'[r] = {} /\ DOMAIN <<>> = {}
    BY <1>12
  <2> QED
    BY <1>3, <1>5, <1>9, <2>1, <2>2, <2>3 DEF ReportedOnce, DistinctFeeds
<1> QED
  BY <1>3, <1>5, <1>8, <1>9, <1>10, <1>11, <1>12, <1>13, <1>14, OneRunMoves

LEMMA ReportMoves ==
    ASSUME FeedFits, FeedInv, JobsFit, JobInv, NEW r \in Runs, NEW p \in Podcasts, Report(r, p)
    PROVE  FeedFits' /\ FeedInv' /\ JobsFit' /\ JobInv'
<1> DEFINE new == [podcast |-> p, tally |-> sync[r][p].tally]
<1>1. /\ FeedTyped /\ JobsTyped /\ RunFits(r) /\ StillRunning(r) /\ ReportedOnce(r)
      /\ run[r].pc = "sync" /\ sync[r][p].pc = "done" /\ p \in Busy(r)
  BY DEF FeedFits, JobsFit, JobInv, Report, Busy
<1>2. /\ UNCHANGED <<followed, edition, etag, due, rows, trouble, crowded, skipped>>
      /\ UNCHANGED <<jobs, lastId, run, folding, handle, signalled, marred, cut>>
      /\ Become(r, p, NoTask)
  BY DEF Report, jobVars
<1>3. /\ sync' \in [Runs -> [Podcasts -> FeedTasks]]
      /\ sync'[r][p] = NoTask /\ sync'[r][p].pc = "none" /\ sync'[r][p].known = {}
      /\ \A s \in Runs, q \in Podcasts : s # r \/ q # p => sync'[s][q] = sync[s][q]
  <2>1. NoTask \in FeedTasks /\ NoTask.pc = "none" /\ NoTask.known = {}
    BY NoTaskType, Zenon
  <2> QED
    BY <1>1, <1>2, <2>1, Becoming
<1>4. FeedFits' /\ FeedInv'
  <2>1. skipped' \subseteq Podcasts /\ skipped \subseteq skipped'
    BY <1>1, <1>2 DEF FeedTyped
  <2>2. sync'[r][p].pc \notin Reading \cup {"stamp"} /\ sync[r][p].pc \notin Reading
    BY <1>1, <1>3 DEF Reading
  <2> QED
    BY <1>2, <1>3, <2>1, <2>2, TasksClear
<1>5. new \in Outcomes /\ new.podcast = p
  BY <1>1, TaskType DEF Outcomes, FeedTasks
<1> HIDE DEF new
<1>6. /\ queue' \in [Runs -> Seq(Outcomes)]
      /\ \A s \in Runs : s # r => queue'[s] = queue[s]
      /\ IF run[r].job = 0 THEN queue'[r] = queue[r] ELSE queue'[r] = Append(queue[r], new)
  <2>1. queue \in [Runs -> Seq(Outcomes)]
    BY <1>1 DEF JobsTyped
  <2>2. queue' = IF run[r].job = 0 THEN queue ELSE [queue EXCEPT ![r] = Append(@, new)]
    BY DEF Report, new
  <2> QED
    BY <1>5, <2>1, <2>2
<1>7. JobsTyped'
  BY <1>1, <1>2, <1>6 DEF JobsTyped
<1>8. OthersStand(r)
  <2>1. \A s \in Runs : s # r => sync'[s] = sync[s]
    <3>1. sync' = [sync EXCEPT ![r][p] = NoTask]
      BY <1>2 DEF Become
    <3> QED
      BY <1>1, <3>1 DEF FeedTyped
  <2> QED
    BY <1>2, <1>6, <2>1 DEF OthersStand
<1>9. Busy(r)' = Busy(r) \ {p}
  BY <1>3 DEF Busy
<1>10. RunFits(r)'
  <2>1. Cardinality(Busy(r)') = Cardinality(Busy(r)) - 1
    BY <1>1, <1>9, BusyCount, FS_RemoveElement
  <2>2. queue[r] \in Seq(Outcomes) /\ folding[r] \in Seq(Tallies) /\ folding'[r] = folding[r]
    BY <1>1, <1>2 DEF JobsTyped
  <2>3. Len(queue[r]) \in Nat /\ Len(queue'[r]) \in {Len(queue[r]), Len(queue[r]) + 1} /\ Len(folding[r]) \in Nat
    BY <1>5, <1>6, <2>2
  <2>4. Cardinality(Busy(r)') + Len(queue'[r]) + Len(folding'[r]) <= Cardinality(Podcasts)
    <3>1. Cardinality(Busy(r)) + Len(queue[r]) + Len(folding[r]) <= Cardinality(Podcasts)
      BY <1>1 DEF RunFits
    <3>2. \A a, b, c, n \in Nat : a + b + c <= n => (a - 1) + b + c <= n /\ (a - 1) + (b + 1) + c <= n
      OBVIOUS
    <3> QED
      BY <2>1, <2>2, <2>3, <3>1, <3>2, BusyCount
  <2>5. ~Drained(r)' => run[r].job # 0
    BY <1>1, <1>2, <1>6 DEF Drained, RunFits
  <2> QED
    BY <1>1, <1>2, <2>2, <2>4, <2>5 DEF RunFits
<1>11. StillRunning(r)'
  BY <1>1, <1>2 DEF StillRunning
<1>12. ReportedOnce(r)'
  <2> DEFINE n == Len(queue[r]) + 1
  <2>1. /\ DOMAIN queue[r] = 1..Len(queue[r]) /\ Len(queue[r]) \in Nat
        /\ DOMAIN queue'[r] \subseteq DOMAIN queue[r] \cup {n}
        /\ \A a \in DOMAIN queue[r] : queue'[r][a] = queue[r][a]
        /\ n \in DOMAIN queue'[r] => queue'[r][n] = new
    <3>1. queue[r] \in Seq(Outcomes)
      BY <1>1 DEF JobsTyped
    <3>2. CASE run[r].job = 0
      BY <1>6, <3>1, <3>2
    <3>3. CASE run[r].job # 0
      BY <1>5, <1>6, <3>1, <3>3
    <3> QED
      BY <3>2, <3>3
  <2> HIDE DEF n
  <2>2. \A a \in DOMAIN queue[r] : queue[r][a].podcast # p
    BY <1>1 DEF ReportedOnce
  <2>3. DistinctFeeds(queue'[r])
    BY <1>1, <1>5, <2>1, <2>2 DEF ReportedOnce, DistinctFeeds
  <2>4. \A a \in DOMAIN queue'[r] : queue'[r][a].podcast \notin Busy(r)'
    BY <1>1, <1>5, <1>9, <2>1 DEF ReportedOnce
  <2>5. ASSUME run[r].job \in DOMAIN jobs, NEW b \in DOMAIN jobs[run[r].job].outcomes
        PROVE  /\ jobs[run[r].job].outcomes[b].podcast \notin Busy(r)
               /\ \A a \in DOMAIN queue'[r] : queue'[r][a].podcast # jobs[run[r].job].outcomes[b].podcast
    BY <1>1, <1>5, <2>1, <2>5 DEF ReportedOnce
  <2> QED
    BY <1>2, <1>9, <2>3, <2>4, <2>5 DEF ReportedOnce
<1> QED
  BY <1>2, <1>4, <1>7, <1>8, <1>10, <1>11, <1>12, OneRunMoves

-----------------------------------------------------------------------------
(* Steps that write a job.                                                 *)

\* A run's new job is nobody else's and starts empty.
LEMMA CreateMoves ==
    ASSUME JobsFit, JobInv, NEW r \in Runs, NEW kind \in {"loop", "poll", "job"},
           NEW scope \in SUBSET Podcasts, Create(r, kind, scope), run[r].pc \in {"idle", "waiting"},
           UNCHANGED <<sync, queue, folding, handle, signalled, marred, cut>>
    PROVE  JobsFit' /\ JobInv'
<1>0. PICK j : j = lastId + 1
  OBVIOUS
<1> DEFINE new == [Idle EXCEPT !.kind = kind, !.pc = "list", !.job = j, !.scope = scope]
<1>1. /\ JobsTyped /\ lastId \in Nat /\ j \in Nat /\ lastId < LastJob /\ LastJob \in Nat
      /\ DOMAIN jobs \subseteq 1..lastId /\ j \notin DOMAIN jobs
      /\ Drained(r) /\ Busy(r) = {}
  <2>1. Drained(r) /\ Busy(r) = {}
    BY QuietRun
  <2>2. JobsTyped /\ lastId < LastJob /\ LastJob \in Nat
    BY JobsAssumption DEF JobsFit, Create
  <2>3. lastId \in Nat /\ DOMAIN jobs \subseteq 1..lastId
    BY <2>2 DEF JobsTyped
  <2> QED
    BY <1>0, <2>1, <2>2, <2>3
<1>2. new \in RunTasks /\ new.job = j /\ new.pc = "list" /\ new.keep = {}
  BY <1>1 DEF Idle, RunTasks, RunPhases
<1>3. run' = [run EXCEPT ![r] = new] /\ lastId' = j /\ jobs' = Row(j, NewJob)
  BY <1>0 DEF Create
<1> HIDE DEF new
<1>4. run' \in [Runs -> RunTasks] /\ run'[r] = new /\ \A s \in Runs : s # r => run'[s] = run[s]
  BY <1>1, <1>2, <1>3 DEF JobsTyped
<1>5. /\ DOMAIN jobs' = DOMAIN jobs \cup {j} /\ jobs'[j] = NewJob
      /\ \A i \in DOMAIN jobs : jobs'[i] = jobs[i]
  <2>1. /\ DOMAIN Row(j, NewJob) = DOMAIN jobs \cup {j} /\ Row(j, NewJob)[j] = NewJob
        /\ \A i \in DOMAIN jobs \ {j} : Row(j, NewJob)[i] = jobs[i]
    BY DEF Row
  <2> QED
    BY <1>1, <1>3, <2>1
<1>6. NewJob \in JobRows /\ NewJob.status = "Running" /\ NewJob.outcomes = <<>> /\ NewJob.totals = Zero
  <2>1. Zero \in Tallies /\ <<>> \in Seq(Outcomes)
    BY DEF Zero, Tallies
  <2> QED
    BY <2>1 DEF NewJob, JobRows
<1>7. JobsTyped'
  <2>1. jobs' \in [DOMAIN jobs' -> JobRows]
    <3>1. jobs' = [i \in DOMAIN jobs' |-> jobs'[i]]
      BY <1>3 DEF Row
    <3>2. \A i \in DOMAIN jobs' : jobs'[i] \in JobRows
      BY <1>1, <1>5, <1>6 DEF JobsTyped
    <3> QED
      BY <3>1, <3>2
  <2>2. DOMAIN jobs' \subseteq 1..lastId' /\ lastId' \in 0..LastJob /\ 1..lastId \subseteq 1..lastId'
    BY <1>0, <1>1, <1>3, <1>5
  <2>3. \A s \in Runs : run'[s].job <= lastId' /\ run'[s].keep \subseteq 1..lastId'
    <3>1. \A s \in Runs : run[s].job <= lastId /\ run[s].job \in Nat /\ run[s].keep \subseteq 1..lastId
      BY <1>1 DEF JobsTyped, RunTasks
    <3>2. CASE TRUE
      BY <1>1, <1>2, <1>3, <1>4, <2>2, <3>1
    <3> QED BY <3>2
  <2>4. marred \subseteq 1..lastId' /\ cut \subseteq 1..lastId'
    BY <1>1, <2>2 DEF JobsTyped
  <2> QED
    BY <1>1, <1>4, <2>1, <2>2, <2>3, <2>4 DEF JobsTyped
<1>8. \A s \in Runs : run[s].job # j /\ run[s].job <= lastId
  BY <1>0, <1>1 DEF JobsTyped, RunTasks
<1>9. OwnJobs'
  BY <1>2, <1>4, <1>8 DEF JobInv, OwnJobs
<1>10. ASSUME NEW s \in Runs PROVE RunFits(s)' /\ StillRunning(s)' /\ ReportedOnce(s)'
  <2>0. RunFits(s) /\ StillRunning(s) /\ ReportedOnce(s)
    BY DEF JobsFit, JobInv
  <2>1. CASE s = r
    <3>1. Busy(r)' = {} /\ Drained(r)' /\ queue'[r] = <<>> /\ folding'[r] = <<>>
      BY <1>1 DEF Busy, Drained
    <3>2. Cardinality(Busy(r)') = 0 /\ Len(queue'[r]) = 0 /\ Len(folding'[r]) = 0 /\ DOMAIN queue'[r] = {}
      BY <3>1, FS_EmptySet
    <3>3. RunFits(r)'
      BY <1>2, <1>4, <1>5, <1>6, <3>1, <3>2, BusyCount DEF RunFits
    <3>4. DOMAIN jobs'[j].outcomes = {}
      BY <1>5, <1>6
    <3>5. StillRunning(r)' /\ ReportedOnce(r)'
      BY <1>2, <1>4, <1>5, <1>6, <3>2, <3>4 DEF StillRunning, ReportedOnce, DistinctFeeds
    <3> QED
      BY <2>1, <3>3, <3>5
  <2>2. CASE s # r
    <3>1. run'[s] = run[s] /\ Busy(s)' = Busy(s) /\ (Drained(s)' <=> Drained(s)) /\ queue' = queue
      BY <1>4, <2>2 DEF Busy, Drained
    <3>2. run[s].job \in DOMAIN jobs' => run[s].job \in DOMAIN jobs /\ jobs'[run[s].job] = jobs[run[s].job]
      BY <1>5, <1>8
    <3>3. RunFits(s)'
      BY <2>0, <3>1, <3>2, RunStands
    <3>4. StillRunning(s)' /\ ReportedOnce(s)'
      BY <2>0, <3>1, <3>2 DEF StillRunning, ReportedOnce
    <3> QED
      BY <3>3, <3>4
  <2> QED
    BY <2>1, <2>2
<1>11. \A i \in DOMAIN jobs' : DistinctFeeds(jobs'[i].outcomes)
  <2>1. DOMAIN <<>> = {}
    OBVIOUS
  <2>2. DistinctFeeds(<<>>)
    BY <2>1 DEF DistinctFeeds
  <2> QED
    BY <1>5, <1>6, <2>2 DEF JobInv
<1>12. ASSUME NEW i \in DOMAIN jobs' \ (marred \cup cut) PROVE TotalsFollow(i)'
  <2>1. CASE i = j
    <3>1. \A s \in Runs : ~Adds(s, j)'
      BY <1>1, <1>2, <1>4, <1>8 DEF Adds, Drained
    <3>2. jobs'[j].totals = SumOf(jobs'[j].outcomes)
      BY <1>5, <1>6, SumOfNone
    <3> QED
      BY <2>1, <3>1, <3>2 DEF TotalsFollow
  <2>2. CASE i # j
    <3>1. TotalsFollow(i) /\ jobs'[i] = jobs[i]
      BY <1>5, <2>2 DEF JobInv
    <3>2. \A s \in Runs : Adds(s, i)' <=> Adds(s, i)
      <4>1. \A s \in Runs : s # r => (Adds(s, i)' <=> Adds(s, i))
        BY <1>4 DEF Adds
      <4>2. ~Adds(r, i)' /\ ~Adds(r, i)
        BY <1>1 DEF Adds, Drained
      <4> QED BY <4>1, <4>2
    <3> QED
      BY <3>1, <3>2 DEF TotalsFollow
  <2> QED
    BY <2>1, <2>2
<1> QED
  BY <1>7, <1>9, <1>10, <1>11, <1>12 DEF JobsFit, JobInv

\* A run writes to its own job, or deletes jobs.
LEMMA JobMoves ==
    ASSUME JobsFit, JobInv, JobsTyped', NEW r \in Runs, sync' = sync, run'[r].job = run[r].job,
           \A s \in Runs : s # r => run'[s] = run[s] /\ queue'[s] = queue[s] /\ folding'[s] = folding[s],
           DOMAIN jobs' \subseteq DOMAIN jobs,
           \A i \in DOMAIN jobs' : i # run[r].job => jobs'[i] = jobs[i],
           marred \subseteq marred', cut \subseteq cut',
           RunFits(r)', StillRunning(r)', ReportedOnce(r)',
           run[r].job \in DOMAIN jobs' =>
              /\ DistinctFeeds(jobs'[run[r].job].outcomes)
              /\ run[r].job \notin marred' \cup cut' => TotalsFollow(run[r].job)'
    PROVE  JobsFit' /\ JobInv'
<1>1. 0 \notin DOMAIN jobs
  BY DEF JobsFit, JobsTyped
<1>2. OwnJobs'
  BY DEF JobInv, OwnJobs
<1>3. ASSUME NEW s \in Runs PROVE RunFits(s)' /\ StillRunning(s)' /\ ReportedOnce(s)'
  <2>1. CASE s = r
    BY <2>1
  <2>2. CASE s # r
    <3>1. RunFits(s) /\ StillRunning(s) /\ ReportedOnce(s)
      BY DEF JobsFit, JobInv
    <3>2. Busy(s)' = Busy(s) /\ (Drained(s)' <=> Drained(s)) /\ run'[s] = run[s] /\ queue'[s] = queue[s]
      BY <2>2 DEF Busy, Drained
    <3>3. run[s].job \in DOMAIN jobs' => run[s].job \in DOMAIN jobs /\ jobs'[run[s].job] = jobs[run[s].job]
      BY <1>1, <2>2 DEF JobInv, OwnJobs
    <3>4. RunFits(s)'
      BY <2>2, <3>1, <3>3, RunStands
    <3>5. StillRunning(s)' /\ ReportedOnce(s)'
      BY <3>1, <3>2, <3>3 DEF StillRunning, ReportedOnce
    <3> QED
      BY <3>4, <3>5
  <2> QED
    BY <2>1, <2>2
<1>4. \A i \in DOMAIN jobs' : DistinctFeeds(jobs'[i].outcomes)
  BY DEF JobInv
<1>5. ASSUME NEW i \in DOMAIN jobs', i \notin marred' \cup cut' PROVE TotalsFollow(i)'
  <2>1. CASE i = run[r].job
    BY <1>5, <2>1
  <2>2. CASE i # run[r].job
    <3>1. TotalsFollow(i) /\ jobs'[i] = jobs[i]
      BY <1>5, <2>2 DEF JobInv
    <3>2. \A s \in Runs : (Adds(s, i)' <=> Adds(s, i)) /\ (Adds(s, i) => folding'[s] = folding[s])
      BY <2>2 DEF Adds
    <3> QED
      BY <3>1, <3>2 DEF TotalsFollow
  <2> QED
    BY <2>1, <2>2
<1> QED
  BY <1>2, <1>3, <1>4, <1>5 DEF JobsFit, JobInv

\* A job's fields are written one at a time.
LEMMA JobWritten ==
    ASSUME JobsTyped, NEW j \in DOMAIN jobs, NEW new \in JobRows, jobs' = [jobs EXCEPT ![j] = new]
    PROVE  /\ jobs' \in [DOMAIN jobs' -> JobRows] /\ DOMAIN jobs' = DOMAIN jobs /\ jobs'[j] = new
           /\ \A i \in DOMAIN jobs' : i # j => jobs'[i] = jobs[i]
BY DEF JobsTyped

LEMMA SumType == \A a, b \in Tallies : Sum(a, b) \in Tallies
BY DEF Sum, Tallies

\* Only the run whose job it is adds to it.
LEMMA OneAdds ==
    ASSUME JobsFit, JobInv, NEW r \in Runs, NEW s \in Runs, run[r].job # 0, Adds(s, run[r].job)
    PROVE  s = r
BY DEF JobInv, OwnJobs, Adds

LEMMA HeadAndTail ==
    ASSUME NEW S, NEW q \in Seq(S), q # <<>>
    PROVE  /\ Head(q) \in S /\ Tail(q) \in Seq(S) /\ Len(q) \in Nat /\ Len(q) >= 1
           /\ Len(Tail(q)) = Len(q) - 1 /\ Head(q) = q[1] /\ 1 \in DOMAIN q
           /\ \A i \in DOMAIN Tail(q) : i + 1 \in DOMAIN q /\ i + 1 # 1 /\ Tail(q)[i] = q[i + 1]
           /\ \A i, k \in DOMAIN Tail(q) : i + 1 = k + 1 => i = k
OBVIOUS

LEMMA FoldMoves ==
    ASSUME JobsFit, JobInv, NEW r \in Runs, Fold(r)
    PROVE  JobsFit' /\ JobInv'
<1>0. PICK j : j = run[r].job
  OBVIOUS
<1>1. /\ JobsTyped /\ RunFits(r) /\ StillRunning(r) /\ ReportedOnce(r) /\ folding[r] # <<>> /\ ~Drained(r)
      /\ folding \in [Runs -> Seq(Tallies)] /\ folding[r] \in Seq(Tallies) /\ queue[r] \in Seq(Outcomes)
      /\ j \in Nat /\ j # 0 /\ j <= lastId /\ lastId \in Nat /\ 0 \notin DOMAIN jobs
  BY <1>0, JobsAssumption, SMTT(30) DEF JobsFit, JobInv, JobsTyped, RunTasks, RunFits, Fold, Drained
<1>2. /\ folding' = [folding EXCEPT ![r] = <<>>]
      /\ UNCHANGED <<sync, lastId, run, queue, handle, signalled, cut>>
  BY DEF Fold
<1>3. /\ folding' \in [Runs -> Seq(Tallies)] /\ folding'[r] = <<>> /\ Len(folding'[r]) = 0
      /\ \A s \in Runs : s # r => folding'[s] = folding[s]
  BY <1>1, <1>2
<1>4. Head(folding[r]) \in Tallies /\ Len(folding[r]) = 1
  <2>1. Len(folding[r]) <= 1
    BY <1>1 DEF RunFits
  <2>2. Head(folding[r]) \in Tallies /\ Len(folding[r]) \in Nat /\ Len(folding[r]) >= 1
    BY <1>1, HeadAndTail
  <2>3. \A n \in Nat : n <= 1 /\ n >= 1 => n = 1
    OBVIOUS
  <2>4. Len(folding[r]) = 1
    BY <2>1, <2>2, <2>3
  <2> QED
    BY <2>2, <2>4
<1>5. \/ /\ j \in DOMAIN jobs /\ marred' = marred
         /\ \E new \in JobRows :
               /\ jobs' = [jobs EXCEPT ![j] = new]
               /\ new.status = jobs[j].status /\ new.outcomes = jobs[j].outcomes
               /\ new.totals = Sum(jobs[j].totals, Head(folding[r]))
      \/ j \notin DOMAIN jobs /\ jobs' = jobs /\ marred' = marred
      \/ marred' = marred \cup {j} /\ jobs' = jobs
  <2>1. CASE j \in DOMAIN jobs /\ marred' = marred
             /\ jobs' = [jobs EXCEPT ![j].totals = NewTotals(@, Head(folding[r]))]
    <3> DEFINE new == [jobs[j] EXCEPT !.totals = Sum(jobs[j].totals, Head(folding[r]))]
    <3>1. jobs[j] \in JobRows
      BY <1>1, <2>1 DEF JobsTyped
    <3>2. Sum(jobs[j].totals, Head(folding[r])) \in Tallies
      BY <1>4, <3>1, SumType DEF JobRows
    <3>3. new \in JobRows /\ new.status = jobs[j].status /\ new.outcomes = jobs[j].outcomes
          /\ new.totals = Sum(jobs[j].totals, Head(folding[r]))
      BY <3>1, <3>2 DEF JobRows
    <3>4. jobs' = [jobs EXCEPT ![j] = new]
      BY <2>1 DEF NewTotals
    <3> HIDE DEF new
    <3> QED
      BY <2>1, <3>3, <3>4
  <2> QED
    BY <1>0, <2>1 DEF Fold
<1>6. /\ DOMAIN jobs' = DOMAIN jobs /\ jobs' \in [DOMAIN jobs' -> JobRows]
      /\ \A i \in DOMAIN jobs' : /\ i # j => jobs'[i] = jobs[i]
                                 /\ jobs'[i].outcomes = jobs[i].outcomes /\ jobs'[i].status = jobs[i].status
      /\ marred \subseteq marred' /\ marred' \subseteq 1..lastId
  <2>1. jobs \in [DOMAIN jobs -> JobRows] /\ marred \subseteq 1..lastId
    BY <1>1 DEF JobsTyped
  <2> QED
    BY <1>1, <1>5, <2>1
<1>7. JobsTyped'
  BY <1>1, <1>2, <1>3, <1>6 DEF JobsTyped
<1>8. RunFits(r)'
  <2>1. Busy(r)' = Busy(r) /\ (Drained(r)' => queue[r] = <<>>) /\ (~Drained(r)' => queue[r] # <<>>)
    BY <1>2, <1>3 DEF Busy, Drained
  <2>2. Len(queue[r]) \in Nat /\ Len(folding[r]) \in Nat
    BY <1>1
  <2>3. Cardinality(Busy(r)) + Len(queue[r]) + 0 <= Cardinality(Podcasts)
    <3>1. Cardinality(Busy(r)) + Len(queue[r]) + Len(folding[r]) <= Cardinality(Podcasts)
      BY <1>1 DEF RunFits
    <3> QED
      BY <1>4, <2>2, <3>1, BusyCount
  <2> QED
    BY <1>1, <1>2, <1>3, <1>6, <2>1, <2>3 DEF RunFits
<1>9. StillRunning(r)' /\ ReportedOnce(r)'
  <2>1. Busy(r)' = Busy(r) /\ run' = run /\ queue' = queue
    BY <1>2 DEF Busy
  <2> QED
    BY <1>1, <1>6, <2>1 DEF StillRunning, ReportedOnce
<1>10. ASSUME j \in DOMAIN jobs', j \notin marred' \cup cut' PROVE TotalsFollow(j)'
  <2>1. \A s \in Runs : ~Adds(s, j)'
    <3>1. \A s \in Runs : s # r => ~Adds(s, j)
      BY <1>0, <1>1, OneAdds
    <3> QED
      BY <1>2, <1>3, <3>1 DEF Adds
  <2>2. TotalsFollow(j) /\ Adds(r, j)
    BY <1>0, <1>1, <1>2, <1>6, <1>10 DEF JobInv, Adds
  <2>3. jobs'[j].totals = Sum(jobs[j].totals, Head(folding[r])) /\ jobs'[j].outcomes = jobs[j].outcomes
    BY <1>1, <1>5, <1>6, <1>10 DEF JobsTyped
  <2> QED
    BY <2>1, <2>2, <2>3 DEF TotalsFollow
<1>11. j \in DOMAIN jobs' => DistinctFeeds(jobs'[j].outcomes)
  BY <1>6 DEF JobInv
<1> QED
  BY <1>0, <1>2, <1>3, <1>6, <1>7, <1>8, <1>9, <1>10, <1>11, JobMoves

LEMMA OneMore ==
    ASSUME NEW S, NEW q \in Seq(S), NEW x \in S
    PROVE  \A b \in DOMAIN Append(q, x) :
              \/ b \in DOMAIN q /\ Append(q, x)[b] = q[b]
              \/ b = Len(q) + 1 /\ Append(q, x)[b] = x
OBVIOUS

LEMMA RestDistinct ==
    ASSUME NEW q \in Seq(Outcomes), q # <<>>, DistinctFeeds(q)
    PROVE  /\ DistinctFeeds(Tail(q))
           /\ \A a \in DOMAIN Tail(q) : Tail(q)[a].podcast # Head(q).podcast
<1>1. /\ Head(q) = q[1] /\ 1 \in DOMAIN q
      /\ \A i \in DOMAIN Tail(q) : i + 1 \in DOMAIN q /\ i + 1 # 1 /\ Tail(q)[i] = q[i + 1]
      /\ \A i, k \in DOMAIN Tail(q) : i + 1 = k + 1 => i = k
  BY HeadAndTail
<1>2. ASSUME NEW a \in DOMAIN Tail(q), NEW b \in DOMAIN Tail(q), Tail(q)[a].podcast = Tail(q)[b].podcast
      PROVE  a = b
  <2>1. a + 1 = b + 1
    BY <1>1, <1>2 DEF DistinctFeeds
  <2> QED
    BY <1>1, <2>1
<1>3. ASSUME NEW a \in DOMAIN Tail(q) PROVE Tail(q)[a].podcast # Head(q).podcast
  BY <1>1, <1>3 DEF DistinctFeeds
<1> QED
  BY <1>2, <1>3 DEF DistinctFeeds

LEMMA RecordMoves ==
    ASSUME JobsFit, JobInv, NEW r \in Runs, Record(r)
    PROVE  JobsFit' /\ JobInv'
<1>0. PICK j : j = run[r].job
  OBVIOUS
<1> DEFINE result == Head(queue[r])
           rest == Tail(queue[r])
<1>1. /\ JobsTyped /\ RunFits(r) /\ StillRunning(r) /\ ReportedOnce(r)
      /\ queue[r] # <<>> /\ folding[r] = <<>> /\ ~Drained(r)
      /\ queue \in [Runs -> Seq(Outcomes)] /\ queue[r] \in Seq(Outcomes)
      /\ folding \in [Runs -> Seq(Tallies)]
      /\ j \in Nat /\ j # 0 /\ j <= lastId /\ lastId \in Nat /\ 0 \notin DOMAIN jobs
  <2>1. JobsTyped /\ RunFits(r) /\ StillRunning(r) /\ ReportedOnce(r)
    BY DEF JobsFit, JobInv
  <2>2. queue[r] # <<>> /\ folding[r] = <<>> /\ ~Drained(r)
    BY DEF Record, Drained
  <2>3. /\ queue \in [Runs -> Seq(Outcomes)] /\ queue[r] \in Seq(Outcomes)
        /\ folding \in [Runs -> Seq(Tallies)] /\ run[r] \in RunTasks
        /\ lastId \in Nat /\ 0 \notin DOMAIN jobs /\ j <= lastId
    BY <1>0, <2>1, JobsAssumption DEF JobsTyped
  <2>4. j \in Nat
    BY <1>0, <2>3 DEF RunTasks
  <2>5. j # 0
    BY <1>0, <2>1, <2>2 DEF RunFits
  <2> QED
    BY <2>1, <2>2, <2>3, <2>4, <2>5
<1>2. /\ result \in Outcomes /\ rest \in Seq(Outcomes) /\ Len(rest) = Len(queue[r]) - 1
      /\ Len(queue[r]) \in Nat /\ Len(queue[r]) >= 1
      /\ 1 \in DOMAIN queue[r] /\ result = queue[r][1]
      /\ \A i \in DOMAIN rest : i + 1 \in DOMAIN queue[r] /\ i + 1 # 1 /\ rest[i] = queue[r][i + 1]
      /\ \A i, k \in DOMAIN rest : i + 1 = k + 1 => i = k
  BY <1>1, HeadAndTail
<1>3. /\ queue' = [queue EXCEPT ![r] = rest]
      /\ UNCHANGED <<sync, lastId, run, handle, signalled, cut>>
  BY DEF Record
<1>4. \/ /\ j \in DOMAIN jobs /\ marred' = marred /\ folding' = [folding EXCEPT ![r] = <<result.tally>>]
         /\ jobs' = [jobs EXCEPT ![j].outcomes = Append(@, result)]
      \/ j \notin DOMAIN jobs /\ jobs' = jobs /\ folding' = folding /\ marred' = marred
      \/ marred' = marred \cup {j} /\ jobs' = jobs /\ folding' = folding
  BY <1>0 DEF Record
<1> HIDE DEF result, rest
<1>5. /\ queue' \in [Runs -> Seq(Outcomes)] /\ queue'[r] = rest
      /\ \A s \in Runs : s # r => queue'[s] = queue[s]
  BY <1>1, <1>2, <1>3
<1>6. result.tally \in Tallies /\ <<result.tally>> \in Seq(Tallies) /\ Len(<<result.tally>>) = 1
      /\ Head(<<result.tally>>) = result.tally /\ <<result.tally>> # <<>>
  BY <1>2 DEF Outcomes
<1>7. /\ folding' \in [Runs -> Seq(Tallies)] /\ \A s \in Runs : s # r => folding'[s] = folding[s]
      /\ folding'[r] \in {<<>>, <<result.tally>>}
  BY <1>1, <1>4, <1>6
<1>8. CASE /\ j \in DOMAIN jobs /\ marred' = marred /\ folding' = [folding EXCEPT ![r] = <<result.tally>>]
           /\ jobs' = [jobs EXCEPT ![j].outcomes = Append(@, result)]
  <2> DEFINE old == jobs[j].outcomes
             more == Append(old, result)
             new == [jobs[j] EXCEPT !.outcomes = more]
  <2>1. jobs[j] \in JobRows /\ old \in Seq(Outcomes) /\ more \in Seq(Outcomes)
    BY <1>1, <1>2, <1>8 DEF JobsTyped, JobRows
  <2> HIDE DEF more
  <2>2. new \in JobRows /\ new.status = jobs[j].status /\ new.totals = jobs[j].totals
        /\ new.outcomes = more
    BY <2>1 DEF JobRows
  <2>3. jobs' = [jobs EXCEPT ![j] = new]
    BY <1>8 DEF more
  <2> HIDE DEF new, old
  <2>4. /\ jobs' \in [DOMAIN jobs' -> JobRows] /\ DOMAIN jobs' = DOMAIN jobs /\ jobs'[j] = new
        /\ \A i \in DOMAIN jobs' : i # j => jobs'[i] = jobs[i]
    BY <1>1, <1>8, <2>2, <2>3, JobWritten
  <2>5. folding'[r] = <<result.tally>>
    BY <1>1, <1>8
  <2>6. JobsTyped'
    BY <1>1, <1>3, <1>5, <1>7, <1>8, <2>4 DEF JobsTyped
  <2>7. RunFits(r)'
    <3>1. Busy(r)' = Busy(r) /\ Len(folding'[r]) = 1 /\ Len(queue'[r]) = Len(queue[r]) - 1
      BY <1>2, <1>3, <1>5, <1>6, <2>5 DEF Busy
    <3>2. Cardinality(Busy(r)) + (Len(queue[r]) - 1) + 1 <= Cardinality(Podcasts)
      <4>1. Cardinality(Busy(r)) + Len(queue[r]) + Len(folding[r]) <= Cardinality(Podcasts)
        BY <1>1 DEF RunFits
      <4>2. Len(folding[r]) = 0
        BY <1>1
      <4>3. \A a, b, n \in Nat : a + b + 0 <= n => a + (b - 1) + 1 <= n
        OBVIOUS
      <4> QED
        BY <1>2, <4>1, <4>2, <4>3, BusyCount
    <3>3. run[r].pc \in {"sync", "drain"} /\ run[r].job # 0
      BY <1>1 DEF RunFits
    <3> QED
      BY <1>1, <1>3, <3>1, <3>2, <3>3 DEF RunFits
  <2>8. StillRunning(r)'
    BY <1>0, <1>1, <1>3, <1>8, <2>2, <2>4 DEF StillRunning
  <2>9. \A b \in DOMAIN more :
           \/ b \in DOMAIN old /\ more[b] = old[b]
           \/ b = Len(old) + 1 /\ more[b] = result
    BY <1>2, <2>1, OneMore DEF more
  <2>10. /\ \A b \in DOMAIN old : /\ old[b].podcast \notin Busy(r) /\ old[b].podcast # result.podcast
                                  /\ \A a \in DOMAIN rest : rest[a].podcast # old[b].podcast
         /\ DistinctFeeds(old)
    <3>1. \A b \in DOMAIN old : /\ old[b].podcast \notin Busy(r)
                               /\ \A a \in DOMAIN queue[r] : queue[r][a].podcast # old[b].podcast
      BY <1>0, <1>1, <1>8 DEF ReportedOnce, old
    <3>2. DistinctFeeds(old)
      BY <1>8 DEF JobInv, old
    <3> QED
      BY <1>2, <3>1, <3>2
  <2>11. ReportedOnce(r)' /\ DistinctFeeds(jobs'[j].outcomes)
    <3>1. Busy(r)' = Busy(r) /\ run'[r].job = j /\ queue'[r] = rest
      BY <1>0, <1>3, <1>5 DEF Busy
    <3>2. DistinctFeeds(rest) /\ \A a \in DOMAIN rest : rest[a].podcast # result.podcast
      BY <1>1, RestDistinct DEF ReportedOnce, rest, result
    <3>3. \A a \in DOMAIN queue[r] : queue[r][a].podcast \notin Busy(r)
      BY <1>1 DEF ReportedOnce
    <3>4. result.podcast \notin Busy(r) /\ \A a \in DOMAIN rest : rest[a].podcast \notin Busy(r)
      BY <1>2, <3>3
    <3>5. ASSUME NEW b \in DOMAIN more
          PROVE  /\ more[b].podcast \notin Busy(r)
                 /\ \A a \in DOMAIN rest : rest[a].podcast # more[b].podcast
      BY <2>9, <2>10, <3>2, <3>4
    <3>6. DistinctFeeds(more)
      BY <2>9, <2>10 DEF DistinctFeeds
    <3> QED
      BY <2>2, <2>4, <3>1, <3>2, <3>4, <3>5, <3>6 DEF ReportedOnce
  <2>12. ASSUME j \notin marred' \cup cut' PROVE TotalsFollow(j)'
    <3>1. \A s \in Runs : ~Adds(s, j)
      BY <1>0, <1>1, OneAdds DEF Adds
    <3>2. TotalsFollow(j)
      BY <1>3, <1>8, <2>12 DEF JobInv
    <3>3. jobs[j].totals = SumOf(old)
      BY <3>1, <3>2 DEF TotalsFollow, old
    <3>4. Sum(jobs'[j].totals, result.tally) = SumOf(jobs'[j].outcomes)
      <4>1. SumOf(more) = Sum(SumOf(old), result.tally)
        BY <1>2, <2>1, SumOfOneMore DEF more
      <4>2. jobs'[j].totals = SumOf(old) /\ jobs'[j].outcomes = more
        BY <2>2, <2>4, <3>3
      <4> QED
        BY <4>1, <4>2
    <3>5. Adds(r, j)' /\ \A s \in Runs : Adds(s, j)' => s = r
      BY <1>0, <1>3, <1>6, <1>7, <2>5, <3>1 DEF Adds
    <3> QED
      BY <1>6, <2>5, <3>4, <3>5 DEF TotalsFollow
  <2> QED
    BY <1>0, <1>3, <1>5, <1>7, <1>8, <2>4, <2>6, <2>7, <2>8, <2>11, <2>12, JobMoves
<1>9. CASE /\ jobs' = jobs /\ folding' = folding
           /\ \/ j \notin DOMAIN jobs /\ marred' = marred
              \/ marred' = marred \cup {j}
  <2>1. JobsTyped' /\ marred \subseteq marred'
    BY <1>1, <1>3, <1>5, <1>9 DEF JobsTyped
  <2>2. RunFits(r)'
    <3>1. Busy(r)' = Busy(r) /\ Len(queue'[r]) = Len(queue[r]) - 1
      BY <1>2, <1>3, <1>5 DEF Busy
    <3>2. Cardinality(Busy(r)) + (Len(queue[r]) - 1) + Len(folding[r]) <= Cardinality(Podcasts)
      <4>1. Cardinality(Busy(r)) + Len(queue[r]) + Len(folding[r]) <= Cardinality(Podcasts)
        BY <1>1 DEF RunFits
      <4>2. Len(folding[r]) = 0
        BY <1>1
      <4>3. \A a, b, n \in Nat : a + b + 0 <= n => a + (b - 1) + 0 <= n
        OBVIOUS
      <4> QED
        BY <1>2, <4>1, <4>2, <4>3, BusyCount
    <3>3. run[r].pc \in {"sync", "drain"} /\ run[r].job # 0
      BY <1>1 DEF RunFits
    <3> QED
      BY <1>1, <1>3, <1>9, <3>1, <3>2, <3>3 DEF RunFits
  <2>3. StillRunning(r)'
    BY <1>1, <1>3, <1>9 DEF StillRunning
  <2>4. ReportedOnce(r)'
    <3>1. Busy(r)' = Busy(r) /\ run' = run /\ queue'[r] = rest
      BY <1>3, <1>5 DEF Busy
    <3>2. DistinctFeeds(rest)
      BY <1>1, RestDistinct DEF ReportedOnce, rest
    <3>3. \A a \in DOMAIN rest : rest[a].podcast \notin Busy(r)
      BY <1>1, <1>2 DEF ReportedOnce
    <3>4. ASSUME run[r].job \in DOMAIN jobs, NEW b \in DOMAIN jobs[run[r].job].outcomes
          PROVE  /\ jobs[run[r].job].outcomes[b].podcast \notin Busy(r)
                 /\ \A a \in DOMAIN rest : rest[a].podcast # jobs[run[r].job].outcomes[b].podcast
      BY <1>1, <1>2, <3>4, SMTT(30) DEF ReportedOnce
    <3> QED
      BY <1>9, <3>1, <3>2, <3>3, <3>4 DEF ReportedOnce
  <2>5. j \in DOMAIN jobs' => DistinctFeeds(jobs'[j].outcomes) /\ j \in marred'
    BY <1>9 DEF JobInv
  <2> QED
    BY <1>0, <1>3, <1>5, <1>9, <2>1, <2>2, <2>3, <2>4, <2>5, JobMoves
<1> QED
  BY <1>4, <1>8, <1>9

LEMMA FinishMoves ==
    ASSUME JobsFit, JobInv, NEW r \in Runs, FinishJob(r)
    PROVE  JobsFit' /\ JobInv'
<1>0. PICK j : j = run[r].job
  OBVIOUS
<1> DEFINE pc == IF j = 0 THEN "recover" ELSE "select"
           new == [run[r] EXCEPT !.pc = pc]
<1>1. /\ JobsTyped /\ RunFits(r) /\ ReportedOnce(r) /\ Drained(r) /\ Busy(r) = {}
      /\ run \in [Runs -> RunTasks] /\ run[r] \in RunTasks
      /\ j \in Nat /\ j <= lastId /\ lastId \in Nat /\ 0 \notin DOMAIN jobs
  BY <1>0, JobsAssumption, SMTT(30) DEF JobsFit, JobInv, JobsTyped, RunTasks, FinishJob, AllReported, Busy
<1>2. /\ UNCHANGED <<sync, lastId, queue, folding, handle, signalled, marred>>
      /\ run' = [run EXCEPT ![r] = new]
  BY <1>0 DEF FinishJob, GoTo
<1>3. new \in RunTasks /\ new.pc \in {"recover", "select"} /\ new.job = j /\ new.keep = run[r].keep
  BY <1>0, <1>1 DEF RunTasks, RunPhases
<1> HIDE DEF new
<1>4. run' \in [Runs -> RunTasks] /\ run'[r] = new /\ \A s \in Runs : s # r => run'[s] = run[s]
  BY <1>1, <1>2, <1>3
<1>5. /\ DOMAIN jobs' = DOMAIN jobs /\ jobs' \in [DOMAIN jobs' -> JobRows]
      /\ \A i \in DOMAIN jobs' : /\ i # j => jobs'[i] = jobs[i]
                                 /\ jobs'[i].outcomes = jobs[i].outcomes /\ jobs'[i].totals = jobs[i].totals
  <2>1. jobs \in [DOMAIN jobs -> JobRows]
    BY <1>1 DEF JobsTyped
  <2>2. CASE jobs' = jobs
    BY <2>1, <2>2
  <2>3. CASE j \in DOMAIN jobs /\ jobs' = [jobs EXCEPT ![j].status = IF run[r].ok THEN "Completed" ELSE "Failed"]
    <3> DEFINE row == [jobs[j] EXCEPT !.status = IF run[r].ok THEN "Completed" ELSE "Failed"]
    <3>1. jobs[j] \in JobRows
      BY <2>1, <2>3
    <3>2. row \in JobRows /\ row.outcomes = jobs[j].outcomes /\ row.totals = jobs[j].totals
      BY <3>1 DEF JobRows
    <3>3. jobs' = [jobs EXCEPT ![j] = row]
      BY <2>3
    <3> HIDE DEF row
    <3> QED
      BY <1>1, <2>3, <3>2, <3>3, JobWritten
  <2> QED
    BY <1>0, <2>2, <2>3 DEF FinishJob
<1>6. cut \subseteq cut' /\ cut' \subseteq 1..lastId
  <2>1. cut \subseteq 1..lastId
    BY <1>1 DEF JobsTyped
  <2> QED
    BY <1>0, <1>1, <2>1 DEF FinishJob
<1>7. JobsTyped'
  <2>1. \A s \in Runs : run'[s].job <= lastId /\ run'[s].keep \subseteq 1..lastId
    BY <1>0, <1>1, <1>3, <1>4 DEF JobsTyped
  <2> QED
    BY <1>1, <1>2, <1>4, <1>5, <1>6, <2>1 DEF JobsTyped
<1>8. Busy(r)' = Busy(r) /\ Drained(r)'
  BY <1>1, <1>2 DEF Busy, Drained
<1>9. RunFits(r)'
  BY <1>1, <1>2, <1>3, <1>4, <1>8 DEF RunFits
<1>10. StillRunning(r)' /\ ReportedOnce(r)'
  BY <1>0, <1>1, <1>2, <1>3, <1>4, <1>5, <1>8 DEF StillRunning, ReportedOnce
<1>11. j \in DOMAIN jobs' =>
          DistinctFeeds(jobs'[j].outcomes) /\ (j \notin marred' \cup cut' => TotalsFollow(j)')
  <2>1. SUFFICES ASSUME j \in DOMAIN jobs'
                 PROVE  DistinctFeeds(jobs'[j].outcomes) /\ (j \notin marred' \cup cut' => TotalsFollow(j)')
    OBVIOUS
  <2>2. \A s \in Runs : (Adds(s, j)' <=> Adds(s, j)) /\ folding'[s] = folding[s]
    BY <1>0, <1>2, <1>3, <1>4 DEF Adds
  <2>3. j \notin marred' \cup cut' => TotalsFollow(j)
    BY <1>2, <1>5, <1>6, <2>1 DEF JobInv
  <2> QED
    BY <1>5, <2>1, <2>2, <2>3 DEF JobInv, TotalsFollow
<1> QED
  BY <1>0, <1>2, <1>3, <1>4, <1>5, <1>6, <1>7, <1>9, <1>10, <1>11, JobMoves

LEMMA DeleteMoves ==
    ASSUME JobsFit, JobInv, NEW r \in Runs, DeleteRest(r)
    PROVE  JobsFit' /\ JobInv'
<1>0. PICK j : j = run[r].job
  OBVIOUS
<1> DEFINE new == [run[r] EXCEPT !.pc = "recover", !.keep = {}]
<1>1. /\ JobsTyped /\ RunFits(r) /\ ReportedOnce(r) /\ Drained(r) /\ Busy(r) = {}
      /\ run \in [Runs -> RunTasks] /\ run[r] \in RunTasks
      /\ jobs \in [DOMAIN jobs -> JobRows] /\ run[r].pc = "delete"
  BY QuietRun DEF JobsFit, JobInv, JobsTyped, DeleteRest
<1>2. /\ UNCHANGED <<sync, lastId, queue, folding, handle, signalled, marred, cut>>
      /\ run' = [run EXCEPT ![r] = new]
  BY DEF DeleteRest
<1>3. new \in RunTasks /\ new.pc = "recover" /\ new.job = j /\ new.keep = {}
  BY <1>0, <1>1 DEF RunTasks, RunPhases
<1> HIDE DEF new
<1>4. run' \in [Runs -> RunTasks] /\ run'[r] = new /\ \A s \in Runs : s # r => run'[s] = run[s]
  BY <1>1, <1>2, <1>3
<1>5. /\ DOMAIN jobs' \subseteq DOMAIN jobs /\ jobs' \in [DOMAIN jobs' -> JobRows]
      /\ \A i \in DOMAIN jobs' : jobs'[i] = jobs[i]
  <2>1. CASE jobs' = jobs
    BY <1>1, <2>1
  <2>2. CASE jobs' = [i \in DOMAIN jobs \cap run[r].keep |-> jobs[i]]
    BY <1>1, <2>2
  <2> QED
    BY <2>1, <2>2 DEF DeleteRest
<1>6. JobsTyped'
  <2>1. \A s \in Runs : run'[s].job <= lastId /\ run'[s].keep \subseteq 1..lastId
    BY <1>0, <1>1, <1>3, <1>4 DEF JobsTyped
  <2> QED
    BY <1>1, <1>2, <1>4, <1>5, <2>1 DEF JobsTyped
<1>7. Busy(r)' = Busy(r) /\ Drained(r)'
  BY <1>1, <1>2 DEF Busy, Drained
<1>8. RunFits(r)'
  BY <1>1, <1>2, <1>3, <1>4, <1>7 DEF RunFits
<1>9. StillRunning(r)' /\ ReportedOnce(r)'
  BY <1>0, <1>1, <1>2, <1>3, <1>4, <1>5, <1>7 DEF StillRunning, ReportedOnce
<1>10. j \in DOMAIN jobs' =>
          DistinctFeeds(jobs'[j].outcomes) /\ (j \notin marred' \cup cut' => TotalsFollow(j)')
  <2>1. SUFFICES ASSUME j \in DOMAIN jobs'
                 PROVE  DistinctFeeds(jobs'[j].outcomes) /\ (j \notin marred' \cup cut' => TotalsFollow(j)')
    OBVIOUS
  <2>2. \A s \in Runs : (Adds(s, j)' <=> Adds(s, j)) /\ folding'[s] = folding[s]
    BY <1>0, <1>2, <1>3, <1>4 DEF Adds
  <2>3. j \notin marred' \cup cut' => TotalsFollow(j)
    BY <1>2, <1>5, <2>1 DEF JobInv
  <2> QED
    BY <1>5, <2>1, <2>2, <2>3 DEF JobInv, TotalsFollow
<1> QED
  BY <1>0, <1>2, <1>3, <1>4, <1>5, <1>6, <1>8, <1>9, <1>10, JobMoves

-----------------------------------------------------------------------------
(* Every step keeps the invariants.                                        *)

LEMMA StopMoves ==
    ASSUME FeedFits, FeedInv, JobsFit, JobInv, Stop
    PROVE  FeedFits' /\ FeedInv' /\ JobsFit' /\ JobInv'
<1>1. FeedFits' /\ FeedInv'
  BY FeedsUntouched DEF Stop
<1>2. handle' \in Runs \cup {NoRun} /\ signalled' \subseteq Runs
  BY DEF Stop, JobsFit, JobsTyped
<1>3. UNCHANGED <<sync, jobVars, taskVars, marred, cut>> /\ \A r \in Runs : Busy(r)' = Busy(r)
  BY DEF Stop, Busy
<1> QED
  BY <1>1, <1>2, <1>3, RunsStand

LEMMA DropMoves ==
    ASSUME FeedFits, FeedInv, JobsFit, JobInv, (\E r \in Runs : DropRequest(r)) \/ Shutdown
    PROVE  FeedFits' /\ FeedInv' /\ JobsFit' /\ JobInv'
<1>1. handle \in Runs \cup {NoRun}
  BY DEF JobsFit, JobsTyped
<1>2. CASE \E r \in Runs : DropRequest(r)
  <2>1. PICK r \in Runs : DropRequest(r)
    BY <1>2
  <2>2. Trouble /\ Dropped(r) /\ handle' = handle /\ signalled' = signalled
    BY <2>1 DEF DropRequest
  <2> QED
    BY <1>1, <2>2, DroppedClears, DroppedMoves
<1>3. CASE Shutdown
  <2>1. handle \in Runs /\ Trouble /\ Dropped(handle) /\ handle' = NoRun /\ signalled' = signalled
    BY <1>1, <1>3 DEF Shutdown
  <2> QED
    BY <2>1, DroppedClears, DroppedMoves
<1> QED
  BY <1>2, <1>3

\* Runs that begin.
LEMMA BeginMoves ==
    ASSUME FeedFits, FeedInv, JobsFit, JobInv, NEW r \in Runs,
           \/ Tick(r) \/ Poll(r)
           \/ \E scope \in {Podcasts} \cup {{p} : p \in Podcasts} : SpawnPollJob(r, scope)
    PROVE  FeedFits' /\ FeedInv' /\ JobsFit' /\ JobInv'
<1>1. /\ run[r].pc \in {"idle", "waiting"}
      /\ UNCHANGED <<followed, edition, etag, due, rows, sync, crowded, skipped, queue, folding,
                     handle, signalled, marred, cut>>
  BY DEF Tick, Poll, SpawnPollJob, Free
<1>2. \E kind \in {"loop", "poll", "job"}, scope \in SUBSET Podcasts :
         Create(r, kind, scope) \/ (kind # "job" /\ CreateNone(r, kind))
  <2>1. Podcasts \in SUBSET Podcasts /\ \A p \in Podcasts : {p} \in SUBSET Podcasts
    OBVIOUS
  <2>2. CASE Tick(r)
    BY <2>1, <2>2 DEF Tick
  <2>3. CASE Poll(r)
    BY <2>1, <2>3 DEF Poll
  <2>4. CASE \E scope \in {Podcasts} \cup {{p} : p \in Podcasts} : SpawnPollJob(r, scope)
    BY <2>1, <2>4 DEF SpawnPollJob
  <2> QED
    BY <2>2, <2>3, <2>4
<1>3. Trouble \/ trouble' = trouble
  BY <1>2 DEF Create, CreateNone
<1>4. FeedFits' /\ FeedInv'
  BY <1>1, <1>3, FeedsUntouched
<1>5. JobsFit' /\ JobInv'
  BY <1>1, <1>2, CreateMoves, CreateNoneMoves
<1> QED
  BY <1>4, <1>5

\* Steps of the jobs that write no feed.
LEMMA JobSteps ==
    ASSUME FeedFits, FeedInv, JobsFit, JobInv, NEW r \in Runs,
           \/ Start(r) \/ Exit(r) \/ Record(r) \/ Fold(r) \/ FinishJob(r) \/ SelectKept(r)
           \/ DeleteRest(r) \/ EndRun(r) \/ EndDrain(r)
    PROVE  FeedFits' /\ FeedInv' /\ JobsFit' /\ JobInv'
<1>1. UNCHANGED <<followed, edition, etag, due, rows, sync, crowded, skipped>>
  BY DEF Start, Exit, Record, Fold, FinishJob, SelectKept, DeleteRest, EndRun, EndDrain, feedVars
<1>2. Trouble \/ trouble' = trouble
  BY DEF Start, Exit, Record, Fold, FinishJob, SelectKept, DeleteRest, EndRun, EndDrain, feedVars
<1>3. FeedFits' /\ FeedInv'
  BY <1>1, <1>2, FeedsUntouched
<1>4. JobsFit' /\ JobInv'
  BY StartMoves, ExitMoves, RecordMoves, FoldMoves, FinishMoves, SelectKeptMoves, DeleteMoves, EndMoves
<1> QED
  BY <1>3, <1>4

LEMMA Moves ==
    ASSUME FeedFits, FeedInv, JobsFit, JobInv, [Next]_vars
    PROVE  FeedFits' /\ FeedInv' /\ JobsFit' /\ JobInv'
<1>1. CASE UNCHANGED vars
  <2>1. UNCHANGED <<followed, edition, etag, due, rows, sync, crowded, skipped, trouble,
                    jobVars, taskVars, marred, cut, handle, signalled>>
    BY <1>1 DEF vars, feedVars, pollVars
  <2>2. \A r \in Runs : Busy(r)' = Busy(r)
    BY <2>1 DEF Busy
  <2> QED
    BY <2>1, <2>2, FeedsUntouched, RunsStand DEF JobsFit, JobsTyped
<1>2. CASE Stop
  BY <1>2, StopMoves
<1>3. CASE Shutdown \/ \E r \in Runs : DropRequest(r)
  BY <1>3, DropMoves
<1>4. CASE Restart
  BY <1>4, RestartClears, RestartMoves
<1>5. CASE Outside /\ UNCHANGED pollVars
  BY <1>5, OutsideMoves
<1>6. ASSUME NEW r \in Runs,
             \/ Tick(r) \/ Poll(r)
             \/ \E scope \in {Podcasts} \cup {{p} : p \in Podcasts} : SpawnPollJob(r, scope)
      PROVE  FeedFits' /\ FeedInv' /\ JobsFit' /\ JobInv'
  BY <1>6, BeginMoves
<1>7. ASSUME NEW r \in Runs,
             \/ Start(r) \/ Exit(r) \/ Record(r) \/ Fold(r) \/ FinishJob(r) \/ SelectKept(r)
             \/ DeleteRest(r) \/ EndRun(r) \/ EndDrain(r)
      PROVE  FeedFits' /\ FeedInv' /\ JobsFit' /\ JobInv'
  BY <1>7, JobSteps
<1>8. ASSUME NEW r \in Runs, List(r) \/ \E p \in Podcasts : Take(r, p) \/ Sync(r, p) \/ Report(r, p)
      PROVE  FeedFits' /\ FeedInv' /\ JobsFit' /\ JobInv'
  BY <1>8, ListMoves, TakeMoves, SyncMoves, ReportMoves
<1> QED
  BY <1>1, <1>2, <1>3, <1>4, <1>5, <1>6, <1>7, <1>8 DEF Next, Work

LEMMA Begins ==
    ASSUME Init PROVE FeedFits /\ FeedInv /\ JobsFit /\ JobInv
<1>1. /\ followed \subseteq Podcasts /\ rows = {} /\ due = Podcasts /\ crowded = {} /\ skipped = {}
      /\ trouble \in 0..MaxTrouble
      /\ \A r \in Runs, p \in Podcasts : sync[r][p] = NoTask
      /\ \A p \in Podcasts : etag[p] = 0
  BY DEF Init, FeedInit
<1>2. NoTask.pc = "none" /\ NoTask.known = {} /\ NoTask \in FeedTasks
  BY DEF NoTask, Task, Zero, Tallies, FeedTasks, TaskPhases, InFlight
<1>3. edition \in [Podcasts -> Nat] /\ \A p \in Podcasts : edition[p] \in DOMAIN Editions[p]
  <2>1. \A p \in Podcasts : edition[p] \in DOMAIN Editions[p]
    BY DEF Init, FeedInit
  <2>2. edition \in [Podcasts -> UNION {DOMAIN Editions[p] : p \in Podcasts}]
    BY DEF Init, FeedInit
  <2>3. \A p \in Podcasts : edition[p] \in Nat
    BY <2>1, EditionTypes
  <2> QED
    BY <2>1, <2>2, <2>3
<1>4. FeedTyped
  <2>1. etag \in [Podcasts -> Nat]
    BY DEF Init, FeedInit
  <2>2. sync \in [Runs -> [Podcasts -> FeedTasks]]
    BY <1>2 DEF Init, FeedInit
  <2>3. IsFiniteSet(rows)
    BY <1>1, FS_EmptySet
  <2> QED
    BY <1>1, <1>3, <2>1, <2>2, <2>3 DEF FeedTyped
<1>5. FeedFits
  BY <1>1, <1>2, <1>4 DEF FeedFits, RowsNumbered, RowsPublished, TaskFits, Reading
<1>6. FeedInv
  <2>1. \A p \in Podcasts : Ingesting(p) = {} /\ DOMAIN Items(p, etag[p]) = {}
    BY <1>1, <1>2 DEF Ingesting, Reading, Items
  <2> QED
    BY <1>1, <1>2, <2>1 DEF FeedInv, Alone, KnowsRows, Settled, HoldsPassed, Reading, OneRowPerGuid
<1>7. /\ \A r \in Runs : run[r] = Idle /\ queue[r] = <<>> /\ folding[r] = <<>>
      /\ jobs = <<>> /\ DOMAIN jobs = {} /\ lastId \in 0..LastJob
      /\ handle = NoRun /\ signalled = {} /\ marred = {} /\ cut = {}
  BY DEF Init
<1>8. Idle \in RunTasks /\ Idle.job = 0 /\ Idle.pc = "idle" /\ Idle.keep = {}
  BY DEF Idle, RunTasks, RunPhases
<1>9. JobsTyped
  <2>1. run \in [Runs -> RunTasks]
    BY <1>8 DEF Init
  <2>2. queue \in [Runs -> Seq(Outcomes)] /\ folding \in [Runs -> Seq(Tallies)]
    <3>1. <<>> \in Seq(Outcomes) /\ <<>> \in Seq(Tallies)
      OBVIOUS
    <3> QED
      BY <3>1 DEF Init
  <2>3. jobs \in [DOMAIN jobs -> JobRows]
    BY <1>7
  <2>4. lastId \in Nat
    BY <1>7, JobsAssumption
  <2>5. \A r \in Runs : run[r].job <= lastId /\ run[r].keep \subseteq 1..lastId
    BY <1>7, <1>8, <2>4
  <2> QED
    BY <1>7, <2>1, <2>2, <2>3, <2>5 DEF JobsTyped
<1>10. ASSUME NEW r \in Runs PROVE RunFits(r) /\ StillRunning(r) /\ ReportedOnce(r)
  <2>1. Busy(r) = {}
    BY <1>1, <1>2 DEF Busy
  <2>2. Cardinality(Busy(r)) = 0 /\ Len(queue[r]) = 0 /\ Len(folding[r]) = 0 /\ DOMAIN queue[r] = {}
    BY <1>7, <2>1, FS_EmptySet
  <2> QED
    BY <1>7, <1>8, <2>1, <2>2, BusyCount
       DEF RunFits, Drained, StillRunning, ReportedOnce, DistinctFeeds
<1>11. OwnJobs
  BY <1>7, <1>8 DEF OwnJobs
<1> QED
  BY <1>5, <1>6, <1>7, <1>9, <1>10, <1>11 DEF JobsFit, JobInv

THEOREM PollsHold == Spec => [](FeedFits /\ FeedInv /\ JobsFit /\ JobInv)
<1>1. Init => FeedFits /\ FeedInv /\ JobsFit /\ JobInv
  BY Begins
<1>2. FeedFits /\ FeedInv /\ JobsFit /\ JobInv /\ [Next]_vars
         => (FeedFits /\ FeedInv /\ JobsFit /\ JobInv)'
  BY Moves
<1> QED
  BY <1>1, <1>2, PTL DEF Spec

-----------------------------------------------------------------------------
(* What follows.                                                           *)

\* The state of the poller, its jobs and their writers is what PollJobs declares: above all
\* a run's channel holds no more than its feeds, and a task reads an item its feed has.
THEOREM PollTypes == Spec => []TypeOK
<1>1. ASSUME FeedFits PROVE FeedTypeOK
  <2>1. FeedTyped /\ RowsNumbered /\ \A r \in Runs, p \in Podcasts : TaskFits(r, p)
    BY <1>1 DEF FeedFits
  <2>2. \A p \in Podcasts : edition[p] \in 1..Len(Editions[p]) /\ etag[p] \in 0..Len(Editions[p])
    <3>1. SUFFICES ASSUME NEW p \in Podcasts
                   PROVE  edition[p] \in 1..Len(Editions[p]) /\ etag[p] \in 0..Len(Editions[p])
      OBVIOUS
    <3>2. Editions[p] \in Seq(Seq(FeedItems))
      BY EditionsAssumption
    <3>3. edition[p] \in DOMAIN Editions[p] /\ etag[p] \in {0} \cup DOMAIN Editions[p]
      BY <2>1 DEF FeedTyped
    <3> QED
      BY <3>2, <3>3
  <2>3. \A x \in rows : x.podcast \in Podcasts /\ x.id \in 1..Cardinality(rows)
    BY <2>1 DEF FeedTyped, RowsNumbered, EpisodeRows
  <2>4. ASSUME NEW r \in Runs, NEW p \in Podcasts
        PROVE  LET t == sync[r][p] IN
               /\ t.pc \in TaskPhases /\ t.tag \in Nat /\ t.body \in Nat
               /\ {x.id : x \in t.known} \subseteq 1..Cardinality(rows)
               /\ t.pc = "ingest" => t.next \in DOMAIN Items(p, t.body)
               /\ t.tally \in [new : Nat, updated : Nat, errors : Nat]
    <3>1. sync[r][p] \in FeedTasks /\ TaskFits(r, p)
      BY <2>1, TaskType
    <3>2. \A x \in sync[r][p].known : x.id \in 1..Cardinality(rows)
      BY <2>3, <3>1 DEF TaskFits
    <3>3. sync[r][p].pc = "ingest" => sync[r][p].next \in DOMAIN Items(p, sync[r][p].body)
      BY <3>1, EditionTypes DEF TaskFits, Reading
    <3> QED
      BY <3>1, <3>2, <3>3 DEF FeedTasks, Tallies
  <2> QED
    BY <2>1, <2>2, <2>3, <2>4 DEF FeedTypeOK, FeedTyped
<1>2. ASSUME FeedFits, JobsFit PROVE TypeOK
  <2>1. JobsTyped /\ \A r \in Runs : RunFits(r)
    BY <1>2 DEF JobsFit
  <2>2. \A j \in DOMAIN jobs : jobs[j].status \in {"Running", "Completed", "Failed"}
    BY <2>1 DEF JobsTyped, JobRows
  <2>3. ASSUME NEW r \in Runs
        PROVE  /\ run[r].kind \in {"none", "loop", "poll", "job"} /\ run[r].pc \in RunPhases
               /\ run[r].job \in 0..lastId /\ run[r].keep \subseteq 1..lastId
               /\ Len(queue[r]) + Len(folding[r]) <= Cardinality(Podcasts)
    <3>1. run[r] \in RunTasks /\ run[r].job <= lastId /\ run[r].keep \subseteq 1..lastId
          /\ lastId \in 0..LastJob
      BY <2>1 DEF JobsTyped
    <3>2. run[r].kind \in {"none", "loop", "poll", "job"} /\ run[r].pc \in RunPhases /\ run[r].job \in Nat
      BY <3>1 DEF RunTasks
    <3>3. Len(queue[r]) \in Nat /\ Len(folding[r]) \in Nat
      BY <2>1 DEF JobsTyped
    <3>4. Cardinality(Busy(r)) + Len(queue[r]) + Len(folding[r]) <= Cardinality(Podcasts)
      BY <2>1 DEF RunFits
    <3>5. \A a, b, c, n \in Nat : a + b + c <= n => b + c <= n
      OBVIOUS
    <3>6. Len(queue[r]) + Len(folding[r]) <= Cardinality(Podcasts)
      BY <3>3, <3>4, <3>5, BusyCount
    <3>7. run[r].job \in 0..lastId
      BY <3>1, <3>2, JobsAssumption
    <3> QED
      BY <3>1, <3>2, <3>6, <3>7
  <2> QED
    BY <1>1, <1>2, <2>1, <2>2, <2>3 DEF TypeOK, JobsTyped
<1> QED
  BY <1>2, PollsHold, PTL

\* A feed that would be answered with 304 (manager.rs sync_podcast "304: stamp polled_at and
\* stop") has nothing left to ingest: whatever the feeds publish and however many syncs
\* overlap, a stored validator means that the edition's items are all there and as the feed
\* has them, but for a podcast whose last sync was cut short, lost a write or crossed another.
THEOREM NothingIsSkipped == Spec => []NothingSkipped
<1>1. FeedInv => NothingSkipped
  BY DEF FeedInv, Settled, NothingSkipped
<1> QED
  BY <1>1, PollsHold, PTL

\* "guid avoids re-inserting the same episode" (manager.rs ingest_episodes): the lookup maps
\* are loaded once per sync and not kept up to date, and still no podcast gets two rows for
\* a guid, unless two of its syncs crossed or an edition repeats the guid.
THEOREM GuidsStayUnique == Spec => []OneRowPerGuid
<1>1. FeedInv => OneRowPerGuid
  BY DEF FeedInv
<1> QED
  BY <1>1, PollsHold, PTL

\* A job's totals are its outcomes' once its writer has caught up, and a feed is reported
\* once, whatever the number of runs, feeds and jobs (jobs.rs record_podcast).
THEOREM TotalsAddUp == Spec => []TotalsMatch
<1>1. ASSUME JobsFit, JobInv PROVE TotalsMatch
  <2>1. SUFFICES ASSUME NEW j \in DOMAIN jobs \ marred
                 PROVE  /\ (\A r \in Runs : run[r].job = j => folding[r] = <<>>) /\ j \notin cut
                              => jobs[j].totals = SumOf(jobs[j].outcomes)
                        /\ DistinctFeeds(jobs[j].outcomes)
    BY DEF TotalsMatch, DistinctFeeds
  <2>2. DistinctFeeds(jobs[j].outcomes) /\ (j \notin cut => TotalsFollow(j))
    BY <1>1 DEF JobInv
  <2>3. (\A r \in Runs : run[r].job = j => folding[r] = <<>>) => \A r \in Runs : ~Adds(r, j)
    BY DEF Adds
  <2> QED
    BY <2>2, <2>3 DEF TotalsFollow
<1> QED
  BY <1>1, PollsHold, PTL

\* "The writer is drained before the job is finished so no outcome lands after
\* completed_at" (lib.rs run_reported_sync): no step writes to a job that is finished.
THEOREM FinishedStaysFinal == Spec => FinishedIsFinal
<1> DEFINE Final == \A j \in DOMAIN jobs \cap DOMAIN jobs' : jobs[j].status # "Running" => jobs'[j] = jobs[j]
<1>1. ASSUME JobsFit, JobInv, [Next]_vars PROVE Final
  <2>1. SUFFICES ASSUME jobs' # jobs PROVE Final
    OBVIOUS
  <2>2. JobsTyped /\ \A r \in Runs : StillRunning(r)
    BY <1>1 DEF JobsFit, JobInv
  <2>3. CASE \E r \in Runs : Record(r) \/ Fold(r) \/ FinishJob(r)
    <3>1. PICK r \in Runs : Record(r) \/ Fold(r) \/ FinishJob(r)
      BY <2>3
    <3>2. run[r].pc = "sync" \/ ~Drained(r)
      BY <3>1 DEF Record, Fold, FinishJob, AllReported, Drained
    <3>3. run[r].job \in DOMAIN jobs /\ \A i \in DOMAIN jobs : i # run[r].job => jobs'[i] = jobs[i]
      <4>1. \/ jobs' = jobs
            \/ run[r].job \in DOMAIN jobs /\ \E f : jobs' = [jobs EXCEPT ![run[r].job] = f]
        <5>1. CASE Record(r)
          BY <5>1 DEF Record
        <5>2. CASE Fold(r)
          BY <5>2 DEF Fold
        <5>3. CASE FinishJob(r)
          BY <5>3 DEF FinishJob
        <5> QED
          BY <3>1, <5>1, <5>2, <5>3
      <4>2. jobs \in [DOMAIN jobs -> JobRows]
        BY <2>2 DEF JobsTyped
      <4> QED
        BY <2>1, <4>1, <4>2
    <3>4. jobs[run[r].job].status = "Running"
      BY <2>2, <3>2, <3>3 DEF StillRunning
    <3> QED
      BY <3>3, <3>4
  <2>4. CASE \E r \in Runs : DeleteRest(r)
    <3>1. jobs' = [j \in DOMAIN jobs' |-> jobs[j]]
      <4>1. PICK r \in Runs : DeleteRest(r)
        BY <2>4
      <4>2. jobs' = [j \in DOMAIN jobs \cap run[r].keep |-> jobs[j]]
        BY <2>1, <4>1 DEF DeleteRest
      <4> QED
        BY <4>2
    <3> QED
      BY <3>1
  <2>5. CASE \E r \in Runs, kind \in {"loop", "poll", "job"}, scope \in SUBSET Podcasts : Create(r, kind, scope)
    <3>1. lastId + 1 \notin DOMAIN jobs
      BY <2>2, JobsAssumption DEF JobsTyped
    <3> QED
      BY <2>5, <3>1 DEF Create, Row
  <2>6. CASE \E r \in Runs : Tick(r) \/ Poll(r) \/
               \E scope \in {Podcasts} \cup {{p} : p \in Podcasts} : SpawnPollJob(r, scope)
    <3>1. PICK r \in Runs : Tick(r) \/ Poll(r) \/
               \E scope \in {Podcasts} \cup {{p} : p \in Podcasts} : SpawnPollJob(r, scope)
      BY <2>6
    <3>2. \E kind \in {"loop", "poll", "job"}, scope \in SUBSET Podcasts : Create(r, kind, scope)
      <4>1. Podcasts \in SUBSET Podcasts /\ \A p \in Podcasts : {p} \in SUBSET Podcasts
        OBVIOUS
      <4>2. \A kind : ~CreateNone(r, kind)
        BY <2>1 DEF CreateNone, jobVars
      <4>3. CASE Tick(r)
        BY <4>1, <4>2, <4>3 DEF Tick
      <4>4. CASE Poll(r)
        BY <4>1, <4>2, <4>4 DEF Poll
      <4>5. CASE \E scope \in {Podcasts} \cup {{p} : p \in Podcasts} : SpawnPollJob(r, scope)
        BY <4>1, <4>5 DEF SpawnPollJob
      <4> QED
        BY <3>1, <4>3, <4>4, <4>5
    <3> QED
      BY <2>5, <3>2
  <2>7. \/ \E r \in Runs : Record(r) \/ Fold(r) \/ FinishJob(r) \/ DeleteRest(r)
        \/ \E r \in Runs : Tick(r) \/ Poll(r) \/
               \E scope \in {Podcasts} \cup {{p} : p \in Podcasts} : SpawnPollJob(r, scope)
    <3>1. ~UNCHANGED vars /\ ~Stop /\ ~Shutdown /\ ~Restart /\ ~UNCHANGED pollVars
      BY <2>1 DEF vars, pollVars, jobVars, Stop, Shutdown, Restart, Dropped
    <3>2. \A r \in Runs : /\ ~Start(r) /\ ~Exit(r) /\ ~DropRequest(r) /\ ~List(r) /\ ~SelectKept(r)
                          /\ ~EndRun(r) /\ ~EndDrain(r)
                          /\ \A p \in Podcasts : ~Take(r, p) /\ ~Sync(r, p) /\ ~Report(r, p)
      BY <2>1, ZenonT(30)
         DEF Start, Exit, DropRequest, Dropped, List, SelectKept, EndRun, EndDrain, Take, Sync, Report,
             jobVars, pollVars
    <3> QED
      BY <1>1, <3>1, <3>2 DEF Next, Work
  <2> QED
    BY <2>3, <2>4, <2>6, <2>7
<1>2. JobsFit /\ JobInv /\ [Next]_vars => [Final]_vars
  BY <1>1
<1> QED
  BY <1>2, PollsHold, PTL DEF Spec, FinishedIsFinal
=============================================================================
