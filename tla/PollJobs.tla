------------------------------ MODULE PollJobs ------------------------------
(***************************************************************************)
(* The poller and its job history (crates/polling): the scheduled loop,    *)
(* POST /poll and POST /poll-job each create a job row, run a sync over    *)
(* the feeds, stream every feed's outcome to a writer task, finish the     *)
(* job and prune the history.  FeedSync is what a run does with one feed.  *)
(*                                                                         *)
(* A run slot is a task of the server.  A loop keeps its slot from start   *)
(* to exit; a stop only signals it, so an old loop may still be syncing    *)
(* beside a new one.  Download recovery is a step of the tick here and     *)
(* ServerDownloads' subject.                                               *)
(***************************************************************************)
EXTENDS FeedSync

CONSTANTS
    MaxJobs,        \* MAX_JOBS
    MaxConcurrent,  \* max_poll_concurrent
    NoRun,
    Kinds,          \* which of "poll" and "job" requests arrive
    MaxRuns,        \* bound: runs under way together, by how many feeds are followed
    LastJob         \* bound: job ids; past it the row of a run cannot be created

ASSUME JobsAssumption == MaxJobs \in Nat \ {0} /\ MaxConcurrent \in Nat \ {0} /\ LastJob \in Nat
                       /\ MaxRuns \in [1..Cardinality(Podcasts) -> Nat]

VARIABLES
    jobs,       \* poll_job rows with their outcome rows, by id
    lastId,     \* the newest id given out
    run,        \* what each task is doing
    queue,      \* per run, the channel from the sync to the writer task
    folding,    \* per run, the outcomes inserted whose counts are still to be added
    handle,     \* PollingHandle.task: the loop that stop and status refer to
    signalled,  \* loops that have been told to stop
    marred,     \* history: jobs that lost a write
    cut         \* history: jobs whose task was dropped

jobVars == <<jobs, lastId>>
taskVars == <<run, queue, folding>>
pollVars == <<jobVars, taskVars, handle, signalled, marred, cut>>
vars == <<feedVars, pollVars>>

Idle == [kind |-> "none", pc |-> "idle", job |-> 0, scope |-> {}, ok |-> TRUE, keep |-> {}]
NewJob == [status |-> "Running", outcomes |-> <<>>, totals |-> Zero]
RunPhases == {"idle", "waiting", "list", "sync", "finish", "select", "delete", "recover", "drain"}

TypeOK ==
    /\ FeedTypeOK
    /\ DOMAIN jobs \subseteq 1..lastId /\ lastId \in 0..LastJob
    /\ \A j \in DOMAIN jobs : jobs[j].status \in {"Running", "Completed", "Failed"}
    /\ \A r \in Runs : /\ run[r].kind \in {"none", "loop", "poll", "job"} /\ run[r].pc \in RunPhases
                       /\ run[r].job \in 0..lastId /\ run[r].keep \subseteq 1..lastId
                       /\ Len(queue[r]) + Len(folding[r]) <= Cardinality(Podcasts)
    /\ handle \in Runs \cup {NoRun} /\ signalled \subseteq Runs
    /\ marred \cup cut \subseteq 1..lastId

Init ==
    /\ FeedInit
    /\ jobs = <<>> /\ lastId \in 0..LastJob
    /\ run = [r \in Runs |-> Idle]
    /\ queue = [r \in Runs |-> <<>>] /\ folding = [r \in Runs |-> <<>>]
    /\ handle = NoRun /\ signalled = {} /\ marred = {} /\ cut = {}

GoTo(r, pc) == run' = [run EXCEPT ![r].pc = pc]
Free(r) == /\ run[r].pc = "idle"
           /\ Cardinality({x \in Runs : run[x].pc # "idle"}) < MaxRuns[Cardinality(followed)]
Sum(a, b) == [new |-> a.new + b.new, updated |-> a.updated + b.updated, errors |-> a.errors + b.errors]
Row(j, row) == [i \in DOMAIN jobs \cup {j} |-> IF i = j THEN row ELSE jobs[i]]

-----------------------------------------------------------------------------
(* The loop's handle.                                                      *)

Start(r) ==
    /\ handle = NoRun /\ Free(r)
    /\ handle' = r
    /\ run' = [run EXCEPT ![r] = [Idle EXCEPT !.kind = "loop", !.pc = "waiting"]]
    /\ UNCHANGED <<feedVars, jobVars, queue, folding, signalled, marred, cut>>

Stop ==
    /\ handle # NoRun /\ Trouble
    /\ signalled' = signalled \cup {handle} /\ handle' = NoRun
    /\ UNCHANGED <<followed, edition, etag, due, rows, sync, crowded, skipped, jobVars, taskVars, marred, cut>>

Exit(r) ==
    /\ run[r].pc = "waiting" /\ r \in signalled
    /\ run' = [run EXCEPT ![r] = Idle] /\ signalled' = signalled \ {r}
    /\ UNCHANGED <<feedVars, jobVars, queue, folding, handle, marred, cut>>

\* The task of r is dropped: its feed tasks go with it, but not its writer.
Dropped(r) ==
    /\ sync' = [sync EXCEPT ![r] = [p \in Podcasts |-> NoTask]]
    /\ skipped' = skipped \cup {p \in Podcasts : r \in Ingesting(p)}
    /\ run' = [run EXCEPT ![r] = IF queue[r] = <<>> /\ folding[r] = <<>> THEN Idle
                                 ELSE [@ EXCEPT !.kind = "none", !.pc = "drain"]]
    /\ cut' = IF run[r].job \in DOMAIN jobs THEN cut \cup {run[r].job} ELSE cut
    /\ UNCHANGED <<followed, edition, etag, due, rows, crowded, jobVars, queue, folding, marred>>

\* The client of POST /poll goes away and its handler is dropped.
DropRequest(r) ==
    /\ run[r].kind = "poll" /\ Trouble /\ Dropped(r)
    /\ UNCHANGED <<handle, signalled>>

\* shutdown: an embedded host closes its library.
Shutdown ==
    /\ handle # NoRun /\ Trouble /\ Dropped(handle)
    /\ handle' = NoRun
    /\ UNCHANGED signalled

\* The process dies.
Restart ==
    /\ Trouble
    /\ sync' = [r \in Runs |-> [p \in Podcasts |-> NoTask]]
    /\ skipped' = skipped \cup {p \in Podcasts : Ingesting(p) # {}}
    /\ run' = [r \in Runs |-> Idle]
    /\ queue' = [r \in Runs |-> <<>>] /\ folding' = [r \in Runs |-> <<>>]
    /\ handle' = NoRun /\ signalled' = {}
    /\ cut' = cut \cup {run[r].job : r \in {x \in Runs : run[x].job \in DOMAIN jobs}}
    /\ UNCHANGED <<followed, edition, etag, due, rows, crowded, jobVars, marred>>

-----------------------------------------------------------------------------
(* A run.                                                                  *)

\* JobTracker::create.
Create(r, kind, scope) ==
    /\ lastId < LastJob
    /\ lastId' = lastId + 1 /\ jobs' = Row(lastId + 1, NewJob)
    /\ run' = [run EXCEPT ![r] = [Idle EXCEPT !.kind = kind, !.pc = "list", !.job = lastId + 1,
                                              !.scope = scope]]
    /\ UNCHANGED trouble

\* The scheduled loop and POST /poll go on without a row.
CreateNone(r, kind) ==
    /\ \/ lastId = LastJob /\ UNCHANGED trouble
       \/ Trouble
    /\ run' = [run EXCEPT ![r] = [Idle EXCEPT !.kind = kind, !.pc = "list", !.scope = Podcasts]]
    /\ UNCHANGED jobVars

Tick(r) ==
    /\ run[r].pc = "waiting"
    /\ Create(r, "loop", Podcasts) \/ CreateNone(r, "loop")
    /\ UNCHANGED <<followed, edition, etag, due, rows, sync, crowded, skipped, queue, folding,
                   handle, signalled, marred, cut>>

Poll(r) ==
    /\ "poll" \in Kinds /\ Free(r)
    /\ Create(r, "poll", Podcasts) \/ CreateNone(r, "poll")
    /\ UNCHANGED <<followed, edition, etag, due, rows, sync, crowded, skipped, queue, folding,
                   handle, signalled, marred, cut>>

\* POST /poll-job: all feeds, or one.
SpawnPollJob(r, scope) ==
    /\ "job" \in Kinds /\ Free(r)
    /\ Create(r, "job", scope)
    /\ UNCHANGED <<followed, edition, etag, due, rows, sync, crowded, skipped, queue, folding,
                   handle, signalled, marred, cut>>

\* run: the podcasts with their validators; a scheduled run takes only those that are due.
List(r) ==
    /\ run[r].pc = "list"
    /\ \/ /\ sync' = [sync EXCEPT ![r] = [p \in Podcasts |->
                        IF p \in run[r].scope \cap followed /\ (run[r].kind = "loop" => p \in due)
                        THEN [NoTask EXCEPT !.pc = "listed", !.tag = etag[p]] ELSE NoTask]]
          /\ GoTo(r, "sync") /\ UNCHANGED trouble
       \/ Trouble /\ run' = [run EXCEPT ![r].pc = "sync", ![r].ok = FALSE] /\ UNCHANGED sync
    /\ UNCHANGED <<followed, edition, etag, due, rows, crowded, skipped, jobVars, queue, folding,
                   handle, signalled, marred, cut>>

Listed(r) == {p \in Podcasts : sync[r][p].pc = "listed"}

\* Mutant: a permit is kept until the result is read.
UnreadPermits(r) == Cardinality({p \in Podcasts : sync[r][p].pc \in InFlight \cup {"done"}})

\* The semaphore's permits in use: one for each feed being synced.
Permits(r) == Cardinality({p \in Podcasts : sync[r][p].pc \in InFlight})

Take(r, p) ==
    /\ run[r].pc = "sync" /\ p \in Listed(r) /\ Permits(r) < MaxConcurrent
    /\ Become(r, p, [sync[r][p] EXCEPT !.pc = "fetch"])
    /\ UNCHANGED <<followed, edition, etag, due, rows, trouble, crowded, skipped, pollVars>>

Sync(r, p) == run[r].pc = "sync" /\ Progress(r, p) /\ UNCHANGED pollVars

\* join_next: results are read once every feed has been taken up, in the order they come.
Report(r, p) ==
    /\ run[r].pc = "sync" /\ Listed(r) = {} /\ sync[r][p].pc = "done"
    /\ queue' = IF run[r].job = 0 THEN queue
                ELSE [queue EXCEPT ![r] = Append(@, [podcast |-> p, tally |-> sync[r][p].tally])]
    /\ Become(r, p, NoTask)
    /\ UNCHANGED <<followed, edition, etag, due, rows, trouble, crowded, skipped, jobVars, run, folding,
                   handle, signalled, marred, cut>>

\* record_podcast, first the outcome row.  Without the job it references it is refused.
Record(r) ==
    LET j == run[r].job
        result == Head(queue[r])
    IN  /\ queue[r] # <<>> /\ folding[r] = <<>>
        /\ queue' = [queue EXCEPT ![r] = Tail(@)]
        /\ \/ /\ j \in DOMAIN jobs
              /\ jobs' = [jobs EXCEPT ![j].outcomes = Append(@, result)]
              /\ folding' = [folding EXCEPT ![r] = <<result.tally>>] /\ UNCHANGED <<trouble, marred>>
           \/ j \notin DOMAIN jobs /\ UNCHANGED <<jobs, folding, trouble, marred>>
           \/ Trouble /\ marred' = marred \cup {j} /\ UNCHANGED <<jobs, folding>>
        /\ UNCHANGED <<followed, edition, etag, due, rows, sync, crowded, skipped, lastId, run,
                       handle, signalled, cut>>

\* Mutant: the last outcome's counts replace the totals.
LastTotals(totals, tally) == tally

NewTotals(totals, tally) == Sum(totals, tally)

\* Then its counts onto the job's totals, if the job is still there.
Fold(r) ==
    LET j == run[r].job IN
    /\ folding[r] # <<>>
    /\ folding' = [folding EXCEPT ![r] = <<>>]
    /\ \/ /\ j \in DOMAIN jobs
          /\ jobs' = [jobs EXCEPT ![j].totals = NewTotals(@, Head(folding[r]))]
          /\ UNCHANGED <<trouble, marred>>
       \/ j \notin DOMAIN jobs /\ UNCHANGED <<jobs, trouble, marred>>
       \/ Trouble /\ marred' = marred \cup {j} /\ UNCHANGED jobs
    /\ UNCHANGED <<followed, edition, etag, due, rows, sync, crowded, skipped, lastId, run, queue,
                   handle, signalled, cut>>

\* Mutant: the job is finished when the sync is, whatever the writer still has.
SyncDrained(r) == TRUE

\* The writer task has ended.
Drained(r) == queue[r] = <<>> /\ folding[r] = <<>>

AllReported(r) == run[r].pc = "sync" /\ \A p \in Podcasts : sync[r][p].pc = "none"

\* finish: the verdict, if the row is still there.
FinishJob(r) ==
    LET j == run[r].job IN
    /\ AllReported(r) /\ Drained(r)
    /\ \/ /\ j \in DOMAIN jobs
          /\ jobs' = [jobs EXCEPT ![j].status = IF run[r].ok THEN "Completed" ELSE "Failed"]
          /\ UNCHANGED <<trouble, cut>>
       \/ j \notin DOMAIN jobs /\ UNCHANGED <<jobs, trouble, cut>>
       \/ j # 0 /\ Trouble /\ cut' = cut \cup {j} /\ UNCHANGED jobs
    /\ GoTo(r, IF j = 0 THEN "recover" ELSE "select")
    /\ UNCHANGED <<followed, edition, etag, due, rows, sync, crowded, skipped, lastId, queue, folding,
                   handle, signalled, marred>>

Newest(n) == {j \in DOMAIN jobs : Cardinality({i \in DOMAIN jobs : i > j}) < n}

\* prune: the newest MaxJobs, then, in a second statement, the rest.
SelectKept(r) ==
    /\ run[r].pc = "select"
    /\ \/ /\ run' = [run EXCEPT ![r].pc = IF Cardinality(Newest(MaxJobs)) < MaxJobs
                                         THEN "recover" ELSE "delete",
                                ![r].keep = Newest(MaxJobs)]
          /\ UNCHANGED trouble
       \/ Trouble /\ GoTo(r, "recover")
    /\ UNCHANGED <<followed, edition, etag, due, rows, sync, crowded, skipped, jobVars, queue, folding,
                   handle, signalled, marred, cut>>

DeleteRest(r) ==
    /\ run[r].pc = "delete"
    /\ \/ jobs' = [j \in DOMAIN jobs \cap run[r].keep |-> jobs[j]] /\ UNCHANGED trouble
       \/ Trouble /\ UNCHANGED jobs
    /\ run' = [run EXCEPT ![r].pc = "recover", ![r].keep = {}]
    /\ UNCHANGED <<followed, edition, etag, due, rows, sync, crowded, skipped, lastId, queue, folding,
                   handle, signalled, marred, cut>>

\* The end of a run: a loop recovers downloads and waits for its next tick.
EndRun(r) ==
    /\ run[r].pc = "recover"
    /\ run' = [run EXCEPT ![r] = IF @.kind = "loop" THEN [Idle EXCEPT !.kind = "loop", !.pc = "waiting"]
                                 ELSE Idle]
    /\ UNCHANGED <<feedVars, jobVars, queue, folding, handle, signalled, marred, cut>>

\* A writer whose sync was dropped has written what it had.
EndDrain(r) ==
    /\ run[r].pc = "drain" /\ Drained(r)
    /\ run' = [run EXCEPT ![r] = Idle]
    /\ UNCHANGED <<feedVars, jobVars, queue, folding, handle, signalled, marred, cut>>

Work(r) ==
    \/ List(r) \/ Record(r) \/ Fold(r) \/ FinishJob(r) \/ SelectKept(r) \/ DeleteRest(r)
    \/ EndRun(r) \/ EndDrain(r)
    \/ \E p \in Podcasts : Take(r, p) \/ Sync(r, p) \/ Report(r, p)

Next ==
    \/ Stop \/ Shutdown \/ Restart \/ (Outside /\ UNCHANGED pollVars)
    \/ \E r \in Runs : \/ Start(r) \/ Exit(r) \/ DropRequest(r) \/ Tick(r) \/ Poll(r)
                       \/ \E scope \in {Podcasts} \cup {{p} : p \in Podcasts} : SpawnPollJob(r, scope)
                       \/ Work(r)

Spec == Init /\ [][Next]_vars

\* Tasks are scheduled, requests time out and are answered now and then, intervals pass,
\* the loop ticks, and a server starts its loop (main, LocalLibrary::open).
Fairness ==
    /\ WF_vars(\E r \in Runs : Start(r))
    /\ \A p \in Podcasts : WF_vars(Elapse(p) /\ UNCHANGED pollVars)
    /\ \A r \in Runs : /\ WF_vars(Work(r)) /\ WF_vars(Tick(r))
                       /\ \A p \in Podcasts : SF_vars(Answer(r, p) /\ UNCHANGED pollVars)
FairSpec == Spec /\ Fairness

-----------------------------------------------------------------------------
(* What the poller promises.                                               *)

SumOf(outcomes) ==
    LET sum[n \in 0..Len(outcomes)] == IF n = 0 THEN Zero ELSE Sum(sum[n - 1], outcomes[n].tally)
    IN  sum[Len(outcomes)]

\* A job's totals are its outcomes' (jobs.rs record_podcast "Fold the totals onto the job
\* row"), whoever else writes jobs, once the writer has caught up and if no write was lost;
\* and a feed is reported once.
TotalsMatch ==
    \A j \in DOMAIN jobs \ marred :
        /\ (\A r \in Runs : run[r].job = j => folding[r] = <<>>) /\ j \notin cut
              => jobs[j].totals = SumOf(jobs[j].outcomes)
        /\ \A a, b \in DOMAIN jobs[j].outcomes :
              jobs[j].outcomes[a].podcast = jobs[j].outcomes[b].podcast => a = b

\* "The writer is drained before the job is finished so no outcome lands after
\* completed_at" (lib.rs run_reported_sync).
FinishedIsFinal ==
    [][\A j \in DOMAIN jobs \cap DOMAIN jobs' :
          jobs[j].status # "Running" => jobs'[j] = jobs[j]]_vars

\* A job ends (wire/polling.rs PollJobStatus): unless its task was dropped or its last write
\* lost, it is finished or pruned.
JobsEnd == \A j \in 1..LastJob :
    (j \in DOMAIN jobs /\ jobs[j].status = "Running") ~>
        (j \in cut \/ j \notin DOMAIN jobs \/ jobs[j].status # "Running")

\* What a followed feed publishes arrives: every item of the last edition is ingested, unless a sync
\* that was cut short, lost a write or crossed another left the podcast behind, a late 304 replaced
\* the validators another run had stored, or the feed's items cannot be told apart.
Arrives == \A p \in Podcasts :
    p \in followed \ Confusable /\ edition[p] = Len(Editions[p]) ~>
        (p \in skipped \cup crowded \/ \A i \in DOMAIN Items(p, edition[p]) : Holds(p, Items(p, edition[p])[i]))
=============================================================================
