-------------------------- MODULE ServerDownloads --------------------------
(***************************************************************************)
(* The server's copies of episodes (crates/download, the poller's recovery *)
(* pass, the download routes).  Requests and the poller start calls that   *)
(* fetch an episode, remove its copy, or trim a podcast to its newest      *)
(* copies.  Calls share nothing but the episode rows and the media         *)
(* directory, and each of their database and file operations may be        *)
(* interleaved with those of the others.                                   *)
(*                                                                         *)
(* One podcast.  DownloadUnauthorized stands for both refusals (403, 404); *)
(* a podcast's automatic downloads are requests that start together.       *)
(* The transfer itself, with the transient retries inside one call, is one *)
(* step: it writes to a file of its own, renamed into place when whole.    *)
(***************************************************************************)
EXTENDS Integers, FiniteSets, Sequences, SequencesExt

CONSTANTS
    Episodes,       \* ids
    Calls,          \* calls that can be under way together
    MaxAttempts,    \* subscription_download_max_attempts
    BatchMax,       \* RECOVERY_BATCH_MAX
    Keep,           \* copies retention keeps, 0 for all
    SlowDownloads,  \* whether a download may outlast subscription_download_stuck_after
    Removals,       \* whether copies are removed on request
    MaxAsked,       \* bound: requests
    MaxTrouble      \* bound: restarts and failed database writes

ASSUME EpisodeAssumption == Episodes \subseteq Int /\ IsFiniteSet(Episodes)
ASSUME DownloadLimitAssumption ==
    /\ MaxAttempts \in Nat \ {0} /\ BatchMax \in Nat \ {0} /\ Keep \in Nat
    /\ SlowDownloads \in BOOLEAN /\ Removals \in BOOLEAN
    /\ MaxAsked \in Nat /\ MaxTrouble \in Nat

VARIABLES
    status,     \* episode.download_status
    attempts,   \* episode.download_attempts
    started,    \* episode.download_started_at: none, or before or after the cutoff
    shelf,      \* episodes with a content_file_path, by downloaded_at
    files,      \* episodes with a file in the media directory
    call,       \* what each call is doing
    tick,       \* what the poller's recovery pass is doing
    batch,      \* errored episodes it has still to retry
    asked,      \* requests so far
    trouble,    \* restarts and failed writes so far
    fetches,    \* history: fetches begun since a removal that no call straddled
    untrimmed,  \* history: copies no retention pass has considered
    taken       \* history: episodes whose row was reset under a fetch still at work

rowVars == <<status, attempts, started, shelf>>
tickVars == <<tick, batch>>
histVars == <<fetches, untrimmed, taken>>
vars == <<rowVars, files, call, tickVars, asked, trouble, histVars>>

Busy == {"Downloading", "Downloaded"}
Terminal == {"DownloadUnauthorized", "DownloadBroken"}
Status == Busy \cup Terminal \cup {"NotDownloaded", "DownloadError"}

\* A call on behalf of a request or of the recovery pass; todo are the episodes it is to
\* fetch or remove, seen the attempts it has read.
Call(kind, pc, todo, seen) == [kind |-> kind, pc |-> pc, todo |-> todo, seen |-> seen]
Done == Call("none", "idle", <<>>, 0)
CallPhases == {"idle", "claim", "fetch", "landed", "failed", "refused",
               "retain", "read", "unlink", "reset"}

TypeOK ==
    /\ status \in [Episodes -> Status]
    /\ attempts \in [Episodes -> Nat]
    /\ started \in [Episodes -> {"none", "recent", "old"}]
    /\ shelf \in Seq(Episodes) /\ Cardinality(ToSet(shelf)) = Len(shelf)
    /\ files \subseteq Episodes
    /\ call \in [Calls -> [kind : {"none", "request", "recovery", "removal"}, pc : CallPhases,
                           todo : Seq(Episodes), seen : Nat]]
    /\ tick \in {"asleep", "cap", "select", "retry"}
    /\ batch \subseteq Episodes
    /\ asked \in Nat /\ trouble \in Nat
    /\ fetches \in [Episodes -> Nat]
    /\ untrimmed \subseteq Episodes /\ taken \subseteq Episodes

Init ==
    /\ status = [e \in Episodes |-> "NotDownloaded"]
    /\ attempts = [e \in Episodes |-> 0]
    /\ started = [e \in Episodes |-> "none"]
    /\ shelf = <<>> /\ files = {}
    /\ call = [c \in Calls |-> Done]
    /\ tick = "asleep" /\ batch = {}
    /\ asked = 0 /\ trouble = 0
    /\ fetches = [e \in Episodes |-> 0] /\ untrimmed = {} /\ taken = {}

\* The rows a query finds: the episodes of seq that are in S, in its order.
Only(seq, S) ==
    LET kept[n \in 0..Len(seq)] ==
          IF n = 0 THEN <<>>
          ELSE IF seq[n] \in S THEN Append(kept[n - 1], seq[n]) ELSE kept[n - 1]
    IN  kept[Len(seq)]

Trouble == trouble < MaxTrouble /\ trouble' = trouble + 1
Free(c) == call[c].pc = "idle"
Target(c) == Head(call[c].todo)
Become(c, new) == call' = [call EXCEPT ![c] = new]
GoTo(c, pc) == call' = [call EXCEPT ![c].pc = pc]

\* The calls that are fetching e, and those that have looked at it and not claimed it yet.
Writers(e) == {c \in Calls : /\ call[c].pc \in {"fetch", "landed", "failed", "refused"}
                             /\ Target(c) = e}
AboutToClaim(e) == {c \in Calls : call[c].pc = "claim" /\ Target(c) = e}

\* The call is no longer at work on its episode.
Leave(c) == taken' = IF Writers(Target(c)) = {c} THEN taken \ {Target(c)} ELSE taken

\* A request goes on to retention once its download is done, a retry is over.
AfterDownload(c) ==
    IF call[c].kind = "request" THEN GoTo(c, "retain") ELSE Become(c, Done)

-----------------------------------------------------------------------------
(* download_episode.                                                       *)

\* The first look at the row: nothing to do if a download is under way or finished.
Begin(c, e, kind) ==
    IF status[e] \notin Busy
    THEN Become(c, Call(kind, "claim", <<e>>, attempts[e]))
    ELSE Become(c, IF kind = "request" THEN Call(kind, "retain", <<e>>, 0) ELSE Done)

Ask == asked < MaxAsked /\ asked' = asked + 1

\* POST /episodes/{id}/download, or a poll that found the episode.
Request(c, e) ==
    /\ Free(c) /\ Ask /\ Begin(c, e, "request")
    /\ UNCHANGED <<rowVars, files, tickVars, trouble, histVars>>

\* Mutant: the claim trusts the look that came before it.
ClaimableAtFirst(e) == TRUE

\* The status filter of begin_attempt's update.
Claimable(e) == status[e] \notin Busy

\* begin_attempt: compare and swap on the status, but the attempts are those read before.
Claim(c) ==
    LET e == Target(c) IN
    /\ call[c].pc = "claim"
    /\ IF Claimable(e)
       THEN /\ status' = [status EXCEPT ![e] = "Downloading"]
            /\ started' = [started EXCEPT ![e] = "recent"]
            /\ attempts' = [attempts EXCEPT ![e] = call[c].seen + 1]
            /\ fetches' = [fetches EXCEPT ![e] = @ + 1]
            /\ GoTo(c, "fetch")
       ELSE AfterDownload(c) /\ UNCHANGED <<status, started, attempts, fetches>>
    /\ UNCHANGED <<shelf, files, tickVars, asked, trouble, untrimmed, taken>>

\* The transfer ends: with the whole file in place, or with a failure of either kind.
Transfer(c) ==
    /\ call[c].pc = "fetch"
    /\ \/ GoTo(c, "landed") /\ files' = files \cup {Target(c)}
       \/ \E outcome \in {"failed", "refused"} : GoTo(c, outcome) /\ UNCHANGED files
    /\ UNCHANGED <<rowVars, tickVars, asked, trouble, histVars>>

\* Record the copy.  The write may fail, and nobody tries it again.
Record(c) ==
    LET e == Target(c) IN
    /\ call[c].pc = "landed"
    /\ \/ /\ status' = [status EXCEPT ![e] = "Downloaded"]
          /\ shelf' = Append(Only(shelf, Episodes \ {e}), e)
          /\ untrimmed' = IF call[c].kind = "request" THEN untrimmed \ {e} ELSE untrimmed \cup {e}
          /\ AfterDownload(c)
          /\ UNCHANGED trouble
       \/ Trouble /\ Become(c, Done) /\ UNCHANGED <<status, shelf, untrimmed>>
    /\ Leave(c)
    /\ UNCHANGED <<attempts, started, files, tickVars, asked, fetches>>

\* Mutant: the failure is stored under its own name, not the status it stands for.
OwnName(pc) == pc

\* terminal_status of the failure.
Verdict(pc) == IF pc = "refused" THEN "DownloadUnauthorized" ELSE "DownloadError"

\* set_failed, whatever the row says by now.
SetFailed(c) ==
    /\ call[c].pc \in {"failed", "refused"}
    /\ \/ status' = [status EXCEPT ![Target(c)] = Verdict(call[c].pc)] /\ UNCHANGED trouble
       \/ Trouble /\ UNCHANGED status
    /\ Become(c, Done) /\ Leave(c)
    /\ UNCHANGED <<attempts, started, shelf, files, tickVars, asked, fetches, untrimmed>>

-----------------------------------------------------------------------------
(* remove_server_download and enforce_retention.                           *)

\* Mutant: one copy more than the cap.
ExcessByOne(copies) == Len(copies) - Keep - 1

\* How many copies are over the cap.
Excess(copies) == Len(copies) - Keep

\* enforce_retention: the downloaded copies beyond the newest Keep, newest first.
Retain(c) ==
    LET copies == Only(shelf, {e \in Episodes : status[e] = "Downloaded"})
        surplus == IF Keep = 0 \/ Excess(copies) <= 0 THEN <<>>
                   ELSE Reverse(SubSeq(copies, 1, Excess(copies)))
    IN  /\ call[c].pc = "retain"
        /\ Become(c, IF surplus = <<>> THEN Done ELSE Call("request", "read", surplus, 0))
        /\ untrimmed' = untrimmed \ ToSet(copies)
        /\ UNCHANGED <<rowVars, files, tickVars, asked, trouble, fetches, taken>>

\* A poll of a podcast trims it even when it found nothing to download.
Trim(c) ==
    /\ Keep # 0 /\ Free(c) /\ Ask
    /\ Become(c, Call("request", "retain", <<>>, 0))
    /\ UNCHANGED <<rowVars, files, tickVars, trouble, histVars>>

\* DELETE /episodes/{id}/download.
AskRemoval(c, e) ==
    /\ Removals /\ Free(c) /\ Ask
    /\ Become(c, Call("removal", "read", <<e>>, 0))
    /\ UNCHANGED <<rowVars, files, tickVars, trouble, histVars>>

\* The row's path decides whether there is a file to delete.
ReadPath(c) ==
    /\ call[c].pc = "read"
    /\ GoTo(c, IF Contains(shelf, Target(c)) THEN "unlink" ELSE "reset")
    /\ UNCHANGED <<rowVars, files, tickVars, asked, trouble, histVars>>

Unlink(c) ==
    /\ call[c].pc = "unlink"
    /\ files' = files \ {Target(c)}
    /\ GoTo(c, "reset")
    /\ UNCHANGED <<rowVars, tickVars, asked, trouble, histVars>>

\* The row forgets the copy, its attempts and whatever it was doing.
Reset(c) ==
    LET e == Target(c)
        rest == Tail(call[c].todo)
    IN  /\ call[c].pc = "reset"
        /\ \/ /\ status' = [status EXCEPT ![e] = "NotDownloaded"]
              /\ attempts' = [attempts EXCEPT ![e] = 0]
              /\ started' = [started EXCEPT ![e] = "none"]
              /\ shelf' = Only(shelf, Episodes \ {e})
              /\ fetches' = [fetches EXCEPT ![e] = IF AboutToClaim(e) = {} THEN 0 ELSE @]
              /\ taken' = IF Writers(e) = {} THEN taken ELSE taken \cup {e}
              /\ Become(c, IF rest = <<>> THEN Done ELSE Call(call[c].kind, "read", rest, 0))
              /\ UNCHANGED <<trouble, untrimmed>>
           \/ /\ Trouble /\ Become(c, Done)
              /\ untrimmed' = untrimmed \cup ToSet(call[c].todo)
              /\ UNCHANGED <<rowVars, fetches, taken>>
        /\ UNCHANGED <<files, tickVars, asked>>

-----------------------------------------------------------------------------
(* recover_downloads: the poller runs it at the end of every tick.         *)

\* Mutant: only rows without a start are taken for orphans.
NeverStarted(e) == status[e] = "Downloading" /\ started[e] = "none"

Stuck(e) == status[e] = "Downloading" /\ started[e] \in {"none", "old"}

ResetStuck ==
    /\ tick = "asleep" /\ tick' = "cap"
    /\ status' = [e \in Episodes |-> IF Stuck(e) THEN "DownloadError" ELSE status[e]]
    /\ taken' = taken \cup {e \in Episodes : Stuck(e) /\ Writers(e) # {}}
    /\ UNCHANGED <<attempts, started, shelf, files, call, batch, asked, trouble, fetches, untrimmed>>

\* Mutant: the last attempt of the budget is not made.
SpentEarly(e) == attempts[e] + 1 >= MaxAttempts

Spent(e) == attempts[e] >= MaxAttempts

MarkBroken ==
    /\ tick = "cap" /\ tick' = "select"
    /\ status' = [e \in Episodes |-> IF status[e] = "DownloadError" /\ Spent(e)
                                     THEN "DownloadBroken" ELSE status[e]]
    /\ UNCHANGED <<attempts, started, shelf, files, call, batch, asked, trouble, histVars>>

\* The order of the batch: fewest attempts first, then the id.
Precedes(a, b) == attempts[a] < attempts[b] \/ (attempts[a] = attempts[b] /\ a < b)

Select ==
    LET errored == {e \in Episodes : status[e] = "DownloadError"}
    IN  /\ tick = "select" /\ tick' = "retry"
        /\ batch' = {e \in errored : Cardinality({x \in errored : Precedes(x, e)}) < BatchMax}
        /\ UNCHANGED <<rowVars, files, call, asked, trouble, histVars>>

\* download_many: the next of the batch gets a permit.
Retry(c, e) ==
    /\ tick = "retry" /\ e \in batch /\ Free(c)
    /\ batch' = batch \ {e}
    /\ Begin(c, e, "recovery")
    /\ UNCHANGED <<rowVars, files, tick, asked, trouble, histVars>>

EndTick ==
    /\ tick = "retry" /\ batch = {} /\ \A c \in Calls : call[c].kind # "recovery"
    /\ tick' = "asleep"
    /\ UNCHANGED <<rowVars, files, call, batch, asked, trouble, histVars>>

-----------------------------------------------------------------------------
(* Time and restarts.                                                      *)

\* The cutoff passes a download's start.
Age(e) ==
    /\ status[e] = "Downloading" /\ started[e] = "recent"
    /\ SlowDownloads \/ Writers(e) = {}
    /\ started' = [started EXCEPT ![e] = "old"]
    /\ UNCHANGED <<status, attempts, shelf, files, call, tickVars, asked, trouble, histVars>>

\* The process dies or re-executes itself; reclaim_orphaned_downloads runs at boot.
Restart ==
    /\ Trouble
    /\ call' = [c \in Calls |-> Done]
    /\ tick' = "asleep" /\ batch' = {}
    /\ status' = [e \in Episodes |-> IF status[e] = "Downloading" THEN "DownloadError"
                                     ELSE status[e]]
    /\ untrimmed' = Episodes /\ taken' = {}
    /\ UNCHANGED <<attempts, started, shelf, files, asked, fetches>>

Work(c) == \/ Claim(c) \/ Transfer(c) \/ Record(c) \/ SetFailed(c)
           \/ Retain(c) \/ ReadPath(c) \/ Unlink(c) \/ Reset(c)
Recover == \/ ResetStuck \/ MarkBroken \/ Select \/ EndTick
           \/ \E c \in Calls, e \in Episodes : Retry(c, e)

Next ==
    \/ \E c \in Calls : Work(c) \/ Trim(c) \/ \E e \in Episodes : Request(c, e) \/ AskRemoval(c, e)
    \/ Recover
    \/ \E e \in Episodes : Age(e)
    \/ Restart

Spec == Init /\ [][Next]_vars

\* Requests time out, tasks are scheduled, the poller ticks, and time passes.
Fairness == /\ \A c \in Calls : WF_vars(Work(c))
            /\ WF_vars(Recover)
            /\ \A e \in Episodes : WF_vars(Age(e))
FairSpec == Spec /\ Fairness

-----------------------------------------------------------------------------
(* What the server promises.                                               *)

\* One fetch at a time (lib.rs download_episode "the atomic claim above made us the sole
\* in-flight writer for this episode"): unless a removal, a retention pass or the watchdog
\* reset the row of a fetch that was still at work, no two calls transfer or record the
\* same episode.
SoleWriter == \A e \in Episodes \ taken : Cardinality(Writers(e)) <= 1

\* Clients "can stream when complete" (routes download handler): once no call is under way,
\* an episode shown as downloaded has its file, however many calls fetched and removed it.
CopiesAtRest ==
    (\A c \in Calls : Free(c)) => \A e \in Episodes : status[e] = "Downloaded" => e \in files

\* The server does not give up early (recover_downloads, DEFAULT_DOWNLOAD_MAX_ATTEMPTS):
\* a download marked broken has had its whole budget of fetches since it was last removed;
\* a fetch that had read the row before the removal carries the old count past it.
BudgetSpent == \A e \in Episodes : status[e] = "DownloadBroken" => fetches[e] >= MaxAttempts

\* Retention holds its cap (lib.rs enforce_retention "keep the newest `keep` server copies"):
\* once no call is under way, the copies a retention pass has considered are within it,
\* however many passes ran over each other's lists.
CapHolds ==
    (\A c \in Calls : Free(c)) /\ Keep > 0 =>
        Cardinality({e \in Episodes : status[e] = "Downloaded"} \ untrimmed) <= Keep

\* Nothing stays in flight or in error (recover_downloads "Self-heal stuck / errored
\* downloads"): what restarts, lost writes and failing origins leave behind is fetched,
\* refused or given up.
Settles ==
    \A e \in Episodes :
        status[e] \in {"Downloading", "DownloadError"} ~>
            status[e] \notin {"Downloading", "DownloadError"}
=============================================================================
