---------------------------- MODULE ClientDownloads ----------------------------
(***************************************************************************)
(* How the web client downloads one episode's audio to the device.  Every  *)
(* tab's worker keeps a badge and spawns detached tasks; a task holds the  *)
(* episode's Web Lock, waits for the server's copy, resumes from the bytes *)
(* staged in IndexedDB, and stores the audio when it has all of it.  Tasks *)
(* and workers of all tabs interleave at every await.                      *)
(*                                                                         *)
(* Audio is counted in pieces, one to a chunk; piece <<v, i>> is the i-th  *)
(* of the server's v-th copy.  Copies of different versions differ in      *)
(* size: equal sizes are beyond what the client can tell apart.  A request *)
(* fails after all its retries, and a response in parts is one response.   *)
(* Web Locks are supported.  A wipe (WipeLocal) is a removal here.         *)
(***************************************************************************)
EXTENDS Integers, FiniteSets, Sequences, FiniteSetsExt

CONSTANTS
    Tabs,
    Tasks,
    NoTask,
    Sizes,          \* version -> number of pieces
    Modes,          \* device_chunk_bytes set or not: subset of {"chunked", "stream"}
    Window,         \* device_parallelism
    MaxActs,        \* bound: users' commands and resumes
    MaxTrouble      \* bound: failed or mis-served requests, reloads and new copies

ASSUME ClientAssumption ==
    /\ NoTask \notin Tasks /\ Modes \subseteq {"chunked", "stream"}
    /\ Sizes \in Seq(Nat \ {0}) /\ Sizes # <<>> /\ \A v, w \in DOMAIN Sizes : Sizes[v] = Sizes[w] => v = w
    /\ Window \in Nat \ {0} /\ MaxActs \in Nat /\ MaxTrouble \in Nat

VARIABLES
    version,    \* copies the server has made
    copy,       \* the one it holds, 0 for none
    audio,      \* device: the stored pieces, in order
    chunks,     \* device: sequence number -> staged piece
    meta,       \* device: the staged download's record
    badge,      \* tab -> client_downloads of the episode
    done,       \* tab -> results its worker has not read yet
    task,
    lock,       \* holder of the episode's Web Lock
    acts, trouble,
    clean,      \* history: tasks nothing has disturbed since they took the lock
    orphaned,   \* history: a writer was opened at 0 for bytes that are no longer staged
    failed      \* history: how undisturbed tasks failed that left their bytes staged

deviceVars == <<audio, chunks, meta>>
histVars == <<clean, orphaned, failed>>
vars == <<version, copy, deviceVars, badge, done, task, lock, acts, trouble, histVars>>

Versions == DOMAIN Sizes
NoMeta == [down |-> 0, total |-> 0, next |-> 0, staged |-> FALSE]
NoWriter == [down |-> 0, total |-> 0, next |-> 0]
Off == [pc |-> "off", tab |-> NoTask, mode |-> "stream", down |-> 0, total |-> 0, writer |-> NoWriter,
        check |-> FALSE, asked |-> 0, inflight |-> {}, buffer |-> <<>>, error |-> "none", from |-> 0,
        after |-> "off", bag |-> <<>>]

Offsets == 0..Max({Sizes[v] : v \in Versions})
Pieces == (Versions \cup {0}) \X Offsets
Least(a, b) == IF a < b THEN a ELSE b
With(f, x, y) == [z \in DOMAIN f \cup {x} |-> IF z = x THEN y ELSE f[z]]
Drop(f, x) == [z \in DOMAIN f \ {x} |-> f[z]]
Trouble == trouble < MaxTrouble /\ trouble' = trouble + 1
Act == acts < MaxActs /\ acts' = acts + 1
Disturbed == clean' = {}

Badges == {"none", "downloading", "downloaded", "failed"}
Steps == {"off", "lock", "poll", "read", "open", "first", "fresh", "write", "drain", "stop",
          "discard", "gather", "put", "clear", "request", "sopen", "stream"}

TypeOK ==
    /\ version \in 0..Len(Sizes) /\ copy \in {0, version}
    /\ audio \in Seq(Pieces) /\ meta.staged \in BOOLEAN /\ DOMAIN chunks \subseteq Offsets
    /\ badge \in [Tabs -> Badges] /\ lock \in Tasks \cup {NoTask}
    /\ \A k \in Tasks :
         LET w == task[k] IN
         /\ w.pc \in Steps /\ w.pc # "off" => w.tab \in Tabs
         /\ w.pc \notin {"off", "lock"} => lock = k
         /\ w.down \in Offsets /\ w.total \in Offsets /\ w.inflight \subseteq w.down..(w.asked - 1)
         /\ w.pc \in {"write", "gather", "put", "clear"} => w.total > 0 /\ w.down <= w.total
         /\ w.pc = "drain" => w.inflight # {} /\ w.down \notin DOMAIN w.buffer
         /\ w.asked <= w.down + Window
    /\ acts \in 0..MaxActs /\ trouble \in 0..MaxTrouble /\ clean \subseteq Tasks
    /\ failed \subseteq {"past", "other"}

Init ==
    /\ version \in 0..1 /\ copy = version
    /\ audio = <<>> /\ chunks = <<>> /\ meta = NoMeta
    /\ badge = [t \in Tabs |-> "none"] /\ done = [t \in Tabs |-> <<>>]
    /\ task = [k \in Tasks |-> Off] /\ lock = NoTask
    /\ acts = 0 /\ trouble = 0
    /\ clean = {} /\ orphaned = FALSE /\ failed = {}

-----------------------------------------------------------------------------
(* The server: it fetches its copy, and fetches another when it is asked   *)
(* for one or its file is gone (ServerDownloads).                          *)

Serve ==
    /\ version < Len(Sizes) /\ (version = 0 \/ copy = 0)
    /\ version' = version + 1 /\ copy' = version + 1
    /\ Disturbed
    /\ UNCHANGED <<deviceVars, badge, done, task, lock, acts, trouble, orphaned, failed>>

Lose ==
    /\ copy # 0 /\ Trouble /\ copy' = 0
    /\ Disturbed
    /\ UNCHANGED <<version, deviceVars, badge, done, task, lock, acts, orphaned, failed>>

-----------------------------------------------------------------------------
(* The worker of a tab.                                                    *)

Discarded == chunks' = <<>> /\ meta' = NoMeta
RemoveAudio == audio' = <<>> /\ Discarded
Spawn(t) == \E k \in Tasks, mode \in Modes :
    task[k].pc = "off" /\ task' = [task EXCEPT ![k] = [Off EXCEPT !.pc = "lock", !.tab = t, !.mode = mode]]

\* DownloadToDevice: start_device_download.
Start(t) ==
    /\ badge[t] \notin {"downloading", "downloaded"} /\ Act
    /\ badge' = [badge EXCEPT ![t] = "downloading"] /\ Spawn(t)
    /\ UNCHANGED <<version, copy, deviceVars, done, lock, trouble, histVars>>

\* RemoveDownload.  A running task is not told.
Remove(t) ==
    /\ badge[t] # "none" /\ Act
    /\ badge' = [badge EXCEPT ![t] = "none"] /\ RemoveAudio
    /\ Disturbed
    /\ UNCHANGED <<version, copy, done, task, lock, trouble, orphaned, failed>>

\* RedownloadDevice: the removal, then the start, after the command's commit.
Redownload(t) ==
    /\ badge[t] # "none" /\ Act
    /\ badge' = [badge EXCEPT ![t] = "downloading"] /\ RemoveAudio /\ Spawn(t)
    /\ Disturbed
    /\ UNCHANGED <<version, copy, done, lock, trouble, orphaned, failed>>

\* resume_partial_downloads, on every authentication.
Resume(t) ==
    /\ meta.staged /\ badge[t] \notin {"downloading", "downloaded"} /\ Act
    /\ badge' = [badge EXCEPT ![t] = "downloading"] /\ Spawn(t)
    /\ UNCHANGED <<version, copy, deviceVars, done, lock, trouble, histVars>>

\* Mutant: a late failure leaves the badge.
OnSuccess(t, result) == IF result = "ok" THEN "downloaded" ELSE badge[t]

Outcome(t, result) == IF result = "ok" THEN "downloaded" ELSE "failed"

\* DeviceFetchComplete
Complete(t) ==
    /\ done[t] # <<>>
    /\ badge' = [badge EXCEPT ![t] = Outcome(t, Head(done[t]))]
    /\ done' = [done EXCEPT ![t] = Tail(@)]
    /\ UNCHANGED <<version, copy, deviceVars, task, lock, acts, trouble, histVars>>

\* The tab is closed or reloaded: its tasks die, its lock goes, hydrate_from_store finds the audio.
Reload(t) ==
    LET dead == {k \in Tasks : task[k].tab = t} IN
    /\ Trouble
    /\ task' = [k \in Tasks |-> IF k \in dead THEN Off ELSE task[k]]
    /\ lock' = IF lock \in dead THEN NoTask ELSE lock
    /\ done' = [done EXCEPT ![t] = <<>>]
    /\ badge' = [badge EXCEPT ![t] = IF audio # <<>> THEN "downloaded" ELSE "none"]
    /\ clean' = clean \ dead
    /\ UNCHANGED <<version, copy, deviceVars, acts, orphaned, failed>>

-----------------------------------------------------------------------------
(* A task.                                                                 *)

Become(k, w) == task' = [task EXCEPT ![k] = w]
GoTo(k, pc) == Become(k, [task[k] EXCEPT !.pc = pc])
Quiet == UNCHANGED <<version, copy, badge, done, lock, acts, clean, failed>>
Calm == UNCHANGED <<trouble, orphaned>>

\* The result is sent, then the lock released.
End(k, result, cause) ==
    /\ done' = [done EXCEPT ![task[k].tab] = Append(@, result)]
    /\ Become(k, Off)
    /\ lock' = IF lock = k THEN NoTask ELSE lock
    /\ failed' = IF result = "err" /\ k \in clean /\ copy # 0 /\ meta'.staged
                 THEN failed \cup ({cause} \ {"network"}) ELSE failed
    /\ clean' = clean \ {k}
    /\ UNCHANGED <<version, copy, badge, acts>>

\* Mutant: tasks do not look at the lock.
Ignored == TRUE
Free == lock = NoTask

Lock(k) ==
    /\ task[k].pc = "lock"
    /\ UNCHANGED deviceVars
    /\ IF Free THEN /\ lock' = k /\ GoTo(k, "poll") /\ clean' = clean \cup {k}
                    /\ UNCHANGED <<version, copy, badge, done, acts, failed>>
       ELSE End(k, "err", "busy")
    /\ Calm

\* The server's copy is waited for, unless the cached row says it is there.
Poll(k) ==
    /\ task[k].pc = "poll"
    /\ UNCHANGED <<deviceVars, orphaned>>
    /\ \/ version > 0 /\ GoTo(k, "read") /\ Quiet /\ UNCHANGED trouble
       \/ copy = 0 /\ End(k, "err", "other") /\ UNCHANGED trouble
       \/ Trouble /\ End(k, "err", "network")

\* verifying_resume
Compared(w) == w.down > 0

Read(k) ==
    LET w == [task[k] EXCEPT !.down = meta.down, !.writer = NoWriter,
                             !.total = IF meta.down > 0 THEN meta.total ELSE 0]
    IN  /\ task[k].pc = "read"
        /\ Become(k, [w EXCEPT !.check = Compared(w),
                        !.pc = IF w.mode = "stream" THEN "request" ELSE IF w.down > 0 THEN "open" ELSE "first"])
        /\ Quiet /\ Calm /\ UNCHANGED deviceVars

\* open_writer, continuing: without a record it starts from 0, whatever its caller has read ...
OpenResumed(k, pc) ==
    LET w == task[k] IN
    IF meta.staged
    THEN /\ Become(k, [w EXCEPT !.pc = pc, !.writer = [down |-> meta.down, next |-> meta.next,
                         total |-> IF meta.total > 0 THEN meta.total ELSE w.total]])
         /\ UNCHANGED <<chunks, meta, orphaned>>
    ELSE /\ Become(k, [w EXCEPT !.pc = pc, !.writer = [NoWriter EXCEPT !.total = w.total]])
         /\ Discarded /\ orphaned' = TRUE

\* ... or from the start.
OpenFresh(k, pc) ==
    LET total == task[k].total IN
    /\ chunks' = <<>> /\ meta' = [down |-> 0, total |-> total, next |-> 0, staged |-> TRUE]
    /\ Become(k, [task[k] EXCEPT !.pc = pc, !.writer = [NoWriter EXCEPT !.total = total]])
    /\ UNCHANGED orphaned

Open(k) ==
    /\ task[k].pc = "open" /\ OpenResumed(k, "first")
    /\ Quiet /\ UNCHANGED <<trouble, audio>>

Answers(off) == copy # 0 /\ off < Sizes[copy]

\* No copy, a range past its end (416), or no answer.
Refused(k, off) ==
    \/ copy = 0 /\ End(k, "err", "other") /\ UNCHANGED trouble
    \/ copy # 0 /\ off >= Sizes[copy] /\ End(k, "err", "past") /\ UNCHANGED trouble
    \/ Trouble /\ End(k, "err", "network")

\* What is staged is discarded, and the download goes on from the start.
StartOver(k, pc) ==
    Become(k, [task[k] EXCEPT !.pc = "discard", !.after = pc, !.down = 0, !.total = 0, !.check = FALSE,
                 !.writer = NoWriter, !.asked = 0, !.inflight = {}, !.buffer = <<>>, !.error = "none"])

\* A response from another offset: one clean retry, then streaming.
Misserved(k) ==
    LET mode == IF task[k].mode = "chunked" THEN "retry" ELSE "stream" IN
    task' = [task EXCEPT ![k] = [Off EXCEPT !.pc = "discard", !.tab = task[k].tab,
                                   !.mode = mode, !.after = "read"]]

\* Phase A: the first chunk, fetched alone.
First(k) ==
    LET w == task[k]
        total == Sizes[copy]
        got == With(<<>>, w.down, <<copy, w.down>>)
    IN  /\ w.pc = "first" /\ UNCHANGED <<deviceVars, orphaned>>
        /\ \/ w.total > 0 /\ w.down = w.total /\ GoTo(k, "gather") /\ Quiet /\ UNCHANGED trouble
           \/ w.total > 0 /\ w.down > w.total /\ StartOver(k, "first") /\ Quiet /\ UNCHANGED trouble
           \/ /\ w.total = 0 \/ w.down < w.total
              /\ \/ /\ Answers(w.down) /\ Quiet /\ UNCHANGED trouble
                    /\ IF w.check /\ w.total \notin {0, total} THEN StartOver(k, "first")
                       ELSE Become(k, [w EXCEPT !.check = FALSE, !.buffer = got, !.asked = w.down + 1,
                              !.pc = IF w.down = 0 THEN "fresh" ELSE "write",
                              !.total = IF w.check \/ w.down = 0 THEN total ELSE @])
                 \/ Refused(k, w.down)
                 \/ /\ w.down > 0 /\ Trouble /\ Misserved(k) /\ clean' = clean \ {k}
                    /\ UNCHANGED <<version, copy, badge, done, lock, acts, failed>>

Fresh(k) ==
    /\ task[k].pc = "fresh" /\ OpenFresh(k, "write")
    /\ Quiet /\ UNCHANGED <<trouble, audio>>

\* MediaWriter::write: the chunk and the record in one transaction.
Stage(w, piece) ==
    /\ chunks' = With(chunks, w.writer.next, piece)
    /\ meta' = [down |-> w.writer.down + 1, total |-> w.writer.total, next |-> w.writer.next + 1,
                staged |-> TRUE]

Written(w) ==
    [w EXCEPT !.down = @ + 1, !.writer.down = @ + 1, !.writer.next = @ + 1, !.buffer = Drop(@, w.down)]

\* Phase B: requests go out while the window has room, unless one has failed ...
Refilled(w) ==
    LET upto == IF w.error = "none" THEN Least(w.total, w.down + Window) ELSE w.asked IN
    [w EXCEPT !.asked = upto, !.inflight = @ \cup (w.asked..(upto - 1))]

\* ... and the next chunk in order is written as soon as it is there.
Write(k) ==
    LET w == task[k]
        rest == Refilled(Written(w))
    IN  /\ w.pc = "write" /\ Stage(w, w.buffer[w.down])
        /\ \/ rest.down = rest.total /\ Become(k, [rest EXCEPT !.pc = "gather"]) /\ Quiet
           \/ /\ rest.down < rest.total /\ Quiet
              /\ \/ rest.down \in DOMAIN rest.buffer /\ Become(k, rest)
                 \/ /\ rest.down \notin DOMAIN rest.buffer /\ rest.inflight # {}
                    /\ Become(k, [rest EXCEPT !.pc = "drain"])
                 \/ /\ rest.down \notin DOMAIN rest.buffer /\ rest.inflight = {}
                    /\ Become(k, [rest EXCEPT !.pc = "stop"])
        /\ Calm /\ UNCHANGED audio

\* Mutant: a chunk of another size's copy is taken.
AnyCopy(w) == TRUE
SameCopy(w) == Sizes[copy] = w.total

\* A response of the window, in any order.  The first error is kept.
Arrive(k, off) ==
    LET w == [task[k] EXCEPT !.inflight = @ \ {off}]
        next(x) == IF x.down \in DOMAIN x.buffer THEN "write" ELSE IF x.inflight # {} THEN "drain" ELSE "stop"
        settle(x) == Become(k, [x EXCEPT !.pc = next(x)])
        fail(error) == settle([w EXCEPT !.error = IF @ = "none" THEN error ELSE @])
    IN  /\ task[k].pc = "drain" /\ off \in task[k].inflight
        /\ \/ /\ Answers(off) /\ UNCHANGED <<trouble, clean>>
              /\ IF SameCopy(w) THEN settle([w EXCEPT !.buffer = With(@, off, <<copy, off>>)]) ELSE fail("other")
           \/ copy # 0 /\ ~Answers(off) /\ fail("past") /\ UNCHANGED <<trouble, clean>>
           \/ copy = 0 /\ fail("other") /\ UNCHANGED <<trouble, clean>>
           \/ Trouble /\ fail("network") /\ UNCHANGED clean
           \/ Trouble /\ fail("misserved") /\ clean' = clean \ {k}
        /\ UNCHANGED <<version, copy, badge, done, lock, acts, failed, deviceVars, orphaned>>

\* Nothing is in flight and the next chunk never came: the first error counts.
Stop(k) ==
    /\ task[k].pc = "stop" /\ UNCHANGED deviceVars
    /\ \/ task[k].error = "misserved" /\ Misserved(k) /\ Quiet
       \/ task[k].error # "misserved" /\ End(k, "err", task[k].error)
    /\ Calm

\* remove_audio, by the task.
Discard(k) ==
    /\ task[k].pc = "discard" /\ RemoveAudio
    /\ Become(k, [task[k] EXCEPT !.pc = task[k].after, !.after = "off"])
    /\ Quiet /\ Calm

-----------------------------------------------------------------------------
(* One streamed request (download_audio_streaming).                        *)

\* A response is one copy from beginning to end, even when the server replaces it meanwhile.
Request(k) ==
    LET w == task[k] IN
    /\ w.pc = "request" /\ UNCHANGED <<deviceVars, orphaned>>
    /\ \/ /\ Answers(w.down) /\ Quiet /\ UNCHANGED trouble
          /\ IF w.check /\ w.total \notin {0, Sizes[copy]} THEN StartOver(k, "request")
             ELSE Become(k, [w EXCEPT !.pc = "sopen", !.from = copy, !.total = Sizes[copy]])
       \/ Refused(k, w.down)
       \/ /\ copy # 0 /\ w.down > 0 /\ Trouble /\ StartOver(k, "request") /\ clean' = clean \ {k}
          /\ UNCHANGED <<version, copy, badge, done, lock, acts, failed>>

StreamOpen(k) ==
    /\ task[k].pc = "sopen"
    /\ IF task[k].down > 0 THEN OpenResumed(k, "stream") ELSE OpenFresh(k, "stream")
    /\ Quiet /\ UNCHANGED <<trouble, audio>>

Stream(k) ==
    LET w == task[k] IN
    /\ w.pc = "stream"
    /\ \/ w.down = w.total /\ GoTo(k, "gather") /\ Quiet /\ UNCHANGED <<trouble, chunks, meta>>
       \/ w.down < w.total /\ Stage(w, <<w.from, w.down>>) /\ Become(k, Written(w)) /\ Quiet /\ UNCHANGED trouble
       \/ w.down < w.total /\ UNCHANGED <<chunks, meta>> /\ Trouble /\ End(k, "err", "network")
    /\ UNCHANGED <<audio, orphaned>>

-----------------------------------------------------------------------------
(* MediaWriter::commit.                                                    *)

NoneMissing(w) == \A seq \in 0..(w.writer.next - 1) : seq \in DOMAIN chunks

\* Mutant: what is left is kept for the next attempt.
Nothing == UNCHANGED <<chunks, meta>>
Reset == Discarded

\* The staged chunks are collected; if one is gone, all are discarded.
Gather(k) ==
    LET w == task[k]
        numbers == {seq \in 0..(w.writer.next - 1) : seq \in DOMAIN chunks}
    IN  /\ w.pc = "gather"
        /\ IF NoneMissing(w)
           THEN /\ Become(k, [w EXCEPT !.pc = "put", !.buffer = <<>>,
                     !.bag = [i \in 1..w.writer.next |-> IF i - 1 \in numbers THEN chunks[i - 1] ELSE <<0, 0>>]])
                /\ Quiet /\ UNCHANGED deviceVars
           ELSE Reset /\ UNCHANGED audio /\ End(k, "err", "other")
        /\ Calm

Put(k) ==
    /\ task[k].pc = "put" /\ audio' = task[k].bag /\ GoTo(k, "clear")
    /\ Quiet /\ Calm /\ UNCHANGED <<chunks, meta>>

Clear(k) ==
    /\ task[k].pc = "clear" /\ Discarded /\ End(k, "ok", "none")
    /\ Calm /\ UNCHANGED audio

Step(k) ==
    \/ Lock(k) \/ Poll(k) \/ Read(k) \/ Open(k) \/ First(k) \/ Fresh(k) \/ Write(k)
    \/ (\E off \in task[k].inflight : Arrive(k, off)) \/ Stop(k) \/ Discard(k)
    \/ Request(k) \/ StreamOpen(k) \/ Stream(k) \/ Gather(k) \/ Put(k) \/ Clear(k)

Next ==
    \/ Serve \/ Lose
    \/ \E t \in Tabs : Start(t) \/ Remove(t) \/ Redownload(t) \/ Resume(t) \/ Complete(t) \/ Reload(t)
    \/ \E k \in Tasks : Step(k)

Spec == Init /\ [][Next]_vars

\* A task goes on as its requests are answered or given up, and a worker reads its channel.
Fairness == (\A k \in Tasks : WF_vars(Step(k))) /\ (\A t \in Tabs : WF_vars(Complete(t)))
FairSpec == Spec /\ Fairness

-----------------------------------------------------------------------------
(* What the device promises.                                               *)

\* Stored audio is one copy of the server's, whole and in order, over resumes, copies replaced
\* meanwhile, responses from the wrong offset, chunks out of order and several tabs (download.rs
\* download_audio "commit only a verified-complete file"), unless a writer was opened for bytes
\* that a removal took away after its task had counted them.
WholeCopy == \E v \in Versions : audio = [i \in 1..Sizes[v] |-> <<v, i - 1>>]
WholeAudio == audio = <<>> \/ WholeCopy \/ orphaned

\* The same without exception.
NeverTorn == audio = <<>> \/ WholeCopy

\* A task that nothing disturbs stores the audio, or at least leaves nothing staged that would
\* fail the next one again (download.rs download_audio_chunked), unless the server's new copy
\* ends before the staged bytes do.
NotWedged == "other" \notin failed

\* A badge does not stay at downloading (worker.rs DeviceFetchComplete "In-flight progress is
\* done either way").
DownloadingEnds == \A t \in Tabs : badge[t] = "downloading" ~> badge[t] # "downloading"
=============================================================================
